--------------------------- MODULE UtHash_proofs ---------------------------
(***************************************************************************)
(* What the hash table of counters keeps for any set of counters, any hash *)
(* values and any values of uthash's parameters.  The invariant names the  *)
(* sequence of entries that each doubly linked list stands for: one in     *)
(* order of insertion, and one for each bucket.                            *)
(***************************************************************************)
EXTENDS UtHash, Induction, FiniteSetTheorems, SequenceTheorems

-----------------------------------------------------------------------------
(* Lists and the sequences they stand for *)

Front(s) == IF s = << >> THEN NULL ELSE s[1]

Injects(s) == \A i, j \in 1..Len(s) : s[i] = s[j] => i = j

(* The entries of s follow each other by a link, and the last has none. *)
Linked(link, s) ==
  \A i \in 1..Len(s) : link[s[i]] = IF i = Len(s) THEN NULL ELSE s[i + 1]

(* The recursion of Walk. *)
IsFrom(from, link) ==
  from = [x \in Pointer |-> IF x = NULL THEN << >> ELSE << x >> \o from[link[x]]]

(* What is known of a sequence of entries. *)
LEMMA EntrySeq ==
  ASSUME NEW s \in Seq(Entry)
  PROVE  /\ Len(s) \in Nat /\ DOMAIN s = 1..Len(s)
         /\ \A i \in 1..Len(s) : s[i] \in Entry /\ s[i] # NULL /\ s[i] \in Pointer
         /\ s = << >> <=> Len(s) = 0
         /\ Front(s) \in Pointer /\ (Front(s) = NULL <=> s = << >>)
<1>1. /\ Len(s) \in Nat /\ DOMAIN s = 1..Len(s)
      /\ \A i \in 1..Len(s) : s[i] \in Entry
      /\ s = << >> <=> Len(s) = 0
  OBVIOUS
<1>2. s # << >> => 1 \in 1..Len(s)
  BY <1>1
<1> QED
  BY <1>1, <1>2, UtHashAssumption DEF Front, Pointer

(* The rest of a sequence from one entry is that entry and the rest from the *)
(* next.                                                                     *)
LEMMA RestStep ==
  ASSUME NEW s \in Seq(Entry), NEW i \in 1..Len(s)
  PROVE  /\ SubSeq(s, i, Len(s)) = << s[i] >> \o SubSeq(s, i + 1, Len(s))
         /\ SubSeq(s, i, Len(s)) \in Seq(Entry)
         /\ i = Len(s) => SubSeq(s, i + 1, Len(s)) = << >>
<1>1. Len(s) \in Nat /\ i \in Nat /\ Len(s) \in i..Len(s)
  OBVIOUS
<1>2. SubSeq(s, i, Len(s)) = << s[i] >> \o SubSeq(s, i + 1, Len(s))
  BY <1>1, SubSeqRecursiveFirst
<1>3. \A j \in i..Len(s) : s[j] \in Entry
  BY <1>1
<1>4. SubSeq(s, i, Len(s)) \in Seq(Entry)
  BY <1>1, <1>3, SubSeqProperties
<1>5. i = Len(s) => SubSeq(s, i + 1, Len(s)) = << >>
  BY <1>1, SubSeqEmpty
<1> QED
  BY <1>2, <1>4, <1>5

(* A function that satisfies the recursion of Walk takes an entry of a       *)
(* linked sequence to the rest of it, and so its front to the whole.         *)
LEMMA FromAlong ==
  ASSUME NEW link, NEW from, IsFrom(from, link), NEW s \in Seq(Entry), Linked(link, s)
  PROVE  from[Front(s)] = s
<1> DEFINE n == Len(s)
<1> DEFINE at(k) == IF k = 0 THEN NULL ELSE s[n + 1 - k]
<1> DEFINE rest(k) == SubSeq(s, n + 1 - k, n)
<1> DEFINE S == {k \in 0..n : from[at(k)] = rest(k)}
<1>1. n \in Nat
  BY EntrySeq
<1>2. \A x \in Pointer : from[x] = IF x = NULL THEN << >> ELSE << x >> \o from[link[x]]
  BY DEF IsFrom
<1>3. 0 \in S
  <2>1. rest(0) = << >>
    BY <1>1, SubSeqEmpty
  <2>2. from[NULL] = << >>
    BY <1>2 DEF Pointer
  <2>3. 0 \in 0..n /\ at(0) = NULL
    BY <1>1
  <2> HIDE DEF rest, at
  <2> QED
    BY <2>1, <2>2, <2>3
<1>4. ASSUME NEW k \in 0..(n - 1), k \in S PROVE k + 1 \in S
  <2> DEFINE i == n - k
  <2>1. /\ i \in 1..n /\ n + 1 - (k + 1) = i /\ n + 1 - k = i + 1 /\ k + 1 # 0
        /\ k + 1 \in 0..n /\ (k = 0 <=> i = n)
    BY <1>1
  <2>2. s[i] \in Pointer /\ s[i] # NULL
    BY <2>1, EntrySeq
  <2>3. link[s[i]] = at(k)
    BY <2>1 DEF Linked
  <2>4. from[s[i]] = << s[i] >> \o from[at(k)]
    BY <1>2, <2>2, <2>3
  <2>5. from[at(k)] = SubSeq(s, i + 1, n)
    BY <1>4, <2>1
  <2>6. SubSeq(s, i, n) = << s[i] >> \o SubSeq(s, i + 1, n)
    BY <2>1, RestStep
  <2>7. from[s[i]] = SubSeq(s, i, n)
    BY <2>4, <2>5, <2>6
  <2>8. at(k + 1) = s[i] /\ rest(k + 1) = SubSeq(s, i, n)
    BY <2>1
  <2> HIDE DEF i, at, rest
  <2> QED
    BY <2>1, <2>7, <2>8
<1>5. n \in S
  <2>1. n \in 0..n
    BY <1>1
  <2> HIDE DEF S, n
  <2> QED
    BY <1>1, <1>3, <1>4, <2>1, InductionTo
<1>6. from[at(n)] = SubSeq(s, n + 1 - n, n)
  BY <1>5
<1>7. n + 1 - n = 1 /\ SubSeq(s, 1, n) = s
  BY <1>1, SubSeqFull
<1>8. at(n) = Front(s)
  <2>1. s = << >> <=> n = 0
    BY EntrySeq
  <2> QED
    BY <1>7, <2>1 DEF Front
<1> HIDE DEF at, n
<1> QED
  BY <1>6, <1>7, <1>8

(* The entries P lie on disjoint linked sequences, one for each element of B *)
(* and C names it; other entries have no link.                               *)
Spread(link, B, C, bkt, P) ==
  /\ link \in [Entry -> Pointer] /\ C \in [B -> Seq(Entry)] /\ bkt \in [Entry -> B]
  /\ \A b \in B : Linked(link, C[b]) /\ Injects(C[b])
  /\ \A b \in B : \A i \in 1..Len(C[b]) : C[b][i] \in P /\ bkt[C[b][i]] = b
  /\ \A e \in P : \E i \in 1..Len(C[bkt[e]]) : C[bkt[e]][i] = e
  /\ \A e \in Entry \ P : link[e] = NULL

(* The walk from the front of such a sequence meets that sequence. *)
LEMMA WalkAlong ==
  ASSUME NEW link, NEW B, NEW C, NEW bkt, NEW P, Spread(link, B, C, bkt, P)
  PROVE  \A b \in B : Walk(link, Front(C[b])) = C[b]
<1> USE DEF Spread
<1> DEFINE pos(e) == CHOOSE i \in 1..Len(C[bkt[e]]) : C[bkt[e]][i] = e
<1> DEFINE rest(e) == IF e \in P THEN SubSeq(C[bkt[e]], pos(e), Len(C[bkt[e]])) ELSE << e >>
<1> DEFINE f == [x \in Pointer |-> IF x = NULL THEN << >> ELSE rest(x)]
<1>1. IsFrom(f, link)
  <2>1. ASSUME NEW x \in Pointer
        PROVE  f[x] = IF x = NULL THEN << >> ELSE << x >> \o f[link[x]]
    <3>1. CASE x = NULL
      BY <3>1
    <3>2. CASE x # NULL
      <4>1. x \in Entry /\ f[x] = rest(x) /\ link[x] \in Pointer
        BY <3>2 DEF Pointer
      <4>2. CASE x \notin P
        <5>1. link[x] = NULL /\ f[NULL] = << >> /\ rest(x) = << x >>
          BY <4>1, <4>2 DEF Pointer
        <5>2. << x >> \in Seq(Entry)
          BY <4>1
        <5>3. << x >> \o << >> = << x >>
          BY <5>2, ConcatEmptySeq
        <5> HIDE DEF f, rest
        <5> QED
          BY <3>2, <4>1, <5>1, <5>3
      <4>3. CASE x \in P
        <5> DEFINE b == bkt[x]
        <5> DEFINE s == C[b]
        <5> DEFINE i == pos(x)
        <5>1. b \in B /\ s \in Seq(Entry) /\ Linked(link, s) /\ Injects(s)
          BY <4>1
        <5>2. i \in 1..Len(s) /\ s[i] = x
          BY <4>3
        <5>3. rest(x) = SubSeq(s, i, Len(s))
          BY <4>3
        <5>4. link[x] = IF i = Len(s) THEN NULL ELSE s[i + 1]
          <6> HIDE DEF s, i
          <6> QED
            BY <5>1, <5>2 DEF Linked
        <5>5. /\ SubSeq(s, i, Len(s)) = << x >> \o SubSeq(s, i + 1, Len(s))
              /\ i = Len(s) => SubSeq(s, i + 1, Len(s)) = << >>
          <6> HIDE DEF s, i
          <6> QED
            BY <5>1, <5>2, RestStep
        <5>6. f[link[x]] = SubSeq(s, i + 1, Len(s))
          <6>1. CASE i = Len(s)
            <7>1. link[x] = NULL /\ f[NULL] = << >>
              BY <5>4, <6>1 DEF Pointer
            <7> HIDE DEF f
            <7> QED
              BY <5>5, <6>1, <7>1
          <6>2. CASE i # Len(s)
            <7> DEFINE y == link[x]
            <7>1. i + 1 \in 1..Len(s) /\ s[i + 1] = y
              <8>1. Len(s) \in Nat
                BY <5>1, EntrySeq
              <8> HIDE DEF s, i, y
              <8>2. i + 1 \in 1..Len(s)
                BY <5>2, <6>2, <8>1
              <8> QED
                BY <5>4, <6>2, <8>2 DEF y
            <7>2. bkt[y] = b
              <8>1. bkt[C[b][i + 1]] = b
                BY <5>1, <7>1
              <8> HIDE DEF y
              <8> QED
                BY <7>1, <8>1
            <7>3. y \in P /\ y # NULL /\ y \in Pointer /\ y \in Entry
              <8>1. C[b][i + 1] \in P
                BY <5>1, <7>1
              <8>2. s[i + 1] # NULL /\ s[i + 1] \in Pointer /\ s[i + 1] \in Entry
                <9> HIDE DEF s, i
                <9> QED
                  BY <5>1, <7>1, EntrySeq
              <8> HIDE DEF y, i
              <8> QED
                BY <7>1, <8>1, <8>2
            <7> HIDE DEF y
            <7>4. pos(y) = i + 1
              <8>1. pos(y) \in 1..Len(s) /\ s[pos(y)] = y
                <9>1. \E j \in 1..Len(C[bkt[y]]) : C[bkt[y]][j] = y
                  BY <7>3
                <9> QED
                  BY <7>2, <9>1
              <8> HIDE DEF pos, s, i
              <8> QED
                BY <5>1, <7>1, <8>1 DEF Injects
            <7>5. f[y] = rest(y)
              BY <7>3
            <7>6. rest(y) = SubSeq(s, i + 1, Len(s))
              <8> HIDE DEF pos, i
              <8> QED
                BY <7>2, <7>3, <7>4
            <7> HIDE DEF f, rest, s, i
            <7> QED
              BY <7>5, <7>6 DEF y
          <6> QED
            BY <6>1, <6>2
        <5> HIDE DEF f, rest, s, i
        <5> QED
          BY <3>2, <4>1, <5>3, <5>5, <5>6
      <4> QED
        BY <4>2, <4>3
    <3> QED
      BY <3>1, <3>2
  <2> DEFINE g == [x \in Pointer |-> IF x = NULL THEN << >> ELSE << x >> \o f[link[x]]]
  <2>2. DOMAIN f = Pointer /\ f = [x \in Pointer |-> f[x]]
    OBVIOUS
  <2> HIDE DEF f
  <2>3. \A x \in Pointer : f[x] = g[x]
    BY <2>1
  <2>4. f = g
    BY <2>2, <2>3
  <2> QED
    BY <2>4 DEF IsFrom
<1> HIDE DEF f
<1> DEFINE from == CHOOSE g : IsFrom(g, link)
<1>2. IsFrom(from, link)
  BY <1>1
<1>3. \A e \in Pointer : Walk(link, e) = from[e]
  BY DEF Walk, IsFrom
<1> HIDE DEF from
<1> SUFFICES ASSUME NEW b \in B PROVE Walk(link, Front(C[b])) = C[b]
  OBVIOUS
<1>4. C[b] \in Seq(Entry) /\ Front(C[b]) \in Pointer
  BY EntrySeq
<1>5. from[Front(C[b])] = C[b]
  BY <1>2, <1>4, FromAlong
<1> QED
  BY <1>3, <1>4, <1>5

-----------------------------------------------------------------------------
(* Types *)

Link == [Entry -> Pointer]
Links == [prev : Link, next : Link, hh_prev : Link, hh_next : Link]
Bucket == [hh_head : Pointer, count : Nat, expand_mult : Nat]

(* A table of n buckets, and a table together with the links. *)
Tables(n) ==
  [ buckets : [0..n - 1 -> Bucket], num_buckets : {n}, log2_num_buckets : Nat,
    num_items : Nat, tail : Pointer, ideal_chain_maxlen : Nat, nonideal_items : Nat,
    ineff_expands : Nat, noexpand : BOOLEAN ]
States(n) == [tbl : Tables(n), hh : Links]

(* Freed clears every link of one counter and no other. *)
LEMMA FreedType ==
  ASSUME NEW links \in Links, NEW d \in Entry
  PROVE  /\ Freed(links, d) \in Links
         /\ Freed(links, d).prev = [links.prev EXCEPT ![d] = NULL]
         /\ Freed(links, d).next = [links.next EXCEPT ![d] = NULL]
         /\ Freed(links, d).hh_prev = [links.hh_prev EXCEPT ![d] = NULL]
         /\ Freed(links, d).hh_next = [links.hh_next EXCEPT ![d] = NULL]
  BY DEF Freed, Links, Link, Pointer

(* The links by their fields, as TypeOK has them. *)
LEMMA LinksField ==
  ASSUME NEW links \in Links
  PROVE  /\ links \in [{"prev", "next", "hh_prev", "hh_next"} -> [Entry -> Pointer]]
         /\ DOMAIN links = {"prev", "next", "hh_prev", "hh_next"}
  BY DEF Links, Link

(* What links and backward links become when e is put before first. *)
LinkBefore(link, e, first) == [link EXCEPT ![e] = first]
BackBefore(back, e, first) ==
  [x \in Entry |-> IF x = first THEN e ELSE IF x = e THEN NULL ELSE back[x]]

(* What moving entries from chain to chain leaves alone. *)
SameTotals(s, t) ==
  /\ t.tbl.log2_num_buckets = s.tbl.log2_num_buckets
  /\ t.tbl.num_items = s.tbl.num_items
  /\ t.tbl.tail = s.tbl.tail
  /\ t.tbl.ideal_chain_maxlen = s.tbl.ideal_chain_maxlen
  /\ t.tbl.ineff_expands = s.tbl.ineff_expands
  /\ t.tbl.noexpand = s.tbl.noexpand
  /\ t.hh.next = s.hh.next /\ t.hh.prev = s.hh.prev

(* Fields of a table of n buckets and of the links. *)
LEMMA StateFields ==
  ASSUME NEW n \in Nat, NEW s \in States(n)
  PROVE  /\ s.tbl \in Tables(n) /\ s.hh \in Links
         /\ s.tbl.num_buckets = n
         /\ s.tbl.buckets \in [0..n - 1 -> Bucket]
         /\ \A b \in 0..n - 1 :
              /\ s.tbl.buckets[b] \in Bucket /\ s.tbl.buckets[b].hh_head \in Pointer
              /\ s.tbl.buckets[b].count \in Nat /\ s.tbl.buckets[b].expand_mult \in Nat
         /\ s.hh.hh_next \in Link /\ s.hh.hh_prev \in Link
         /\ s.hh.next \in Link /\ s.hh.prev \in Link
<1>1. s.tbl \in Tables(n) /\ s.hh \in Links
  BY DEF States
<1>2. s.tbl.num_buckets = n /\ s.tbl.buckets \in [0..n - 1 -> Bucket]
  BY <1>1 DEF Tables
<1> QED
  BY <1>1, <1>2 DEF Links, Bucket

(* What PutFirst changes. *)
LEMMA PutFirstChanges ==
  ASSUME NEW n \in Nat, NEW s \in States(n), NEW b \in 0..n - 1, NEW e \in Entry,
         NEW p, p = PutFirst(s, b, e), NEW first, first = s.tbl.buckets[b].hh_head
  PROVE  /\ p \in States(n)
         /\ SameTotals(s, p) /\ p.tbl.nonideal_items = s.tbl.nonideal_items
         /\ p.hh.hh_next = LinkBefore(s.hh.hh_next, e, first)
         /\ p.hh.hh_prev = BackBefore(s.hh.hh_prev, e, first)
         /\ \A i \in 0..n - 1 : i # b => p.tbl.buckets[i] = s.tbl.buckets[i]
         /\ p.tbl.buckets[b].hh_head = e
         /\ p.tbl.buckets[b].count = s.tbl.buckets[b].count + 1
         /\ p.tbl.buckets[b].expand_mult = s.tbl.buckets[b].expand_mult
<1> DEFINE bkt == s.tbl.buckets[b]
<1> DEFINE new == [bkt EXCEPT !.hh_head = e, !.count = @ + 1]
<1> DEFINE back == [x \in Entry |-> IF x = first THEN e
                                    ELSE IF x = e THEN NULL ELSE s.hh.hh_prev[x]]
<1>1. /\ s.tbl \in Tables(n) /\ s.hh \in Links
      /\ s.tbl.buckets \in [0..n - 1 -> Bucket]
      /\ s.hh.hh_next \in Link /\ s.hh.hh_prev \in Link
  BY DEF States, Tables, Links
<1>2. bkt \in Bucket /\ first = bkt.hh_head /\ first \in Pointer /\ e \in Pointer
  BY <1>1 DEF Bucket, Pointer
<1>3. new \in Bucket
  <2>1. bkt.count + 1 \in Nat
    BY <1>2 DEF Bucket
  <2> HIDE DEF bkt
  <2> QED
    BY <1>2, <2>1 DEF Bucket
<1>4. back \in Link
  BY <1>1, <1>2 DEF Link, Pointer
<1>5. p.tbl = [s.tbl EXCEPT !.buckets[b] = new]
  <2> HIDE DEF new, back
  <2> QED
    BY DEF PutFirst, States, new
<1>6. p.hh = [s.hh EXCEPT !.hh_next[e] = first, !.hh_prev = back]
  BY DEF PutFirst, States
<1>7. p \in States(n)
  <2>1. p.tbl \in Tables(n)
    <3> DEFINE bkts == [s.tbl.buckets EXCEPT ![b] = new]
    <3>1. bkts \in [0..n - 1 -> Bucket]
      <4> HIDE DEF new
      <4> QED
        BY <1>1, <1>3
    <3>2. p.tbl = [s.tbl EXCEPT !.buckets = bkts]
      BY <1>5
    <3> HIDE DEF bkts
    <3> QED
      BY <1>1, <3>1, <3>2 DEF Tables
  <2>2. p.hh \in Links
    <3> DEFINE link == [s.hh.hh_next EXCEPT ![e] = first]
    <3>1. link \in Link
      BY <1>1, <1>2 DEF Link
    <3>2. p.hh = [s.hh EXCEPT !.hh_next = link, !.hh_prev = back]
      BY <1>6
    <3> HIDE DEF back, link
    <3> QED
      BY <1>1, <1>4, <3>1, <3>2 DEF Links
  <2>3. DOMAIN p = {"tbl", "hh"}
    BY DEF PutFirst, States
  <2> QED
    BY <2>1, <2>2, <2>3 DEF States, PutFirst
<1>8. SameTotals(s, p) /\ p.tbl.nonideal_items = s.tbl.nonideal_items
  <2> HIDE DEF new, back
  <2> QED
    BY <1>1, <1>5, <1>6 DEF SameTotals, Tables, Links
<1>9. /\ p.hh.hh_next = LinkBefore(s.hh.hh_next, e, first)
      /\ p.hh.hh_prev = BackBefore(s.hh.hh_prev, e, first)
  BY <1>1, <1>6 DEF Links, LinkBefore, BackBefore
<1>10. p.tbl.buckets = [s.tbl.buckets EXCEPT ![b] = new]
  <2> HIDE DEF new
  <2> QED
    BY <1>1, <1>5 DEF Tables
<1>11. /\ \A i \in 0..n - 1 : i # b => p.tbl.buckets[i] = s.tbl.buckets[i]
       /\ p.tbl.buckets[b] = new
  <2> HIDE DEF new
  <2> QED
    BY <1>1, <1>10
<1>12. new.hh_head = e /\ new.count = bkt.count + 1 /\ new.expand_mult = bkt.expand_mult
  <2> HIDE DEF bkt
  <2> QED
    BY <1>2 DEF Bucket
<1> QED
  BY <1>7, <1>8, <1>9, <1>11, <1>12

-----------------------------------------------------------------------------
(* Doubly linked lists *)

(* The list that begins with first is the sequence s. *)
IsList(first, link, back, s) ==
  first = Front(s) /\ Injects(s) /\ Linked(link, s) /\ BackLinked(back, s)

Contains(s, e) == \E i \in 1..Len(s) : s[i] = e

(* An entry is put before a sequence. *)
LEMMA Prepended ==
  ASSUME NEW e \in Entry, NEW c \in Seq(Entry)
  PROVE  LET d == << e >> \o c
         IN  /\ d \in Seq(Entry) /\ Len(d) = Len(c) + 1 /\ d # << >> /\ d[1] = e
             /\ Front(d) = e
             /\ \A i \in 2..Len(d) : d[i] = c[i - 1]
             /\ \A x : Contains(d, x) <=> x = e \/ Contains(c, x)
<1> DEFINE d == << e >> \o c
<1>1. d \in Seq(Entry) /\ Len(d) = Len(c) + 1 /\ Len(c) \in Nat
  OBVIOUS
<1>2. d[1] = e /\ \A i \in 2..Len(d) : d[i] = c[i - 1]
  OBVIOUS
<1> HIDE DEF d
<1>3. d # << >> /\ Front(d) = e
  BY <1>1, <1>2, EntrySeq DEF Front
<1>4. ASSUME NEW x, Contains(d, x) PROVE x = e \/ Contains(c, x)
  <2>1. PICK i \in 1..Len(d) : d[i] = x
    BY <1>4 DEF Contains
  <2>2. CASE i = 1
    BY <1>2, <2>1, <2>2
  <2>3. CASE i # 1
    <3>1. i \in 2..Len(d) /\ i - 1 \in 1..Len(c)
      BY <1>1, <2>3
    <3> QED
      BY <1>2, <2>1, <3>1 DEF Contains
  <2> QED
    BY <2>2, <2>3
<1>5. ASSUME NEW x, x = e \/ Contains(c, x) PROVE Contains(d, x)
  <2>1. CASE x = e
    <3>1. 1 \in 1..Len(d)
      BY <1>1
    <3> QED
      BY <1>2, <2>1, <3>1 DEF Contains
  <2>2. CASE Contains(c, x)
    <3>1. PICK i \in 1..Len(c) : c[i] = x
      BY <2>2 DEF Contains
    <3>2. i + 1 \in 2..Len(d) /\ i + 1 \in 1..Len(d) /\ (i + 1) - 1 = i
      BY <1>1
    <3>3. d[i + 1] = x
      BY <1>2, <3>1, <3>2
    <3> QED
      BY <3>2, <3>3 DEF Contains
  <2> QED
    BY <1>5, <2>1, <2>2
<1> QED
  BY <1>1, <1>2, <1>3, <1>4, <1>5 DEF d

(* A list with an entry put before its first. *)
LEMMA ListPrepended ==
  ASSUME NEW link \in Link, NEW back \in Link, NEW e \in Entry, NEW c \in Seq(Entry),
         ~Contains(c, e), NEW first, IsList(first, link, back, c)
  PROVE  IsList(e, LinkBefore(link, e, first), BackBefore(back, e, first), << e >> \o c)
<1> DEFINE d == << e >> \o c
<1> DEFINE link2 == LinkBefore(link, e, first)
<1> DEFINE back2 == BackBefore(back, e, first)
<1>1. /\ d \in Seq(Entry) /\ Len(d) = Len(c) + 1 /\ d[1] = e /\ Front(d) = e
      /\ \A i \in 2..Len(d) : d[i] = c[i - 1]
  BY Prepended
<1>2. /\ Len(c) \in Nat /\ first = Front(c) /\ \A i \in 1..Len(c) : c[i] # e /\ c[i] \in Entry
      /\ c # << >> <=> Len(c) # 0
  BY EntrySeq DEF IsList, Contains
<1> HIDE DEF d
<1>3. /\ \A x \in Entry : link2[x] = IF x = e THEN first ELSE link[x]
      /\ \A x \in Entry : back2[x] = IF x = first THEN e ELSE IF x = e THEN NULL ELSE back[x]
  BY DEF LinkBefore, BackBefore, Link
<1> HIDE DEF link2, back2
<1>4. Injects(d)
  <2> SUFFICES ASSUME NEW i \in 1..Len(d), NEW j \in 1..Len(d), d[i] = d[j] PROVE i = j
    BY DEF Injects
  <2>1. \A k \in 1..Len(d) : k # 1 => k \in 2..Len(d) /\ k - 1 \in 1..Len(c)
    BY <1>1, <1>2
  <2>2. CASE i = 1 \/ j = 1
    BY <1>1, <1>2, <2>1, <2>2
  <2>3. CASE i # 1 /\ j # 1
    <3>1. c[i - 1] = c[j - 1]
      BY <1>1, <2>1, <2>3
    <3>2. i - 1 = j - 1
      BY <2>1, <2>3, <3>1 DEF IsList, Injects
    <3> QED
      BY <3>2
  <2> QED
    BY <2>2, <2>3
<1>5. Linked(link2, d)
  <2> SUFFICES ASSUME NEW i \in 1..Len(d)
               PROVE  link2[d[i]] = IF i = Len(d) THEN NULL ELSE d[i + 1]
    BY DEF Linked
  <2>1. CASE i = 1
    <3>1. link2[d[i]] = first
      BY <1>1, <1>3, <2>1
    <3>2. CASE Len(c) = 0
      BY <1>1, <1>2, <2>1, <3>1, <3>2 DEF Front
    <3>3. CASE Len(c) # 0
      <4>1. 2 \in 2..Len(d) /\ 1 # Len(d)
        BY <1>1, <1>2, <3>3
      <4>2. d[2] = c[1]
        BY <1>1, <4>1
      <4> QED
        BY <1>2, <2>1, <3>1, <3>3, <4>1, <4>2 DEF Front
    <3> QED
      BY <3>2, <3>3
  <2>2. CASE i # 1
    <3>1. i - 1 \in 1..Len(c) /\ d[i] = c[i - 1] /\ (i = Len(d) <=> i - 1 = Len(c))
      BY <1>1, <1>2, <2>2
    <3>2. link2[d[i]] = link[c[i - 1]]
      BY <1>2, <1>3, <3>1
    <3>3. link[c[i - 1]] = IF i - 1 = Len(c) THEN NULL ELSE c[(i - 1) + 1]
      BY <3>1 DEF IsList, Linked
    <3>4. i # Len(d) => i + 1 \in 2..Len(d) /\ d[i + 1] = c[(i - 1) + 1]
      BY <1>1, <1>2, <2>2
    <3> QED
      BY <3>1, <3>2, <3>3, <3>4
  <2> QED
    BY <2>1, <2>2
<1>6. BackLinked(back2, d)
  <2> SUFFICES ASSUME NEW i \in 1..Len(d)
               PROVE  back2[d[i]] = IF i = 1 THEN NULL ELSE d[i - 1]
    BY DEF BackLinked
  <2>1. CASE i = 1
    <3>1. e # first
      BY <1>2, UtHashAssumption DEF Front
    <3> QED
      BY <1>1, <1>3, <2>1, <3>1
  <2>2. CASE i # 1
    <3>1. i - 1 \in 1..Len(c) /\ d[i] = c[i - 1]
      BY <1>1, <1>2, <2>2
    <3>2. CASE i = 2
      <4>1. c[i - 1] = first
        BY <1>2, <3>1, <3>2 DEF Front
      <4>2. back2[d[i]] = e
        BY <1>2, <1>3, <3>1, <4>1
      <4> QED
        BY <1>1, <3>2, <4>2
    <3>3. CASE i # 2
      <4>1. i - 1 # 1 /\ 1 \in 1..Len(c) /\ i - 1 \in 2..Len(d)
        BY <1>1, <2>2, <3>1, <3>3
      <4>2. c[i - 1] # first
        BY <1>2, <3>1, <4>1 DEF Front, IsList, Injects
      <4>3. back2[d[i]] = back[c[i - 1]]
        BY <1>2, <1>3, <3>1, <4>2
      <4>4. back[c[i - 1]] = c[(i - 1) - 1]
        BY <3>1, <4>1 DEF IsList, BackLinked
      <4> QED
        BY <1>1, <2>2, <4>1, <4>3, <4>4
    <3> QED
      BY <3>2, <3>3
  <2> QED
    BY <2>1, <2>2
<1> QED
  BY <1>1, <1>4, <1>5, <1>6 DEF IsList, d, link2, back2

(* A list stays what it is when no link of its entries changes. *)
LEMMA ListUntouched ==
  ASSUME NEW c \in Seq(Entry), NEW first, NEW link, NEW back, IsList(first, link, back, c),
         NEW link2, NEW back2,
         \A x \in Entry : Contains(c, x) => link2[x] = link[x] /\ back2[x] = back[x]
  PROVE  IsList(first, link2, back2, c)
<1>1. \A i \in 1..Len(c) : link2[c[i]] = link[c[i]] /\ back2[c[i]] = back[c[i]]
  BY EntrySeq DEF Contains
<1> QED
  BY <1>1 DEF IsList, Linked, BackLinked

(* The links that HASH_APPEND_LIST sets. *)
BehindLast(link, back, e, last, link2, back2) ==
  \A x \in Entry :
    /\ link2[x] = IF x = last THEN e ELSE IF x = e THEN NULL ELSE link[x]
    /\ back2[x] = IF x = e THEN last ELSE back[x]

(* An entry is put behind a list with them. *)
LEMMA ListAppended ==
  ASSUME NEW link \in Link, NEW back \in Link, NEW e \in Entry, NEW c \in Seq(Entry),
         c # << >>, ~Contains(c, e), NEW first, IsList(first, link, back, c),
         NEW last, last = c[Len(c)],
         NEW link2, NEW back2, BehindLast(link, back, e, last, link2, back2)
  PROVE  LET d == Append(c, e)
         IN  /\ d \in Seq(Entry) /\ Len(d) = Len(c) + 1 /\ d # << >> /\ d[Len(d)] = e
             /\ IsList(first, link2, back2, d)
             /\ \A x : Contains(d, x) <=> x = e \/ Contains(c, x)
<1> USE DEF BehindLast
<1> DEFINE d == Append(c, e)
<1> DEFINE n == Len(c)
<1>1. /\ d \in Seq(Entry) /\ Len(d) = n + 1 /\ n \in Nat /\ d # << >> /\ d[n + 1] = e
      /\ \A i \in 1..n : d[i] = c[i]
  OBVIOUS
<1>2. /\ n # 0 /\ n \in 1..n /\ 1 \in 1..n /\ n + 1 \in 1..(n + 1) /\ 1 \in 1..(n + 1)
      /\ \A i \in 1..n : c[i] # e /\ c[i] \in Entry /\ i \in 1..(n + 1)
      /\ \A i \in 1..(n + 1) : i # n + 1 => i \in 1..n
  <2>1. n # 0 /\ \A i \in 1..n : c[i] # e /\ c[i] \in Entry
    BY EntrySeq DEF Contains
  <2> HIDE DEF n
  <2> QED
    BY <1>1, <2>1
<1> HIDE DEF d, n
<1>3. Front(d) = first
  BY <1>1, <1>2 DEF Front, IsList
<1>4. Injects(d)
  <2> SUFFICES ASSUME NEW i \in 1..(n + 1), NEW j \in 1..(n + 1), d[i] = d[j] PROVE i = j
    BY <1>1 DEF Injects
  <2>1. CASE i = n + 1 \/ j = n + 1
    BY <1>1, <1>2, <2>1
  <2>2. CASE i # n + 1 /\ j # n + 1
    <3>1. i \in 1..n /\ j \in 1..n /\ c[i] = c[j]
      BY <1>1, <1>2, <2>2
    <3> QED
      BY <3>1 DEF IsList, Injects, n
  <2> QED
    BY <2>1, <2>2
<1>5. Linked(link2, d)
  <2> SUFFICES ASSUME NEW i \in 1..(n + 1)
               PROVE  link2[d[i]] = IF i = n + 1 THEN NULL ELSE d[i + 1]
    BY <1>1 DEF Linked
  <2>1. CASE i = n + 1
    <3>1. e # last
      BY <1>2 DEF n
    <3> QED
      BY <1>1, <2>1, <3>1
  <2>2. CASE i = n
    <3>1. d[i] = last /\ last \in Entry
      BY <1>1, <1>2, <2>2 DEF n
    <3> QED
      BY <1>1, <2>2, <3>1
  <2>3. CASE i # n /\ i # n + 1
    <3>1. i \in 1..n /\ i + 1 \in 1..n
      BY <1>1, <2>3
    <3>2. c[i] # last
      BY <1>2, <2>3, <3>1 DEF IsList, Injects, n
    <3>3. link[c[i]] = c[i + 1]
      BY <2>3, <3>1 DEF IsList, Linked, n
    <3>4. link2[c[i]] = link[c[i]]
      BY <1>2, <3>1, <3>2
    <3> QED
      BY <1>1, <2>3, <3>1, <3>3, <3>4
  <2> QED
    BY <2>1, <2>2, <2>3
<1>6. BackLinked(back2, d)
  <2> SUFFICES ASSUME NEW i \in 1..(n + 1)
               PROVE  back2[d[i]] = IF i = 1 THEN NULL ELSE d[i - 1]
    BY <1>1 DEF BackLinked
  <2>1. CASE i = n + 1
    <3>1. d[(n + 1) - 1] = last /\ n + 1 # 1
      BY <1>1, <1>2 DEF n
    <3> QED
      BY <1>1, <2>1, <3>1
  <2>2. CASE i # n + 1
    <3>1. i \in 1..n /\ (i # 1 => i - 1 \in 1..n)
      BY <1>1, <2>2
    <3>2. back[c[i]] = IF i = 1 THEN NULL ELSE c[i - 1]
      BY <3>1 DEF IsList, BackLinked, n
    <3>3. back2[c[i]] = back[c[i]]
      BY <1>2, <3>1
    <3> QED
      BY <1>1, <3>1, <3>2, <3>3
  <2> QED
    BY <2>1, <2>2
<1>7. ASSUME NEW x PROVE Contains(d, x) <=> x = e \/ Contains(c, x)
  <2>1. Contains(d, x) <=> \E i \in 1..(n + 1) : d[i] = x
    BY <1>1 DEF Contains
  <2>2. Contains(c, x) <=> \E i \in 1..n : c[i] = x
    BY DEF Contains, n
  <2>3. (\E i \in 1..(n + 1) : d[i] = x) => x = e \/ \E i \in 1..n : c[i] = x
    <3> SUFFICES ASSUME NEW i \in 1..(n + 1), d[i] = x PROVE x = e \/ \E j \in 1..n : c[j] = x
      OBVIOUS
    <3>1. CASE i = n + 1
      BY <1>1, <3>1
    <3>2. CASE i # n + 1
      BY <1>1, <1>2, <3>2
    <3> QED
      BY <3>1, <3>2
  <2>4. x = e => \E i \in 1..(n + 1) : d[i] = x
    BY <1>1, <1>2
  <2>5. (\E i \in 1..n : c[i] = x) => \E i \in 1..(n + 1) : d[i] = x
    BY <1>1, <1>2
  <2> QED
    BY <2>1, <2>2, <2>3, <2>4, <2>5
<1>8. IsList(first, link2, back2, d)
  BY <1>3, <1>4, <1>5, <1>6 DEF IsList
<1>9. Len(d) = Len(c) + 1 /\ d[Len(d)] = e
  BY <1>1 DEF n
<1> QED
  BY <1>1, <1>7, <1>8, <1>9 DEF d

(* The sequence without its entry at k. *)
Removed(c, k) == [i \in 1..(Len(c) - 1) |-> IF i < k THEN c[i] ELSE c[i + 1]]

(* It keeps the others, each once. *)
LEMMA RemovedSeq ==
  ASSUME NEW c \in Seq(Entry), NEW k \in 1..Len(c), Injects(c)
  PROVE  LET d == Removed(c, k)
         IN  /\ d \in Seq(Entry) /\ Len(d) = Len(c) - 1
             /\ \A i \in 1..Len(d) : d[i] = IF i < k THEN c[i] ELSE c[i + 1]
             /\ Injects(d)
             /\ \A x : Contains(d, x) <=> x # c[k] /\ Contains(c, x)
<1> DEFINE d == Removed(c, k)
<1> DEFINE n == Len(c)
<1>1. n \in Nat /\ k \in 1..n /\ \A i \in 1..n : c[i] \in Entry
  BY EntrySeq
<1>2. \A i \in 1..(n - 1) : i \in 1..n /\ i + 1 \in 1..n
  BY <1>1
<1>3. d = [i \in 1..(n - 1) |-> IF i < k THEN c[i] ELSE c[i + 1]] /\ n - 1 \in Nat
  BY <1>1 DEF Removed
<1> HIDE DEF d, n
<1>4. \A i \in 1..(n - 1) : d[i] = (IF i < k THEN c[i] ELSE c[i + 1]) /\ d[i] \in Entry
  BY <1>1, <1>2, <1>3
<1>5. d \in Seq(Entry) /\ Len(d) = n - 1
  <2>1. d \in [1..(n - 1) -> Entry]
    BY <1>3, <1>4
  <2> DEFINE m == n - 1
  <2>2. m \in Nat /\ d \in [1..m -> Entry]
    BY <1>3, <2>1
  <2> HIDE DEF m
  <2>3. d \in Seq(Entry)
    BY <2>2
  <2>4. Len(d) = m
    BY <2>2, <2>3
  <2> QED
    BY <2>3, <2>4 DEF m
<1>6. Injects(d)
  <2> SUFFICES ASSUME NEW i \in 1..(n - 1), NEW j \in 1..(n - 1), d[i] = d[j] PROVE i = j
    BY <1>5 DEF Injects
  <2> DEFINE at(l) == IF l < k THEN l ELSE l + 1
  <2>1. at(i) \in 1..n /\ at(j) \in 1..n
    BY <1>1, <1>2
  <2>2. c[at(i)] = c[at(j)]
    BY <1>4
  <2>3. at(i) = at(j)
    <3> HIDE DEF at
    <3> QED
      BY <2>1, <2>2 DEF Injects, n
  <2> QED
    BY <1>1, <2>3
<1>7. ASSUME NEW x, Contains(d, x) PROVE x # c[k] /\ Contains(c, x)
  <2>1. PICK i \in 1..(n - 1) : d[i] = x
    BY <1>5, <1>7 DEF Contains
  <2> DEFINE j == IF i < k THEN i ELSE i + 1
  <2>2. j \in 1..n /\ j # k /\ c[j] = x
    BY <1>1, <1>2, <1>4, <2>1
  <2> HIDE DEF j
  <2>3. x # c[k]
    BY <1>1, <2>2 DEF Injects, n
  <2> QED
    BY <2>2, <2>3 DEF Contains, n
<1>8. ASSUME NEW x, x # c[k], Contains(c, x) PROVE Contains(d, x)
  <2>1. PICK j \in 1..n : c[j] = x
    BY <1>8 DEF Contains, n
  <2>2. j # k
    BY <1>8, <2>1
  <2>3. CASE j < k
    <3>1. j \in 1..(n - 1)
      BY <1>1, <2>3
    <3> QED
      BY <1>4, <1>5, <2>1, <2>3, <3>1 DEF Contains
  <2>4. CASE j > k
    <3>1. j - 1 \in 1..(n - 1) /\ ~(j - 1 < k) /\ (j - 1) + 1 = j
      BY <1>1, <2>4
    <3>2. d[j - 1] = x
      BY <1>4, <2>1, <3>1
    <3> QED
      BY <1>5, <3>1, <3>2 DEF Contains
  <2> QED
    BY <1>1, <2>2, <2>3, <2>4
<1>9. Len(d) = Len(c) - 1 /\ \A i \in 1..Len(d) : d[i] = IF i < k THEN c[i] ELSE c[i + 1]
  BY <1>4, <1>5 DEF n
<1> QED
  BY <1>5, <1>6, <1>7, <1>8, <1>9 DEF d

(* An entry leaves its list with the links that deleting it sets. *)
LEMMA ListRemoved ==
  ASSUME NEW link \in Link, NEW back \in Link, NEW c \in Seq(Entry), NEW k \in 1..Len(c),
         NEW first, IsList(first, link, back, c), NEW d, d = c[k],
         NEW link2, NEW back2,
         \A x \in Entry : x # d => link2[x] = IF x = back[d] THEN link[d] ELSE link[x],
         \A x \in Entry : x # d => back2[x] = IF x = link[d] THEN back[d] ELSE back[x]
  PROVE  IsList(IF d = first THEN link[d] ELSE first, link2, back2, Removed(c, k))
<1> DEFINE n == Len(c)
<1> DEFINE r == Removed(c, k)
<1>1. /\ n \in Nat /\ k \in 1..n /\ \A i \in 1..n : c[i] \in Entry /\ c[i] # NULL
      /\ c # << >> /\ n # 0
  BY EntrySeq
<1>2. /\ Injects(c) /\ first = Front(c)
      /\ \A i, j \in 1..n : c[i] = c[j] => i = j
      /\ \A i \in 1..n : link[c[i]] = IF i = n THEN NULL ELSE c[i + 1]
      /\ \A i \in 1..n : back[c[i]] = IF i = 1 THEN NULL ELSE c[i - 1]
  BY DEF IsList, Injects, Linked, BackLinked
<1>3. /\ r \in Seq(Entry) /\ Len(r) = n - 1 /\ Injects(r)
      /\ \A i \in 1..(n - 1) : r[i] = IF i < k THEN c[i] ELSE c[i + 1]
  BY <1>2, RemovedSeq
<1> HIDE DEF n, r
<1>4. /\ first = c[1] /\ 1 \in 1..n
      /\ \A i \in 1..(n - 1) : i \in 1..n /\ i + 1 \in 1..n
      /\ \A i \in 1..n : c[i] = d => i = k
      /\ d \in Entry
  BY <1>1, <1>2 DEF Front
<1>5. /\ link[d] = IF k = n THEN NULL ELSE c[k + 1]
      /\ back[d] = IF k = 1 THEN NULL ELSE c[k - 1]
  BY <1>1, <1>2
<1>6. Front(r) = IF d = first THEN link[d] ELSE first
  <2>1. r = << >> <=> n - 1 = 0
    BY <1>3, EntrySeq
  <2>2. d = first <=> k = 1
    BY <1>4
  <2>3. CASE n = 1
    <3>1. k = 1 /\ k = n
      BY <1>1, <2>3
    <3> QED
      BY <1>5, <2>1, <2>2, <2>3, <3>1 DEF Front
  <2>4. CASE n # 1
    <3>1. 1 \in 1..(n - 1) /\ n - 1 # 0
      BY <1>1, <2>4
    <3>2. Front(r) = r[1]
      BY <2>1, <3>1 DEF Front
    <3>3. CASE k = 1
      <4>1. r[1] = c[2] /\ link[d] = c[2]
        BY <1>3, <1>5, <2>4, <3>1, <3>3
      <4> QED
        BY <2>2, <3>2, <3>3, <4>1
    <3>4. CASE k # 1
      <4>1. r[1] = c[1]
        BY <1>1, <1>3, <3>1, <3>4
      <4> QED
        BY <1>4, <2>2, <3>2, <3>4, <4>1
    <3> QED
      BY <3>3, <3>4
  <2> QED
    BY <2>3, <2>4
<1>7. \A i \in 1..(n - 1) : r[i] # d /\ r[i] \in Entry
  BY <1>1, <1>3, <1>4
<1>8. Linked(link2, r)
  <2> SUFFICES ASSUME NEW i \in 1..(n - 1)
               PROVE  link2[r[i]] = IF i = n - 1 THEN NULL ELSE r[i + 1]
    BY <1>3 DEF Linked
  <2>1. link2[r[i]] = IF r[i] = back[d] THEN link[d] ELSE link[r[i]]
    BY <1>7
  <2>2. i # n - 1 => i + 1 \in 1..(n - 1)
    BY <1>1
  <2>3. CASE i + 1 < k
    <3>1. r[i] = c[i] /\ i # k - 1 /\ k - 1 \in 1..n /\ k # 1 /\ i # n - 1
      BY <1>1, <1>3, <2>3
    <3>2. c[i] # back[d]
      BY <1>2, <1>4, <1>5, <3>1
    <3>3. link2[r[i]] = link[c[i]]
      BY <2>1, <3>1, <3>2
    <3>4. link[c[i]] = c[i + 1]
      BY <1>1, <1>2, <1>4, <2>3
    <3>5. r[i + 1] = c[i + 1]
      BY <1>3, <2>2, <2>3, <3>1
    <3> QED
      BY <3>1, <3>3, <3>4, <3>5
  <2>4. CASE i + 1 = k
    <3>1. r[i] = c[i] /\ i = k - 1 /\ k # 1
      BY <1>1, <1>3, <2>4
    <3>2. link2[r[i]] = link[d]
      BY <1>5, <2>1, <3>1
    <3>3. k = n <=> i = n - 1
      BY <1>1, <2>4
    <3>4. i # n - 1 => r[i + 1] = c[k + 1]
      BY <1>1, <1>3, <2>2, <2>4
    <3> QED
      BY <1>5, <3>2, <3>3, <3>4
  <2>5. CASE i + 1 > k
    <3>1. r[i] = c[i + 1] /\ i + 1 \in 1..n
      BY <1>1, <1>3, <1>4, <2>5
    <3>2. c[i + 1] # back[d]
      <4>1. k # 1 => k - 1 \in 1..n /\ i + 1 # k - 1
        BY <1>1, <2>5
      <4> QED
        BY <1>1, <1>2, <1>5, <3>1, <4>1
    <3>3. link2[r[i]] = link[c[i + 1]]
      BY <2>1, <3>1, <3>2
    <3>4. link[c[i + 1]] = IF i + 1 = n THEN NULL ELSE c[(i + 1) + 1]
      BY <1>2, <3>1
    <3>5. i + 1 = n <=> i = n - 1
      BY <1>1
    <3>6. i # n - 1 => r[i + 1] = c[(i + 1) + 1]
      BY <1>1, <1>3, <2>2, <2>5
    <3> QED
      BY <3>3, <3>4, <3>5, <3>6
  <2> QED
    BY <1>1, <2>3, <2>4, <2>5
<1>9. BackLinked(back2, r)
  <2> SUFFICES ASSUME NEW i \in 1..(n - 1)
               PROVE  back2[r[i]] = IF i = 1 THEN NULL ELSE r[i - 1]
    BY <1>3 DEF BackLinked
  <2>1. back2[r[i]] = IF r[i] = link[d] THEN back[d] ELSE back[r[i]]
    BY <1>7
  <2>2. i # 1 => i - 1 \in 1..(n - 1)
    BY <1>1
  <2>3. CASE i < k
    <3>1. r[i] = c[i] /\ i \in 1..n
      BY <1>3, <1>4, <2>3
    <3>2. c[i] # link[d]
      <4>1. k # n => k + 1 \in 1..n /\ i # k + 1
        BY <1>1, <2>3
      <4> QED
        BY <1>1, <1>2, <1>5, <3>1, <4>1
    <3>3. back2[r[i]] = back[c[i]]
      BY <2>1, <3>1, <3>2
    <3>4. i # 1 => r[i - 1] = c[i - 1]
      BY <1>1, <1>3, <2>2, <2>3
    <3> QED
      BY <1>2, <3>1, <3>3, <3>4
  <2>4. CASE i = k
    <3>1. r[i] = c[k + 1] /\ k # n
      BY <1>1, <1>3, <2>4
    <3>2. back2[r[i]] = back[d]
      BY <1>5, <2>1, <3>1
    <3>3. i # 1 => r[i - 1] = c[k - 1]
      BY <1>1, <1>3, <2>2, <2>4
    <3> QED
      BY <1>5, <2>4, <3>2, <3>3
  <2>5. CASE i > k
    <3>1. r[i] = c[i + 1] /\ i + 1 \in 1..n /\ i + 1 # 1 /\ i # 1
      BY <1>1, <1>3, <1>4, <2>5
    <3>2. c[i + 1] # link[d]
      <4>1. k # n => k + 1 \in 1..n /\ i + 1 # k + 1
        BY <1>1, <2>5
      <4> QED
        BY <1>1, <1>2, <1>5, <3>1, <4>1
    <3>3. back2[r[i]] = back[c[i + 1]]
      BY <2>1, <3>1, <3>2
    <3>4. back[c[i + 1]] = c[i]
      BY <1>2, <3>1
    <3>5. r[i - 1] = c[i]
      BY <1>1, <1>3, <2>2, <2>5, <3>1
    <3> QED
      BY <3>1, <3>3, <3>4, <3>5
  <2> QED
    BY <1>1, <2>3, <2>4, <2>5
<1> QED
  BY <1>3, <1>6, <1>8, <1>9 DEF IsList, r

-----------------------------------------------------------------------------
(* The chains of the buckets *)

(* The entries P lie on n chains, the one of a bucket for each: C names the  *)
(* sequences.                                                                *)
Chains(bkts, link, back, n, P, C) ==
  /\ C \in [0..n - 1 -> Seq(Entry)]
  /\ \A b \in 0..n - 1 :
       /\ IsList(bkts[b].hh_head, link, back, C[b])
       /\ bkts[b].count = Len(C[b])
       /\ \A x \in Entry : Contains(C[b], x) <=> x \in P /\ ToBkt(x, n) = b

ChainsOf(s, n, P, C) == Chains(s.tbl.buckets, s.hh.hh_next, s.hh.hh_prev, n, P, C)

(* Entries that are on no chain have no links of one. *)
OffChains(s, P) == \A e \in Entry \ P : s.hh.hh_next[e] = NULL /\ s.hh.hh_prev[e] = NULL

(* The walks through the buckets meet the sequences of C. *)
Walked(s, n, C) ==
  \A b \in 0..n - 1 : Walk(s.hh.hh_next, s.tbl.buckets[b].hh_head) = C[b]

(* An entry falls into one of the buckets. *)
LEMMA ToBktRange ==
  ASSUME NEW n \in Nat \ {0}, NEW e \in Entry
  PROVE  ToBkt(e, n) \in 0..n - 1
<1>1. HashValue[e] \in Nat
  BY UtHashAssumption
<1> DEFINE v == HashValue[e]
<1> HIDE DEF v
<1>2. v \in Nat
  BY <1>1 DEF v
<1>3. v % n \in 0..(n - 1)
  BY <1>2
<1> QED
  BY <1>3 DEF ToBkt, v

(* An entry that is put first of its bucket's chain joins the chains. *)
LEMMA PutFirstChains ==
  ASSUME NEW n \in Nat \ {0}, NEW s \in States(n), NEW P, NEW e \in Entry, e \notin P,
         NEW C, ChainsOf(s, n, P, C), NEW b, b = ToBkt(e, n)
  PROVE  ChainsOf(PutFirst(s, b, e), n, P \union {e}, [C EXCEPT ![b] = << e >> \o C[b]])
<1> DEFINE p == PutFirst(s, b, e)
<1> DEFINE bkt == s.tbl.buckets[b]
<1> DEFINE first == bkt.hh_head
<1> DEFINE link == s.hh.hh_next
<1> DEFINE back == s.hh.hh_prev
<1> DEFINE link2 == LinkBefore(link, e, first)
<1> DEFINE back2 == BackBefore(back, e, first)
<1> DEFINE D == [C EXCEPT ![b] = << e >> \o C[b]]
<1>1. b \in 0..n - 1 /\ n \in Nat
  BY ToBktRange
<1>2. /\ p.hh.hh_next = link2 /\ p.hh.hh_prev = back2
      /\ \A i \in 0..n - 1 : i # b => p.tbl.buckets[i] = s.tbl.buckets[i]
  <2> HIDE DEF p
  <2> QED
    BY <1>1, PutFirstChanges DEF p
<1>3. p.tbl.buckets[b].hh_head = e /\ p.tbl.buckets[b].count = bkt.count + 1
  <2> HIDE DEF p
  <2> QED
    BY <1>1, PutFirstChanges DEF p
<1>4. link \in Link /\ back \in Link /\ s.tbl.buckets \in [0..n - 1 -> Bucket]
  BY <1>1, StateFields
<1>5. /\ C \in [0..n - 1 -> Seq(Entry)]
      /\ \A i \in 0..n - 1 :
           /\ IsList(s.tbl.buckets[i].hh_head, link, back, C[i])
           /\ s.tbl.buckets[i].count = Len(C[i])
           /\ \A x \in Entry : Contains(C[i], x) <=> x \in P /\ ToBkt(x, n) = i
  BY DEF ChainsOf, Chains
<1>6. C[b] \in Seq(Entry) /\ IsList(first, link, back, C[b]) /\ ~Contains(C[b], e)
  BY <1>1, <1>5
<1>7. D \in [0..n - 1 -> Seq(Entry)] /\ D[b] = << e >> \o C[b]
  <2>1. << e >> \o C[b] \in Seq(Entry)
    BY <1>6, Prepended
  <2> QED
    BY <1>1, <1>5, <2>1
<1> HIDE DEF p, first, link, back, bkt
<1>8. ASSUME NEW i \in 0..n - 1
      PROVE  /\ IsList(p.tbl.buckets[i].hh_head, link2, back2, D[i])
             /\ p.tbl.buckets[i].count = Len(D[i])
             /\ \A x \in Entry : Contains(D[i], x) <=> x \in P \union {e} /\ ToBkt(x, n) = i
  <2>1. CASE i = b
    <3>1. D[i] = << e >> \o C[b]
      BY <1>1, <1>2, <1>4, <1>7, <2>1
    <3>2. IsList(e, link2, back2, << e >> \o C[b])
      BY <1>4, <1>6, ListPrepended
    <3>3. Len(<< e >> \o C[b]) = Len(C[b]) + 1
      BY <1>6, Prepended
    <3>4. \A x \in Entry : Contains(<< e >> \o C[b], x) <=> x = e \/ Contains(C[b], x)
      BY <1>6, Prepended
    <3>5. bkt.count = Len(C[b])
      BY <1>1, <1>5 DEF bkt
    <3> HIDE DEF D, link2, back2
    <3>6. \A x \in Entry : Contains(D[i], x) <=> x \in P \union {e} /\ ToBkt(x, n) = i
      BY <1>1, <1>5, <2>1, <3>1, <3>4
    <3> QED
      BY <1>3, <2>1, <3>1, <3>2, <3>3, <3>5, <3>6
  <2>2. CASE i # b
    <3>1. p.tbl.buckets[i] = s.tbl.buckets[i] /\ D[i] = C[i] /\ C[i] \in Seq(Entry)
      BY <1>1, <1>2, <1>4, <1>5, <2>2
    <3>2. first # NULL => Contains(C[b], first) /\ first \in Entry
      <4>1. C[b] # << >> => 1 \in 1..Len(C[b]) /\ C[b][1] \in Entry
        <5>1. Len(C[b]) \in Nat /\ (C[b] # << >> => Len(C[b]) # 0)
          BY <1>6, EntrySeq
        <5>2. C[b] # << >> => 1 \in 1..Len(C[b])
          BY <5>1
        <5> QED
          BY <1>6, <5>2, EntrySeq
      <4> QED
        BY <1>6, <4>1 DEF IsList, Front, Contains
    <3>3. ASSUME NEW x \in Entry, Contains(C[i], x)
          PROVE  link2[x] = link[x] /\ back2[x] = back[x]
      <4>1. x \in P /\ ToBkt(x, n) = i
        BY <1>5, <3>3
      <4>2. x # e /\ x # first
        BY <1>1, <1>5, <2>2, <3>2, <4>1, UtHashAssumption
      <4> QED
        BY <1>4, <4>2 DEF LinkBefore, BackBefore, Link
    <3>4. IsList(s.tbl.buckets[i].hh_head, link, back, C[i])
      BY <1>5
    <3> HIDE DEF link2, back2, D
    <3>5. IsList(s.tbl.buckets[i].hh_head, link2, back2, C[i])
      BY <3>1, <3>3, <3>4, ListUntouched
    <3> QED
      BY <1>5, <2>2, <3>1, <3>5
  <2> QED
    BY <2>1, <2>2
<1> HIDE DEF D, link2, back2
<1>9. ChainsOf(p, n, P \union {e}, D)
  BY <1>2, <1>7, <1>8 DEF ChainsOf, Chains
<1> QED
  BY <1>9 DEF p, D

(* The walk through a bucket meets its chain. *)
LEMMA ChainWalk ==
  ASSUME NEW n \in Nat \ {0}, NEW s \in States(n), NEW P \in SUBSET Entry,
         NEW C, ChainsOf(s, n, P, C), OffChains(s, P)
  PROVE  Walked(s, n, C)
<1> DEFINE link == s.hh.hh_next
<1> DEFINE B == 0..n - 1
<1> DEFINE bkt == [e \in Entry |-> ToBkt(e, n)]
<1>1. link \in Link /\ C \in [B -> Seq(Entry)]
  BY StateFields DEF ChainsOf, Chains
<1>2. bkt \in [Entry -> B]
  BY ToBktRange
<1>3. /\ \A b \in B : s.tbl.buckets[b].hh_head = Front(C[b])
      /\ \A b \in B : Linked(link, C[b]) /\ Injects(C[b])
      /\ \A b \in B : \A x \in Entry : Contains(C[b], x) <=> x \in P /\ ToBkt(x, n) = b
  BY DEF ChainsOf, Chains, IsList
<1> HIDE DEF link, B
<1>4. \A b \in B : \A i \in 1..Len(C[b]) : C[b][i] \in P /\ bkt[C[b][i]] = b
  <2> SUFFICES ASSUME NEW b \in B, NEW i \in 1..Len(C[b])
               PROVE  C[b][i] \in P /\ bkt[C[b][i]] = b
    OBVIOUS
  <2>1. C[b][i] \in Entry /\ Contains(C[b], C[b][i])
    BY <1>1, EntrySeq DEF Contains
  <2> QED
    BY <1>3, <2>1
<1>5. \A e \in P : \E i \in 1..Len(C[bkt[e]]) : C[bkt[e]][i] = e
  <2> SUFFICES ASSUME NEW e \in P PROVE Contains(C[bkt[e]], e)
    BY DEF Contains
  <2>1. bkt[e] \in B /\ bkt[e] = ToBkt(e, n)
    BY <1>2
  <2> QED
    BY <1>3, <2>1
<1>6. \A e \in Entry \ P : link[e] = NULL
  BY DEF link, OffChains
<1>7. link \in [Entry -> Pointer]
  BY <1>1 DEF Link
<1> HIDE DEF bkt
<1>8. \A b \in B : Walk(link, Front(C[b])) = C[b]
  <2>1. \A b \in B : Linked(link, C[b]) /\ Injects(C[b])
    BY <1>3
  <2>2. Spread(link, B, C, bkt, P)
    BY <1>1, <1>2, <1>4, <1>5, <1>6, <1>7, <2>1 DEF Spread
  <2> QED
    BY <2>2, WalkAlong
<1>9. \A b \in B : Walk(link, s.tbl.buckets[b].hh_head) = C[b]
  BY <1>3, <1>8
<1> QED
  BY <1>9 DEF link, B, Walked

(* Two sequences of different entries, one after the other. *)
LEMMA Concatenated ==
  ASSUME NEW c \in Seq(Entry), NEW d \in Seq(Entry), Injects(c), Injects(d),
         \A x \in Entry : ~(Contains(c, x) /\ Contains(d, x))
  PROVE  /\ c \o d \in Seq(Entry) /\ Injects(c \o d)
         /\ \A x : Contains(c \o d, x) <=> Contains(c, x) \/ Contains(d, x)
<1> DEFINE m == Len(c)
<1> DEFINE n == Len(d)
<1> DEFINE s == c \o d
<1>1. /\ m \in Nat /\ n \in Nat /\ \A i \in 1..m : c[i] \in Entry
      /\ \A i \in 1..n : d[i] \in Entry
  BY EntrySeq
<1>2. /\ s \in Seq(Entry) /\ Len(s) = m + n
      /\ \A i \in 1..m + n : s[i] = IF i <= m THEN c[i] ELSE d[i - m]
  BY ConcatProperties
<1> HIDE DEF s, m, n
<1>3. \A i \in 1..m + n : IF i <= m THEN i \in 1..m ELSE i - m \in 1..n
  BY <1>1
<1>4. Injects(s)
  <2> SUFFICES ASSUME NEW i \in 1..m + n, NEW j \in 1..m + n, s[i] = s[j] PROVE i = j
    BY <1>2 DEF Injects
  <2>1. CASE i <= m /\ j <= m
    BY <1>2, <1>3, <2>1 DEF Injects, m
  <2>2. CASE ~(i <= m) /\ ~(j <= m)
    <3>1. i - m \in 1..n /\ j - m \in 1..n /\ d[i - m] = d[j - m]
      BY <1>2, <1>3, <2>2
    <3>2. i - m = j - m
      BY <3>1 DEF Injects, n
    <3> QED
      BY <1>1, <3>2
  <2>3. ASSUME NEW k \in 1..m, NEW l \in 1..n PROVE c[k] # d[l]
    <3>1. Contains(c, c[k]) /\ c[k] \in Entry
      BY <1>1 DEF Contains, m
    <3>2. Contains(d, d[l])
      BY <1>1 DEF Contains, n
    <3> QED
      BY <3>1, <3>2
  <2> QED
    BY <1>2, <1>3, <2>1, <2>2, <2>3
<1>5. ASSUME NEW x PROVE Contains(s, x) <=> Contains(c, x) \/ Contains(d, x)
  <2>1. ASSUME Contains(s, x) PROVE Contains(c, x) \/ Contains(d, x)
    <3>1. PICK i \in 1..m + n : s[i] = x
      BY <1>2, <2>1 DEF Contains
    <3> QED
      BY <1>2, <1>3, <3>1 DEF Contains, m, n
  <2>2. ASSUME Contains(c, x) PROVE Contains(s, x)
    <3>1. PICK i \in 1..m : c[i] = x
      BY <2>2 DEF Contains, m
    <3>2. i \in 1..m + n /\ i <= m
      BY <1>1
    <3> QED
      BY <1>2, <3>1, <3>2 DEF Contains
  <2>3. ASSUME Contains(d, x) PROVE Contains(s, x)
    <3>1. PICK i \in 1..n : d[i] = x
      BY <2>3 DEF Contains, n
    <3>2. m + i \in 1..m + n /\ ~(m + i <= m) /\ (m + i) - m = i
      BY <1>1
    <3>3. s[m + i] = x
      BY <1>2, <3>1, <3>2
    <3> QED
      BY <1>2, <3>2, <3>3 DEF Contains
  <2> QED
    BY <2>1, <2>2, <2>3
<1> QED
  BY <1>2, <1>4, <1>5 DEF s

(* The length of a sequence of different entries is the number of them. *)
LEMMA LengthIsCardinality ==
  ASSUME NEW c \in Seq(Entry), Injects(c), NEW P \in SUBSET Entry,
         \A x \in Entry : Contains(c, x) <=> x \in P
  PROVE  IsFiniteSet(P) /\ Cardinality(P) = Len(c)
<1> DEFINE n == Len(c)
<1>1. n \in Nat /\ \A i \in 1..n : c[i] \in Entry
  BY EntrySeq
<1>2. IsFiniteSet(1..n) /\ Cardinality(1..n) = n
  <2>1. IsFiniteSet(1..n) /\ Cardinality(1..n) = IF 1 > n THEN 0 ELSE n - 1 + 1
    BY <1>1, FS_Interval
  <2> QED
    BY <1>1, <2>1
<1>3. ExistsBijection(1..n, P)
  <2> DEFINE f == [i \in 1..n |-> c[i]]
  <2>1. f \in [1..n -> P]
    BY <1>1 DEF Contains
  <2>2. \A i, j \in 1..n : f[i] = f[j] => i = j
    BY DEF Injects
  <2>3. \A x \in P : \E i \in 1..n : f[i] = x
    BY DEF Contains
  <2> HIDE DEF f
  <2>4. f \in Bijection(1..n, P)
    BY <2>1, <2>2, <2>3 DEF Bijection, Injection, Surjection, IsInjective
  <2> QED
    BY <2>4 DEF ExistsBijection
<1> HIDE DEF n
<1>4. IsFiniteSet(P) /\ Cardinality(P) = n
  BY <1>2, <1>3, FS_Bijection
<1> QED
  BY <1>4 DEF n

(* The loops over the buckets and their chains meet each entry of the chains *)
(* once.                                                                     *)
LEMMA InBucketsMeetsEachOnce ==
  ASSUME NEW n \in Nat \ {0}, NEW s \in States(n), NEW P \in SUBSET Entry,
         NEW C, ChainsOf(s, n, P, C), OffChains(s, P)
  PROVE  /\ InBuckets(s) \in Seq(Entry) /\ Injects(InBuckets(s))
         /\ \A x \in Entry : Contains(InBuckets(s), x) <=> x \in P
<1> DEFINE D == Seq(Entry)
<1> DEFINE chain(k) == Walk(s.hh.hh_next, s.tbl.buckets[k - 1].hh_head)
<1> DEFINE step == [k \in 1..n |-> [c \in D |-> c \o C[k - 1]]]
<1>1. n \in Nat /\ s.tbl.num_buckets = n
  BY StateFields
<1>2. /\ C \in [0..n - 1 -> Seq(Entry)]
      /\ \A b \in 0..n - 1 : Injects(C[b])
      /\ \A b \in 0..n - 1 : \A x \in Entry : Contains(C[b], x) <=> x \in P /\ ToBkt(x, n) = b
  BY DEF ChainsOf, Chains, IsList
<1>3. \A k \in 1..n : k - 1 \in 0..n - 1 /\ chain(k) = C[k - 1]
  <2>1. \A k \in 1..n : k - 1 \in 0..n - 1
    BY <1>1
  <2>2. Walked(s, n, C)
    BY ChainWalk
  <2> QED
    BY <2>1, <2>2 DEF Walked
<1> HIDE DEF chain, D
<1>4. \A k \in 1..n : C[k - 1] \in D
  BY <1>2, <1>3 DEF D
<1>5. \A c, d \in D : c \o d \in D
  BY ConcatProperties DEF D
<1>6. << >> \in D
  BY EmptySeq DEF D
<1>7. step \in [1..n -> [D -> D]]
  BY <1>4, <1>5
<1>8. \E f \in [0..n -> D] : IsLoop(f, n, << >>, step)
  <2> HIDE DEF step
  <2> QED
    BY <1>1, <1>6, <1>7, LoopExists
<1> DEFINE IsUpTo(f) == f = [k \in 0..n |-> IF k = 0 THEN << >> ELSE f[k - 1] \o chain(k)]
<1>9. \E f : IsUpTo(f)
  <2>1. PICK f \in [0..n -> D] :
             f = [k \in 0..n |-> IF k = 0 THEN << >> ELSE step[k][f[k - 1]]]
    BY <1>8 DEF IsLoop
  <2>2. \A k \in 0..n : k # 0 => k \in 1..n /\ k - 1 \in 0..n
    BY <1>1
  <2>3. \A k \in 0..n : k # 0 => f[k - 1] \in D /\ step[k][f[k - 1]] = f[k - 1] \o chain(k)
    BY <1>3, <1>4, <2>1, <2>2
  <2> HIDE DEF step
  <2> DEFINE g == [k \in 0..n |-> IF k = 0 THEN << >> ELSE f[k - 1] \o chain(k)]
  <2>4. \A k \in 0..n : f[k] = g[k]
    BY <2>1, <2>3
  <2>5. f = [k \in 0..n |-> f[k]] /\ g = [k \in 0..n |-> g[k]]
    BY <2>1
  <2> HIDE DEF g
  <2>6. f = g
    BY <2>4, <2>5
  <2> QED
    BY <2>6 DEF g
<1> DEFINE upTo == CHOOSE f : IsUpTo(f)
<1>10. IsUpTo(upTo)
  BY <1>9
<1>11. InBuckets(s) = upTo[n]
  BY <1>1 DEF InBuckets, chain
<1>12. \A k \in 0..n : upTo[k] = IF k = 0 THEN << >> ELSE upTo[k - 1] \o chain(k)
  <2> HIDE DEF upTo
  <2> QED
    BY <1>10
<1> HIDE DEF upTo
<1> DEFINE T == {k \in 0..n : /\ upTo[k] \in Seq(Entry) /\ Injects(upTo[k])
                             /\ \A x \in Entry : Contains(upTo[k], x) <=> x \in P /\ ToBkt(x, n) < k}
<1>13. 0 \in T
  <2>1. 0 \in 0..n /\ upTo[0] = << >>
    BY <1>1, <1>12
  <2>2. << >> \in Seq(Entry) /\ Injects(<< >>) /\ \A x : ~Contains(<< >>, x)
    BY DEF Injects, Contains
  <2>3. \A x \in Entry : ~(ToBkt(x, n) < 0)
    BY <1>1, ToBktRange
  <2> QED
    BY <2>1, <2>2, <2>3
<1>14. ASSUME NEW k \in 0..(n - 1), k \in T PROVE k + 1 \in T
  <2>1. k + 1 \in 0..n /\ k + 1 # 0 /\ (k + 1) - 1 = k /\ k + 1 \in 1..n /\ k \in 0..n - 1
    BY <1>1
  <2>2. upTo[k + 1] = upTo[k] \o C[k]
    BY <1>3, <1>12, <2>1
  <2>3. /\ upTo[k] \in Seq(Entry) /\ Injects(upTo[k])
        /\ \A x \in Entry : Contains(upTo[k], x) <=> x \in P /\ ToBkt(x, n) < k
    BY <1>14
  <2>4. /\ C[k] \in Seq(Entry) /\ Injects(C[k])
        /\ \A x \in Entry : Contains(C[k], x) <=> x \in P /\ ToBkt(x, n) = k
    BY <1>2, <2>1
  <2>5. \A x \in Entry : ToBkt(x, n) \in 0..n - 1
    BY ToBktRange
  <2> HIDE DEF T
  <2>6. \A x \in Entry : ~(Contains(upTo[k], x) /\ Contains(C[k], x))
    BY <2>1, <2>3, <2>4, <2>5
  <2>7. /\ upTo[k + 1] \in Seq(Entry) /\ Injects(upTo[k + 1])
        /\ \A x : Contains(upTo[k + 1], x) <=> Contains(upTo[k], x) \/ Contains(C[k], x)
    BY <2>2, <2>3, <2>4, <2>6, Concatenated
  <2>8. \A x \in Entry : ToBkt(x, n) < k + 1 <=> ToBkt(x, n) < k \/ ToBkt(x, n) = k
    BY <2>1, <2>5
  <2>9. \A x \in Entry : Contains(upTo[k + 1], x) <=> x \in P /\ ToBkt(x, n) < k + 1
    BY <2>3, <2>4, <2>7, <2>8
  <2> QED
    BY <2>1, <2>7, <2>9 DEF T
<1>15. n \in T
  <2>1. n \in 0..n
    BY <1>1
  <2> HIDE DEF T
  <2> QED
    BY <1>1, <1>13, <1>14, <2>1, InductionTo
<1>16. \A x \in Entry : ToBkt(x, n) < n
  BY <1>1, ToBktRange
<1> QED
  BY <1>11, <1>15, <1>16

-----------------------------------------------------------------------------
(* Expansion *)

(* After an expansion a bucket's multiplier is how many ideal chains its own *)
(* one is worth, if it is longer than one.                                   *)
MultIsShare(s, n) ==
  LET ideal == s.tbl.ideal_chain_maxlen
  IN  \A b \in 0..n - 1 :
        s.tbl.buckets[b].expand_mult =
          IF s.tbl.buckets[b].count > ideal THEN s.tbl.buckets[b].count \div ideal ELSE 0

(* Division of numbers. *)
LEMMA DivType ==
  ASSUME NEW a \in Nat, NEW d \in Nat \ {0}
  PROVE  a \div d \in Nat /\ d * (a \div d) <= a /\ a < d * (a \div d) + d
<1>1. a = d * (a \div d) + (a % d) /\ a \div d \in Int /\ a % d \in 0..(d - 1)
  OBVIOUS
<1> DEFINE q == a \div d
<1> DEFINE r == a % d
<1> HIDE DEF q, r
<1>2. a = d * q + r /\ q \in Int /\ r \in 0..(d - 1)
  BY <1>1 DEF q, r
<1>3. d * q \in Int
  BY <1>2
<1>4. q >= 0
  <2> SUFFICES ASSUME q <= -1 PROVE FALSE
    BY <1>2
  <2>1. d * q <= d * (-1)
    BY <1>2
  <2> QED
    BY <1>2, <1>3, <2>1
<1> QED
  BY <1>2, <1>3, <1>4 DEF q

(* What one turn of the loop of HASH_EXPAND_BUCKETS changes. *)
LEMMA RehashedChanges ==
  ASSUME NEW n \in Nat \ {0}, NEW s \in States(n), s.tbl.ideal_chain_maxlen # 0,
         NEW e \in Entry, NEW b, b = ToBkt(e, n), NEW p, p = PutFirst(s, b, e),
         NEW r, r = Rehashed(s, e)
  PROVE  /\ r \in States(n)
         /\ SameTotals(s, r)
         /\ r.hh = p.hh
         /\ \A i \in 0..n - 1 : /\ r.tbl.buckets[i].hh_head = p.tbl.buckets[i].hh_head
                                /\ r.tbl.buckets[i].count = p.tbl.buckets[i].count
         /\ MultIsShare(s, n) => MultIsShare(r, n)
<1> DEFINE count == p.tbl.buckets[b].count
<1> DEFINE ideal == s.tbl.ideal_chain_maxlen
<1> DEFINE first == s.tbl.buckets[b].hh_head
<1>1. n \in Nat /\ b \in 0..n - 1 /\ s.tbl.num_buckets = n
  BY ToBktRange, StateFields
<1>2. /\ p \in States(n)
      /\ SameTotals(s, p) /\ p.tbl.nonideal_items = s.tbl.nonideal_items
      /\ \A i \in 0..n - 1 : i # b => p.tbl.buckets[i] = s.tbl.buckets[i]
      /\ p.tbl.buckets[b].count = s.tbl.buckets[b].count + 1
      /\ p.tbl.buckets[b].expand_mult = s.tbl.buckets[b].expand_mult
  BY <1>1, PutFirstChanges
<1>3. ideal \in Nat \ {0} /\ p.tbl.ideal_chain_maxlen = ideal
  BY <1>1, <1>2, StateFields DEF Tables, SameTotals
<1>4. /\ p.tbl \in Tables(n) /\ p.hh \in Links /\ p.tbl.buckets \in [0..n - 1 -> Bucket]
      /\ p.tbl.buckets[b] \in Bucket /\ count \in Nat /\ p.tbl.nonideal_items \in Nat
  BY <1>1, <1>2, StateFields DEF Tables
<1> DEFINE share == count \div ideal
<1> DEFINE longer == [p EXCEPT !.tbl.nonideal_items = @ + 1,
                               !.tbl.buckets[b].expand_mult = share]
<1>5. r = IF count > ideal THEN longer ELSE p
  BY <1>1, <1>3 DEF Rehashed
<1> HIDE DEF count, ideal
<1>6. share \in Nat
  BY <1>3, <1>4, DivType
<1> HIDE DEF share
<1>7. /\ longer \in States(n)
      /\ SameTotals(p, longer)
      /\ longer.hh = p.hh
      /\ \A i \in 0..n - 1 : i # b => longer.tbl.buckets[i] = p.tbl.buckets[i]
      /\ longer.tbl.buckets[b].hh_head = p.tbl.buckets[b].hh_head
      /\ longer.tbl.buckets[b].count = p.tbl.buckets[b].count
      /\ longer.tbl.buckets[b].expand_mult = share
  <2> DEFINE new == [p.tbl.buckets[b] EXCEPT !.expand_mult = share]
  <2> DEFINE bkts == [p.tbl.buckets EXCEPT ![b] = new]
  <2> DEFINE more == p.tbl.nonideal_items + 1
  <2>1. /\ new \in Bucket /\ new.hh_head = p.tbl.buckets[b].hh_head
        /\ new.count = p.tbl.buckets[b].count /\ new.expand_mult = share
    BY <1>4, <1>6 DEF Bucket
  <2>2. longer.tbl = [p.tbl EXCEPT !.nonideal_items = more, !.buckets = bkts]
    BY <1>2, <1>4 DEF States, Tables
  <2>3. longer.hh = p.hh
    BY <1>2 DEF States
  <2> HIDE DEF new
  <2>4. bkts \in [0..n - 1 -> Bucket] /\ bkts[b] = new
        /\ \A i \in 0..n - 1 : i # b => bkts[i] = p.tbl.buckets[i]
    BY <1>1, <1>4, <2>1
  <2>5. more \in Nat
    BY <1>4
  <2>6. DOMAIN longer = {"tbl", "hh"}
    BY <1>2 DEF States
  <2> HIDE DEF bkts, more
  <2>7. longer.tbl \in Tables(n) /\ longer.tbl.buckets = bkts
    <3> HIDE DEF longer
    <3> QED
      BY <1>4, <2>2, <2>4, <2>5 DEF Tables
  <2>8. SameTotals(p, longer)
    <3> HIDE DEF longer
    <3> QED
      BY <1>4, <2>2, <2>3 DEF SameTotals, Tables
  <2>9. longer \in States(n)
    BY <1>2, <1>4, <2>3, <2>6, <2>7 DEF States
  <2> HIDE DEF longer
  <2> QED
    BY <2>1, <2>3, <2>4, <2>7, <2>8, <2>9
<1> HIDE DEF longer
<1>8. r \in States(n) /\ SameTotals(p, r) /\ r.hh = p.hh
  BY <1>2, <1>5, <1>7 DEF SameTotals
<1>9. SameTotals(s, r)
  BY <1>2, <1>8 DEF SameTotals
<1>10. \A i \in 0..n - 1 : /\ r.tbl.buckets[i].hh_head = p.tbl.buckets[i].hh_head
                           /\ r.tbl.buckets[i].count = p.tbl.buckets[i].count
                           /\ i # b => r.tbl.buckets[i].expand_mult = s.tbl.buckets[i].expand_mult
                           /\ i # b => r.tbl.buckets[i].count = s.tbl.buckets[i].count
  BY <1>1, <1>2, <1>5, <1>7
<1>11. r.tbl.buckets[b].expand_mult =
         IF count > ideal THEN share ELSE s.tbl.buckets[b].expand_mult
  BY <1>2, <1>5, <1>7
<1>12. ASSUME MultIsShare(s, n) PROVE MultIsShare(r, n)
  <2>1. r.tbl.ideal_chain_maxlen = ideal
    BY <1>9 DEF SameTotals, ideal
  <2> SUFFICES ASSUME NEW i \in 0..n - 1
               PROVE  r.tbl.buckets[i].expand_mult =
                        IF r.tbl.buckets[i].count > ideal
                        THEN r.tbl.buckets[i].count \div ideal ELSE 0
    BY <2>1 DEF MultIsShare
  <2>2. s.tbl.buckets[i].expand_mult =
          IF s.tbl.buckets[i].count > ideal THEN s.tbl.buckets[i].count \div ideal ELSE 0
    BY <1>12 DEF MultIsShare, ideal
  <2>3. CASE i # b
    BY <1>10, <2>2, <2>3
  <2>4. CASE i = b
    <3>1. r.tbl.buckets[b].count = count
      BY <1>10, <2>4 DEF count
    <3>2. CASE count > ideal
      BY <1>11, <2>4, <3>1, <3>2 DEF share
    <3>3. CASE ~(count > ideal)
      <4>1. count = s.tbl.buckets[b].count + 1 /\ s.tbl.buckets[b].count \in Nat
        BY <1>1, <1>2, StateFields DEF count
      <4>2. ~(s.tbl.buckets[b].count > ideal)
        BY <1>3, <3>3, <4>1
      <4> QED
        BY <1>11, <2>2, <2>4, <3>1, <3>3, <4>2
    <3> QED
      BY <3>2, <3>3
  <2> QED
    BY <2>3, <2>4
<1> QED
  BY <1>8, <1>9, <1>10, <1>12

(* A power of two is the number of the subsets of a set; one element more    *)
(* makes twice as many.                                                      *)
LEMMA PowerDoubles ==
  ASSUME NEW n \in Nat
  PROVE  2^n \in Nat \ {0} /\ 2^(n + 1) = 2 * 2^n
<1> DEFINE S == 1..n
<1> DEFINE T == 1..(n + 1)
<1> DEFINE A == SUBSET S
<1> DEFINE B == {X \union {n + 1} : X \in A}
<1>1. IsFiniteSet(S) /\ Cardinality(S) = n
  <2>1. IsFiniteSet(1..n) /\ Cardinality(1..n) = IF 1 > n THEN 0 ELSE n - 1 + 1
    BY FS_Interval
  <2> QED
    BY <2>1
<1>2. IsFiniteSet(T) /\ Cardinality(T) = n + 1
  <2>1. IsFiniteSet(1..(n + 1)) /\ Cardinality(1..(n + 1)) = IF 1 > n + 1 THEN 0 ELSE (n + 1) - 1 + 1
    BY FS_Interval
  <2> QED
    BY <2>1
<1>3. T = S \union {n + 1} /\ n + 1 \notin S
  OBVIOUS
<1> HIDE DEF S, T
<1>4. IsFiniteSet(A) /\ Cardinality(A) = 2^n
  BY <1>1, FS_SUBSET
<1>5. IsFiniteSet(SUBSET T) /\ Cardinality(SUBSET T) = 2^(n + 1)
  BY <1>2, FS_SUBSET
<1>6. IsFiniteSet(B) /\ Cardinality(B) = Cardinality(A)
  <2> DEFINE f == [X \in A |-> X \union {n + 1}]
  <2>1. f \in [A -> B]
    OBVIOUS
  <2>2. \A X, Y \in A : f[X] = f[Y] => X = Y
    BY <1>3
  <2>3. \A Z \in B : \E X \in A : f[X] = Z
    OBVIOUS
  <2> HIDE DEF f, A, B
  <2>4. f \in Bijection(A, B)
    BY <2>1, <2>2, <2>3 DEF Bijection, Injection, Surjection, IsInjective
  <2>5. ExistsBijection(A, B)
    BY <2>4 DEF ExistsBijection
  <2> QED
    BY <1>4, <2>5, FS_Bijection
<1>7. SUBSET T = A \union B
  <2>1. ASSUME NEW X \in SUBSET T PROVE X \in A \union B
    <3>1. CASE n + 1 \in X
      <4>1. X \ {n + 1} \in A /\ X = (X \ {n + 1}) \union {n + 1}
        BY <1>3, <3>1
      <4> QED
        BY <4>1
    <3>2. CASE n + 1 \notin X
      BY <1>3, <3>2
    <3> QED
      BY <3>1, <3>2
  <2>2. \A X \in A \union B : X \in SUBSET T
    BY <1>3
  <2> QED
    BY <2>1, <2>2
<1>8. A \cap B = {}
  BY <1>3
<1>9. Cardinality(A) \in Nat /\ Cardinality(A) # 0
  <2>1. A # {}
    OBVIOUS
  <2> HIDE DEF A
  <2> QED
    BY <1>4, <2>1, FS_EmptySet, FS_CardinalityType
<1>10. Cardinality(A \union B) = Cardinality(A) + Cardinality(B) - Cardinality(A \cap B)
  <2> HIDE DEF A, B
  <2> QED
    BY <1>4, <1>6, FS_Union
<1>11. Cardinality({}) = 0
  BY FS_EmptySet
<1> HIDE DEF A, B
<1>12. 2^(n + 1) = Cardinality(A) + Cardinality(A)
  <2> DEFINE c == Cardinality(A)
  <2> DEFINE p == 2^(n + 1)
  <2>1. Cardinality(A \union B) = p
    BY <1>5, <1>7
  <2>2. Cardinality(A \cap B) = 0
    BY <1>8, <1>11
  <2>3. Cardinality(B) = c /\ c \in Nat
    BY <1>6, <1>9
  <2>4. p = c + c - 0
    BY <1>10, <2>1, <2>2, <2>3
  <2> HIDE DEF c, p
  <2>5. p = c + c
    BY <2>3, <2>4
  <2> QED
    BY <2>5 DEF c, p
<1> DEFINE c == Cardinality(A)
<1> DEFINE p == 2^n
<1>13. p = c
  BY <1>4
<1> HIDE DEF c, p
<1>14. 2^(n + 1) = c + c /\ c \in Nat \ {0}
  BY <1>9, <1>12 DEF c
<1>15. p \in Nat \ {0} /\ 2^(n + 1) = 2 * p
  BY <1>13, <1>14
<1> QED
  BY <1>15 DEF p

(* The ideal length of the chains in twice as many buckets: rounded up, so   *)
(* that they hold all the entries.                                           *)
LEMMA IdealChainHolds ==
  ASSUME NEW n \in Nat \ {0}, NEW t \in Tables(n), n = 2^t.log2_num_buckets
  PROVE  /\ IdealChain(t) \in Nat
         /\ t.num_items <= 2 * n * IdealChain(t)
         /\ t.num_items # 0 => IdealChain(t) # 0
         /\ \A cap \in Nat : t.num_items <= 2 * n * cap => IdealChain(t) <= cap
<1> DEFINE m == t.num_items
<1> DEFINE d == 2 * n
<1>1. t.num_buckets = n /\ m \in Nat /\ t.log2_num_buckets \in Nat
  BY DEF Tables
<1>2. 2^(t.log2_num_buckets + 1) = d
  BY <1>1, PowerDoubles
<1>3. IdealChain(t) = (m \div d) + (IF m % d # 0 THEN 1 ELSE 0)
  BY <1>1, <1>2 DEF IdealChain
<1>4. d \in Nat \ {0}
  OBVIOUS
<1> HIDE DEF m, d
<1> DEFINE q == m \div d
<1> DEFINE r == m % d
<1>5. m = d * q + r /\ q \in Nat /\ r \in 0..(d - 1)
  BY <1>1, <1>4, DivType
<1>6. IdealChain(t) = q + (IF r # 0 THEN 1 ELSE 0)
  BY <1>3
<1> HIDE DEF q, r
<1> DEFINE i == IdealChain(t)
<1>7. i \in Nat
  BY <1>5, <1>6
<1>8. d * q \in Nat
  BY <1>4, <1>5
<1>9. CASE r = 0
  <2>1. i = q /\ m = d * i
    BY <1>5, <1>6, <1>8, <1>9
  <2>2. ASSUME NEW cap \in Nat, m <= d * cap PROVE i <= cap
    <3> HIDE DEF i
    <3> SUFFICES ASSUME cap + 1 <= i PROVE FALSE
      BY <1>7, <2>2
    <3>1. d * (cap + 1) <= d * i
      BY <1>4, <1>7
    <3>2. d * (cap + 1) = d * cap + d /\ d * cap \in Nat
      BY <1>4
    <3> QED
      BY <1>1, <1>4, <2>1, <2>2, <3>1, <3>2
  <2>3. m # 0 => i # 0
    <3> HIDE DEF i
    <3> QED
      BY <1>4, <1>7, <2>1
  <2> HIDE DEF i
  <2> QED
    BY <1>7, <2>1, <2>2, <2>3 DEF i, m, d
<1>10. CASE r # 0
  <2>1. i = q + 1 /\ d * i = d * q + d
    BY <1>4, <1>5, <1>6, <1>10
  <2>2. ASSUME NEW cap \in Nat, m <= d * cap PROVE i <= cap
    <3> HIDE DEF i
    <3> SUFFICES ASSUME cap <= q PROVE FALSE
      BY <1>5, <1>7, <2>1, <2>2
    <3>1. d * cap <= d * q /\ d * cap \in Nat
      BY <1>4, <1>5
    <3> QED
      BY <1>5, <1>8, <1>10, <2>2, <3>1
  <2>3. m <= d * i /\ i # 0
    BY <1>4, <1>5, <1>8, <2>1
  <2> HIDE DEF i
  <2> QED
    BY <1>7, <2>2, <2>3 DEF i, m, d
<1> QED
  BY <1>9, <1>10

(* Chains depend on the heads, the counts and the links. *)
LEMMA ChainsSame ==
  ASSUME NEW n, NEW s, NEW t, NEW P, NEW C, ChainsOf(s, n, P, C),
         t.hh.hh_next = s.hh.hh_next, t.hh.hh_prev = s.hh.hh_prev,
         \A i \in 0..n - 1 : /\ t.tbl.buckets[i].hh_head = s.tbl.buckets[i].hh_head
                             /\ t.tbl.buckets[i].count = s.tbl.buckets[i].count
  PROVE  ChainsOf(t, n, P, C)
  BY DEF ChainsOf, Chains

(* An entry of P that becomes the first of its chain leaves the others     *)
(* unlinked.                                                               *)
LEMMA PutFirstOffChains ==
  ASSUME NEW n \in Nat \ {0}, NEW s \in States(n), NEW Q, NEW P, Q \subseteq P,
         NEW C, ChainsOf(s, n, Q, C), OffChains(s, P),
         NEW e \in Entry, e \in P, NEW b, b = ToBkt(e, n)
  PROVE  OffChains(PutFirst(s, b, e), P)
<1> DEFINE p == PutFirst(s, b, e)
<1> DEFINE first == s.tbl.buckets[b].hh_head
<1>1. n \in Nat /\ b \in 0..n - 1 /\ s.hh.hh_next \in Link /\ s.hh.hh_prev \in Link
  BY ToBktRange, StateFields
<1>2. /\ p.hh.hh_next = LinkBefore(s.hh.hh_next, e, first)
      /\ p.hh.hh_prev = BackBefore(s.hh.hh_prev, e, first)
  <2> HIDE DEF p, first
  <2> QED
    BY <1>1, PutFirstChanges DEF p, first
<1>3. C[b] \in Seq(Entry) /\ first = Front(C[b])
      /\ \A x \in Entry : Contains(C[b], x) => x \in Q
  BY <1>1 DEF ChainsOf, Chains, IsList
<1>4. first \in Entry => first \in P
  <2> SUFFICES ASSUME first \in Entry PROVE Contains(C[b], first)
    BY <1>3
  <2>1. C[b] # << >> /\ C[b][1] = first
    BY <1>3, UtHashAssumption DEF Front
  <2>2. 1 \in 1..Len(C[b])
    <3>1. Len(C[b]) \in Nat /\ Len(C[b]) # 0
      BY <1>3, <2>1, EntrySeq
    <3> QED
      BY <3>1
  <2> QED
    BY <2>1, <2>2 DEF Contains
<1> HIDE DEF p, first
<1>5. ASSUME NEW x \in Entry \ P PROVE p.hh.hh_next[x] = NULL /\ p.hh.hh_prev[x] = NULL
  <2>1. x # e /\ x # first
    BY <1>4
  <2>2. s.hh.hh_next[x] = NULL /\ s.hh.hh_prev[x] = NULL
    BY DEF OffChains
  <2> QED
    BY <1>1, <1>2, <2>1, <2>2 DEF LinkBefore, BackBefore, Link
<1> QED
  BY <1>5 DEF OffChains, p

(* One turn of the loop moves one entry more to the new chains. *)
LEMMA RehashedMoves ==
  ASSUME NEW n \in Nat \ {0}, NEW s \in States(n), s.tbl.ideal_chain_maxlen # 0,
         NEW Q, NEW P, Q \subseteq P, NEW C, ChainsOf(s, n, Q, C), OffChains(s, P),
         NEW e \in Entry, e \in P, e \notin Q, NEW r, r = Rehashed(s, e)
  PROVE  (\E D : ChainsOf(r, n, Q \union {e}, D)) /\ OffChains(r, P)
<1> DEFINE b == ToBkt(e, n)
<1> DEFINE p == PutFirst(s, b, e)
<1>1. ChainsOf(p, n, Q \union {e}, [C EXCEPT ![b] = << e >> \o C[b]])
  BY PutFirstChains
<1>2. OffChains(p, P)
  BY PutFirstOffChains
<1> DEFINE D == [C EXCEPT ![b] = << e >> \o C[b]]
<1> HIDE DEF p, b, D
<1>3. r.hh = p.hh
      /\ \A i \in 0..n - 1 : /\ r.tbl.buckets[i].hh_head = p.tbl.buckets[i].hh_head
                             /\ r.tbl.buckets[i].count = p.tbl.buckets[i].count
  BY RehashedChanges DEF p, b
<1>4. ChainsOf(p, n, Q \union {e}, D)
  BY <1>1 DEF D
<1>5. ChainsOf(r, n, Q \union {e}, D)
  BY <1>3, <1>4, ChainsSame
<1>6. OffChains(r, P)
  BY <1>2, <1>3 DEF OffChains
<1> QED
  BY <1>5, <1>6

(* The new buckets of an expansion, before the loop. *)
Fresh(s) ==
  LET n == s.tbl.num_buckets
  IN  [s EXCEPT !.tbl.buckets            = EmptyBuckets(2 * n),
                !.tbl.num_buckets        = 2 * n,
                !.tbl.log2_num_buckets   = @ + 1,
                !.tbl.ideal_chain_maxlen = IdealChain(s.tbl),
                !.tbl.nonideal_items     = 0]

(* A table of empty buckets has the chains of no entries. *)
LEMMA EmptyChains ==
  ASSUME NEW n \in Nat, NEW s, s.tbl.buckets = EmptyBuckets(n)
  PROVE  /\ EmptyBuckets(n) \in [0..n - 1 -> Bucket]
         /\ ChainsOf(s, n, {}, [b \in 0..n - 1 |-> << >>])
         /\ MultIsShare(s, n) \/ s.tbl.ideal_chain_maxlen \notin Nat
<1> DEFINE C == [b \in 0..n - 1 |-> << >>]
<1>1. << >> \in Seq(Entry) /\ Len(<< >>) = 0 /\ \A x : ~Contains(<< >>, x)
  BY DEF Contains
<1>2. C \in [0..n - 1 -> Seq(Entry)] /\ \A b \in 0..n - 1 : C[b] = << >>
  BY <1>1
<1>3. \A link, back : IsList(NULL, link, back, << >>)
  BY <1>1 DEF IsList, Front, Injects, Linked, BackLinked
<1>4. \A b \in 0..n - 1 : s.tbl.buckets[b] = [hh_head |-> NULL, count |-> 0, expand_mult |-> 0]
  BY DEF EmptyBuckets
<1>5. EmptyBuckets(n) \in [0..n - 1 -> Bucket]
  BY DEF EmptyBuckets, Bucket, Pointer
<1> HIDE DEF C
<1>6. \A b \in 0..n - 1 : /\ s.tbl.buckets[b].hh_head = NULL /\ s.tbl.buckets[b].count = 0
                          /\ s.tbl.buckets[b].expand_mult = 0
  BY <1>4
<1>7. ChainsOf(s, n, {}, C)
  BY <1>1, <1>2, <1>3, <1>6 DEF ChainsOf, Chains
<1>8. ASSUME s.tbl.ideal_chain_maxlen \in Nat PROVE MultIsShare(s, n)
  BY <1>6, <1>8 DEF MultIsShare
<1> QED
  BY <1>5, <1>7, <1>8 DEF C

(* The table that HASH_EXPAND_BUCKETS begins to fill has twice as many     *)
(* buckets, all empty.                                                     *)
LEMMA FreshState ==
  ASSUME NEW n \in Nat \ {0}, NEW s \in States(n), n = 2^s.tbl.log2_num_buckets,
         NEW f, f = Fresh(s)
  PROVE  /\ f \in States(2 * n)
         /\ f.hh = s.hh
         /\ f.tbl.buckets = EmptyBuckets(2 * n)
         /\ f.tbl.log2_num_buckets = s.tbl.log2_num_buckets + 1
         /\ f.tbl.ideal_chain_maxlen = IdealChain(s.tbl)
         /\ f.tbl.num_items = s.tbl.num_items /\ f.tbl.tail = s.tbl.tail
         /\ f.tbl.noexpand = s.tbl.noexpand
<1>1. s.tbl \in Tables(n) /\ s.hh \in Links /\ s.tbl.num_buckets = n /\ n \in Nat
  BY StateFields
<1> DEFINE bkts == EmptyBuckets(2 * n)
<1> DEFINE twice == 2 * n
<1> DEFINE log == s.tbl.log2_num_buckets + 1
<1> DEFINE ideal == IdealChain(s.tbl)
<1>2. twice \in Nat /\ log \in Nat
  BY <1>1 DEF Tables
<1>3. ideal \in Nat
  BY <1>1, IdealChainHolds
<1>4. bkts \in [0..twice - 1 -> Bucket]
  <2> DEFINE t == [tbl |-> [buckets |-> bkts]]
  <2>1. t.tbl.buckets = EmptyBuckets(twice)
    OBVIOUS
  <2> HIDE DEF t, twice
  <2>2. EmptyBuckets(twice) \in [0..twice - 1 -> Bucket]
    BY <1>2, <2>1, EmptyChains
  <2> QED
    BY <2>2 DEF twice
<1>5. f.tbl = [s.tbl EXCEPT !.buckets = bkts, !.num_buckets = twice, !.log2_num_buckets = log,
                            !.ideal_chain_maxlen = ideal, !.nonideal_items = 0]
  BY <1>1 DEF Fresh, States, Tables
<1>6. f.hh = s.hh /\ DOMAIN f = {"tbl", "hh"}
  BY <1>1 DEF Fresh, States
<1> HIDE DEF bkts, twice, log, ideal
<1>7. f.tbl \in Tables(twice)
  <2> DEFINE t == [s.tbl EXCEPT !.buckets = bkts, !.num_buckets = twice]
  <2>1. t \in Tables(twice)
    BY <1>1, <1>4 DEF Tables
  <2> DEFINE u == [t EXCEPT !.log2_num_buckets = log, !.ideal_chain_maxlen = ideal]
  <2>2. f.tbl = [u EXCEPT !.nonideal_items = 0]
    BY <1>5
  <2> HIDE DEF t
  <2>3. u \in Tables(twice)
    BY <1>2, <1>3, <2>1 DEF Tables
  <2> HIDE DEF u
  <2> QED
    BY <2>2, <2>3 DEF Tables
<1>8. f \in States(twice)
  BY <1>1, <1>6, <1>7 DEF States, Fresh
<1>9. /\ f.tbl.buckets = bkts /\ f.tbl.log2_num_buckets = log
      /\ f.tbl.ideal_chain_maxlen = ideal
      /\ f.tbl.num_items = s.tbl.num_items /\ f.tbl.tail = s.tbl.tail
      /\ f.tbl.noexpand = s.tbl.noexpand
  BY <1>1, <1>5 DEF Tables
<1> QED
  BY <1>6, <1>8, <1>9 DEF bkts, twice, log, ideal(* How an expansion ends. *)
WithNoexpand(t, no) == [t EXCEPT !.noexpand = no]
Counted(s, ineff, no) == [s EXCEPT !.tbl.ineff_expands = ineff, !.tbl.noexpand = no]

(* What the flag noexpand does not touch. *)
LEMMA NoMoreExpansions ==
  ASSUME NEW n \in Nat, NEW t \in Tables(n), NEW no \in BOOLEAN,
         NEW u, u = WithNoexpand(t, no)
  PROVE  /\ u \in Tables(n) /\ u.buckets = t.buckets
         /\ u.log2_num_buckets = t.log2_num_buckets
         /\ u.num_items = t.num_items /\ u.tail = t.tail
         /\ u.ideal_chain_maxlen = t.ideal_chain_maxlen
<1>1. u \in Tables(n)
  BY DEF Tables, WithNoexpand
<1>2. /\ u.buckets = t.buckets
      /\ u.log2_num_buckets = t.log2_num_buckets
      /\ u.num_items = t.num_items /\ u.tail = t.tail
      /\ u.ideal_chain_maxlen = t.ideal_chain_maxlen
  BY DEF Tables, WithNoexpand
<1> QED
  BY <1>1, <1>2

(* The last steps of HASH_EXPAND_BUCKETS count an expansion that moved too   *)
(* few entries to ideal chains.                                              *)
LEMMA CountExpansion ==
  ASSUME NEW n \in Nat, NEW s \in States(n), NEW ineff \in Nat, NEW no \in BOOLEAN,
         NEW x, x = Counted(s, ineff, no)
  PROVE  /\ x \in States(n)
         /\ x.hh = s.hh /\ x.tbl.buckets = s.tbl.buckets
         /\ x.tbl.log2_num_buckets = s.tbl.log2_num_buckets
         /\ x.tbl.num_items = s.tbl.num_items /\ x.tbl.tail = s.tbl.tail
         /\ x.tbl.ideal_chain_maxlen = s.tbl.ideal_chain_maxlen
<1>1. s.tbl \in Tables(n)
  BY StateFields
<1>2. x.tbl = [s.tbl EXCEPT !.ineff_expands = ineff, !.noexpand = no]
  BY <1>1 DEF Counted, States, Tables
<1>3. x.hh = s.hh /\ DOMAIN x = {"tbl", "hh"}
  BY DEF Counted, States
<1> DEFINE t == [s.tbl EXCEPT !.ineff_expands = ineff]
<1>4. /\ t \in Tables(n) /\ t.buckets = s.tbl.buckets
      /\ t.log2_num_buckets = s.tbl.log2_num_buckets
      /\ t.num_items = s.tbl.num_items /\ t.tail = s.tbl.tail
      /\ t.ideal_chain_maxlen = s.tbl.ideal_chain_maxlen
  BY <1>1 DEF Tables
<1>5. x.tbl = WithNoexpand(t, no)
  BY <1>2 DEF WithNoexpand
<1> HIDE DEF t
<1>6. /\ x.tbl \in Tables(n)
      /\ x.tbl.buckets = t.buckets
      /\ x.tbl.log2_num_buckets = t.log2_num_buckets
      /\ x.tbl.num_items = t.num_items /\ x.tbl.tail = t.tail
      /\ x.tbl.ideal_chain_maxlen = t.ideal_chain_maxlen
  <2>1. t \in Tables(n)
    BY <1>4
  <2> QED
    BY <1>5, <2>1, NoMoreExpansions
<1>7. x \in States(n)
  BY <1>3, <1>6 DEF Counted, States
<1> QED
  BY <1>3, <1>4, <1>6, <1>7

(* An expansion moves every entry to one of twice as many chains. *)
LEMMA ExpandedResult ==
  ASSUME NEW n \in Nat \ {0}, NEW s \in States(n), n = 2^s.tbl.log2_num_buckets,
         s.tbl.num_items # 0, NEW P \in SUBSET Entry, NEW C, ChainsOf(s, n, P, C),
         OffChains(s, P), NEW x, x = Expanded(s)
  PROVE  /\ x \in States(2 * n)
         /\ \E D : ChainsOf(x, 2 * n, P, D)
         /\ OffChains(x, P)
         /\ x.tbl.log2_num_buckets = s.tbl.log2_num_buckets + 1
         /\ x.tbl.num_items = s.tbl.num_items /\ x.tbl.tail = s.tbl.tail
         /\ x.hh.next = s.hh.next /\ x.hh.prev = s.hh.prev
         /\ x.tbl.ideal_chain_maxlen = IdealChain(s.tbl)
         /\ MultIsShare(x, 2 * n)
<1> DEFINE n2 == 2 * n
<1> DEFINE order == InBuckets(s)
<1> DEFINE m == Len(order)
<1> DEFINE fresh == Fresh(s)
<1> DEFINE S == {t \in States(n2) : t.tbl.ideal_chain_maxlen # 0}
<1> DEFINE step == [k \in 1..m |-> [t \in S |-> Rehashed(t, order[k])]]
<1>1. n2 \in Nat \ {0}
  OBVIOUS
<1>3. /\ order \in Seq(Entry) /\ Injects(order)
      /\ \A e \in Entry : Contains(order, e) <=> e \in P
  BY InBucketsMeetsEachOnce
<1>4. m \in Nat /\ \A k \in 1..m : order[k] \in Entry
  BY <1>3, EntrySeq
<1>5. /\ fresh \in States(n2)
      /\ fresh.hh = s.hh
      /\ fresh.tbl.buckets = EmptyBuckets(n2)
      /\ fresh.tbl.log2_num_buckets = s.tbl.log2_num_buckets + 1
      /\ fresh.tbl.ideal_chain_maxlen = IdealChain(s.tbl)
      /\ fresh.tbl.num_items = s.tbl.num_items /\ fresh.tbl.tail = s.tbl.tail
  BY FreshState
<1>6. IdealChain(s.tbl) \in Nat \ {0}
  BY StateFields, IdealChainHolds
<1> HIDE DEF n2, order, fresh
<1>7. fresh \in S
  BY <1>5, <1>6
<1>8. ASSUME NEW t \in S, NEW e \in Entry
      PROVE  /\ Rehashed(t, e) \in S /\ SameTotals(t, Rehashed(t, e))
             /\ MultIsShare(t, n2) => MultIsShare(Rehashed(t, e), n2)
  <2> DEFINE b == ToBkt(e, n2)
  <2> DEFINE p == PutFirst(t, b, e)
  <2> DEFINE r == Rehashed(t, e)
  <2>1. t \in States(n2) /\ t.tbl.ideal_chain_maxlen # 0
    OBVIOUS
  <2> HIDE DEF b, p, r, S
  <2>2. /\ r \in States(n2) /\ SameTotals(t, r)
        /\ MultIsShare(t, n2) => MultIsShare(r, n2)
    BY <1>1, <2>1, RehashedChanges DEF b, p, r
  <2>3. r \in S
    BY <2>1, <2>2 DEF S, SameTotals
  <2> QED
    BY <2>2, <2>3 DEF r
<1> HIDE DEF S, m
<1>9. step \in [1..m -> [S -> S]]
  BY <1>4, <1>8
<1>10. \E f \in [0..m -> S] : IsLoop(f, m, fresh, step)
  <2> HIDE DEF step
  <2> QED
    BY <1>4, <1>7, <1>9, LoopExists
<1> DEFINE IsHistory(f) ==
      f = [k \in 0..m |-> IF k = 0 THEN fresh ELSE Rehashed(f[k - 1], order[k])]
<1>11. \E f : IsHistory(f)
  <2>1. PICK f \in [0..m -> S] :
             f = [k \in 0..m |-> IF k = 0 THEN fresh ELSE step[k][f[k - 1]]]
    BY <1>10 DEF IsLoop
  <2>2. \A k \in 0..m : k # 0 => k \in 1..m /\ k - 1 \in 0..m
    BY <1>4
  <2>3. \A k \in 0..m : k # 0 => f[k - 1] \in S /\ step[k][f[k - 1]] = Rehashed(f[k - 1], order[k])
    BY <2>1, <2>2
  <2> HIDE DEF step
  <2> DEFINE g == [k \in 0..m |-> IF k = 0 THEN fresh ELSE Rehashed(f[k - 1], order[k])]
  <2>4. \A k \in 0..m : f[k] = g[k]
    BY <2>1, <2>3
  <2>5. f = [k \in 0..m |-> f[k]] /\ g = [k \in 0..m |-> g[k]]
    BY <2>1
  <2> HIDE DEF g
  <2>6. f = g
    BY <2>4, <2>5
  <2> QED
    BY <2>6 DEF g
<1> DEFINE loop == CHOOSE f : IsHistory(f)
<1>12. IsHistory(loop)
  BY <1>11
<1> DEFINE moved == loop[m]
<1> DEFINE ineff == IF moved.tbl.nonideal_items > moved.tbl.num_items \div 2
                    THEN moved.tbl.ineff_expands + 1 ELSE 0
<1>13. x = [moved EXCEPT !.tbl.ineff_expands = ineff, !.tbl.noexpand = @ \/ ineff > 1]
  BY DEF Expanded, fresh, Fresh, order, m
<1>14. \A k \in 0..m : loop[k] = IF k = 0 THEN fresh ELSE Rehashed(loop[k - 1], order[k])
  <2> HIDE DEF loop
  <2> QED
    BY <1>12
<1> HIDE DEF loop
<1> DEFINE Q(k) == {order[j] : j \in 1..k}
<1> DEFINE T == {k \in 0..m : /\ loop[k] \in S /\ SameTotals(fresh, loop[k])
                              /\ MultIsShare(loop[k], n2) /\ OffChains(loop[k], P)
                              /\ \E D : ChainsOf(loop[k], n2, Q(k), D)}
<1>15. 0 \in T
  <2>1. 0 \in 0..m /\ loop[0] = fresh
    BY <1>4, <1>14
  <2>2. Q(0) = {}
    OBVIOUS
  <2>3. /\ \E D : ChainsOf(fresh, n2, {}, D)
        /\ MultIsShare(fresh, n2)
    <3>1. ChainsOf(fresh, n2, {}, [b \in 0..n2 - 1 |-> << >>])
      BY <1>1, <1>5, EmptyChains
    <3>2. MultIsShare(fresh, n2)
      BY <1>1, <1>5, <1>6, EmptyChains
    <3> QED
      BY <3>1, <3>2
  <2>4. SameTotals(fresh, fresh) /\ OffChains(fresh, P)
    BY <1>5 DEF SameTotals, OffChains
  <2> HIDE DEF Q
  <2> QED
    BY <1>7, <2>1, <2>2, <2>3, <2>4
<1>16. ASSUME NEW k \in 0..(m - 1), k \in T PROVE k + 1 \in T
  <2> DEFINE t == loop[k]
  <2> DEFINE e == order[k + 1]
  <2> DEFINE r == Rehashed(t, e)
  <2>1. k + 1 \in 0..m /\ k + 1 # 0 /\ (k + 1) - 1 = k /\ k + 1 \in 1..m
    BY <1>4
  <2>2. loop[k + 1] = r
    BY <1>14, <2>1
  <2>3. e \in Entry /\ e \in P /\ e \notin Q(k)
    <3>1. e \in Entry
      BY <1>4, <2>1
    <3>2. Contains(order, e)
      BY <2>1 DEF Contains, m
    <3>3. ASSUME NEW j \in 1..k PROVE order[j] # e
      <4>1. j \in 1..m /\ j # k + 1
        BY <1>4
      <4> QED
        BY <1>3, <2>1, <4>1 DEF Injects, m
    <3> QED
      BY <1>3, <3>1, <3>2, <3>3
  <2>4. Q(k + 1) = Q(k) \union {e}
    <3>1. 1..(k + 1) = 1..k \union {k + 1}
      BY <1>4
    <3> QED
      BY <3>1
  <2>5. Q(k) \subseteq P
    <3>1. ASSUME NEW j \in 1..k PROVE order[j] \in P
      <4>1. j \in 1..m
        BY <1>4
      <4>2. Contains(order, order[j]) /\ order[j] \in Entry
        BY <1>4, <4>1 DEF Contains, m
      <4> QED
        BY <1>3, <4>2
    <3> QED
      BY <3>1
  <2> HIDE DEF Q
  <2>6. /\ t \in S /\ SameTotals(fresh, t) /\ MultIsShare(t, n2) /\ OffChains(t, P)
        /\ \E D : ChainsOf(t, n2, Q(k), D)
    BY <1>16
  <2>7. PICK C1 : ChainsOf(t, n2, Q(k), C1)
    BY <2>6
  <2>8. t \in States(n2) /\ t.tbl.ideal_chain_maxlen # 0
    BY <2>6 DEF S
  <2> HIDE DEF t, e, r, T
  <2>9. (\E D : ChainsOf(r, n2, Q(k) \union {e}, D)) /\ OffChains(r, P)
    BY <1>1, <2>3, <2>5, <2>6, <2>7, <2>8, RehashedMoves DEF r
  <2>10. r \in S /\ SameTotals(t, r) /\ MultIsShare(r, n2)
    BY <1>8, <2>3, <2>6 DEF r
  <2>11. SameTotals(fresh, r)
    BY <2>6, <2>10 DEF SameTotals
  <2> QED
    BY <2>1, <2>2, <2>4, <2>9, <2>10, <2>11 DEF T
<1>17. m \in T
  <2>1. m \in 0..m
    BY <1>4
  <2> HIDE DEF T
  <2> QED
    BY <1>4, <1>15, <1>16, <2>1, InductionTo
<1>18. Q(m) = P
  <2>1. \A e \in P : \E j \in 1..m : order[j] = e
    BY <1>3 DEF Contains, m
  <2>2. ASSUME NEW j \in 1..m PROVE order[j] \in P
    <3>1. Contains(order, order[j]) /\ order[j] \in Entry
      BY <1>4 DEF Contains, m
    <3> QED
      BY <1>3, <3>1
  <2> QED
    BY <2>1, <2>2
<1>19. /\ moved \in States(n2) /\ SameTotals(fresh, moved)
       /\ MultIsShare(moved, n2) /\ OffChains(moved, P)
       /\ \E D : ChainsOf(moved, n2, Q(m), D)
  BY <1>17 DEF S
<1> HIDE DEF moved, Q
<1>20. ineff \in Nat
  <2>1. moved.tbl.ineff_expands \in Nat
    BY <1>1, <1>19, StateFields DEF Tables
  <2> QED
    BY <2>1
<1> HIDE DEF ineff
<1>21. /\ x \in States(n2)
       /\ x.hh = moved.hh /\ x.tbl.buckets = moved.tbl.buckets
       /\ x.tbl.log2_num_buckets = moved.tbl.log2_num_buckets
       /\ x.tbl.num_items = moved.tbl.num_items /\ x.tbl.tail = moved.tbl.tail
       /\ x.tbl.ideal_chain_maxlen = moved.tbl.ideal_chain_maxlen
  <2>1. \E no \in BOOLEAN :
          x = Counted(moved, ineff, no)
    <3>1. (moved.tbl.noexpand \/ ineff > 1) \in BOOLEAN
      OBVIOUS
    <3> QED
      BY <1>13, <3>1 DEF Counted
  <2>2. PICK no \in BOOLEAN :
          x = Counted(moved, ineff, no)
    BY <2>1
  <2> QED
    BY <1>1, <1>19, <1>20, <2>2, CountExpansion
<1>22. (\E D : ChainsOf(x, n2, P, D)) /\ OffChains(x, P) /\ MultIsShare(x, n2)
  BY <1>18, <1>19, <1>21 DEF ChainsOf, OffChains, MultIsShare
<1> QED
  BY <1>5, <1>19, <1>21, <1>22 DEF SameTotals, n2

-----------------------------------------------------------------------------
(* How long chains are *)

(* The sums t of the first values of f. *)
IsSum(t, f, n) ==
  t \in [0..n -> Nat] /\ t[0] = 0 /\ \A k \in 1..n : t[k] = t[k - 1] + f[k - 1]

(* Every function to the naturals has its sums. *)
LEMMA SumExists ==
  ASSUME NEW n \in Nat, NEW f \in [0..n - 1 -> Nat]
  PROVE  \E t : IsSum(t, f, n)
<1> DEFINE step == [k \in 1..n |-> [x \in Nat |-> x + f[k - 1]]]
<1>1. \A k \in 1..n : k - 1 \in 0..n - 1 /\ k - 1 \in 0..n
  OBVIOUS
<1>2. \A k \in 1..n : \A x \in Nat : x + f[k - 1] \in Nat
  <2> SUFFICES ASSUME NEW k \in 1..n, NEW x \in Nat PROVE x + f[k - 1] \in Nat
    OBVIOUS
  <2>1. f[k - 1] \in Nat
    BY <1>1
  <2> QED
    BY <2>1
<1>3. step \in [1..n -> [Nat -> Nat]]
  BY <1>2
<1>4. \E t \in [0..n -> Nat] : IsLoop(t, n, 0, step)
  <2> HIDE DEF step
  <2> QED
    BY <1>3, LoopExists
<1>5. PICK t \in [0..n -> Nat] : t = [k \in 0..n |-> IF k = 0 THEN 0 ELSE step[k][t[k - 1]]]
  BY <1>4 DEF IsLoop
<1>6. 0 \in 0..n /\ \A k \in 1..n : k # 0 /\ k \in 0..n
  OBVIOUS
<1>7. t[0] = 0
  BY <1>5, <1>6
<1>8. \A k \in 1..n : t[k] = step[k][t[k - 1]]
  <2> HIDE DEF step
  <2> QED
    BY <1>5, <1>6
<1>9. \A k \in 1..n : t[k] = t[k - 1] + f[k - 1]
  <2>1. \A k \in 1..n : t[k - 1] \in Nat
    BY <1>1
  <2> QED
    BY <1>8, <2>1
<1> QED
  BY <1>7, <1>9 DEF IsSum

(* Where each f is less than T for one more than w, so are the sums. *)
LEMMA SumBelow ==
  ASSUME NEW n \in Nat, NEW T \in Nat,
         NEW f \in [0..n - 1 -> Nat], NEW w \in [0..n - 1 -> Nat],
         \A b \in 0..n - 1 : f[b] < (w[b] + 1) * T,
         NEW s, IsSum(s, f, n), NEW t, IsSum(t, w, n)
  PROVE  s[n] + n <= (t[n] + n) * T
<1> DEFINE S == {k \in 0..n : s[k] + k <= (t[k] + k) * T}
<1>1. /\ s \in [0..n -> Nat] /\ s[0] = 0 /\ \A k \in 1..n : s[k] = s[k - 1] + f[k - 1]
      /\ t \in [0..n -> Nat] /\ t[0] = 0 /\ \A k \in 1..n : t[k] = t[k - 1] + w[k - 1]
  BY DEF IsSum
<1>2. 0 \in S
  <2>1. 0 \in 0..n /\ s[0] + 0 = 0 /\ t[0] + 0 = 0 /\ 0 * T = 0
    BY <1>1
  <2> QED
    BY <2>1
<1>3. ASSUME NEW k \in 0..(n - 1), k \in S PROVE k + 1 \in S
  <2>1. k + 1 \in 1..n /\ k + 1 \in 0..n /\ (k + 1) - 1 = k /\ k \in 0..n /\ k \in 0..n - 1
    OBVIOUS
  <2>2. s[k + 1] = s[k] + f[k] /\ t[k + 1] = t[k] + w[k]
    BY <1>1, <2>1
  <2>3. f[k] < (w[k] + 1) * T /\ s[k] + k <= (t[k] + k) * T
    BY <1>3, <2>1
  <2> DEFINE a == s[k]
  <2> DEFINE c == f[k]
  <2> DEFINE u == t[k]
  <2> DEFINE v == w[k]
  <2>4. a \in Nat /\ c \in Nat /\ u \in Nat /\ v \in Nat /\ k \in Nat
    BY <1>1, <2>1
  <2> HIDE DEF a, c, u, v
  <2>5. (u + v + (k + 1)) * T = (u + k) * T + (v + 1) * T
    BY <2>4
  <2>6. (u + k) * T \in Nat /\ (v + 1) * T \in Nat
    BY <2>4
  <2>7. (a + c) + (k + 1) <= (u + v + (k + 1)) * T
    <3>1. c < (v + 1) * T /\ a + k <= (u + k) * T
      BY <2>3 DEF a, c, u, v
    <3> DEFINE y == (v + 1) * T
    <3> DEFINE z == (u + k) * T
    <3> HIDE DEF y, z
    <3>2. y \in Nat /\ z \in Nat /\ c < y /\ a + k <= z /\ (u + v + (k + 1)) * T = z + y
      BY <2>5, <2>6, <3>1 DEF y, z
    <3>3. (a + c) + (k + 1) <= z + y
      BY <2>4, <3>2
    <3> QED
      BY <3>2, <3>3
  <2>8. s[k + 1] + (k + 1) <= (t[k + 1] + (k + 1)) * T
    BY <2>2, <2>7 DEF a, c, u, v
  <2> QED
    BY <2>1, <2>8
<1>4. n \in S
  <2>1. n \in 0..n
    OBVIOUS
  <2> HIDE DEF S
  <2> QED
    BY <1>2, <1>3, <2>1, InductionTo
<1> QED
  BY <1>4

(* Where each f is at least a multiple of w, so are the sums. *)
LEMMA SumAbove ==
  ASSUME NEW n \in Nat, NEW T \in Nat,
         NEW f \in [0..n - 1 -> Nat], NEW w \in [0..n - 1 -> Nat],
         \A b \in 0..n - 1 : T * w[b] <= f[b],
         NEW s, IsSum(s, f, n), NEW t, IsSum(t, w, n)
  PROVE  T * t[n] <= s[n]
<1> DEFINE S == {k \in 0..n : T * t[k] <= s[k]}
<1>1. /\ s \in [0..n -> Nat] /\ s[0] = 0 /\ \A k \in 1..n : s[k] = s[k - 1] + f[k - 1]
      /\ t \in [0..n -> Nat] /\ t[0] = 0 /\ \A k \in 1..n : t[k] = t[k - 1] + w[k - 1]
  BY DEF IsSum
<1>2. 0 \in S
  <2>1. 0 \in 0..n /\ s[0] = 0 /\ T * t[0] = 0
    BY <1>1
  <2> QED
    BY <2>1
<1>3. ASSUME NEW k \in 0..(n - 1), k \in S PROVE k + 1 \in S
  <2>1. k + 1 \in 1..n /\ k + 1 \in 0..n /\ (k + 1) - 1 = k /\ k \in 0..n /\ k \in 0..n - 1
    OBVIOUS
  <2>2. s[k + 1] = s[k] + f[k] /\ t[k + 1] = t[k] + w[k]
    BY <1>1, <2>1
  <2>3. T * w[k] <= f[k] /\ T * t[k] <= s[k]
    BY <1>3, <2>1
  <2>4. s[k] \in Nat /\ f[k] \in Nat /\ t[k] \in Nat /\ w[k] \in Nat
    BY <1>1, <2>1
  <2>5. T * (t[k] + w[k]) = T * t[k] + T * w[k] /\ T * t[k] \in Nat /\ T * w[k] \in Nat
    BY <2>4
  <2>6. T * (t[k] + w[k]) <= s[k] + f[k]
    <3> DEFINE y == T * t[k]
    <3> DEFINE z == T * w[k]
    <3> HIDE DEF y, z
    <3>1. y \in Nat /\ z \in Nat /\ y <= s[k] /\ z <= f[k] /\ T * (t[k] + w[k]) = y + z
      BY <2>3, <2>5 DEF y, z
    <3>2. y + z <= s[k] + f[k]
      BY <2>4, <3>1
    <3> QED
      BY <3>1, <3>2
  <2> QED
    BY <2>1, <2>2, <2>6
<1>4. n \in S
  <2>1. n \in 0..n
    OBVIOUS
  <2> HIDE DEF S
  <2> QED
    BY <1>2, <1>3, <2>1, InductionTo
<1> QED
  BY <1>4

(* The lengths of the buckets' chains. *)
Counts(s, n) == [b \in 0..n - 1 |-> s.tbl.buckets[b].count]

(* They add up to the number of entries. *)
LEMMA CountsAddUp ==
  ASSUME NEW n \in Nat \ {0}, NEW s \in States(n), NEW P \in SUBSET Entry,
         NEW C, ChainsOf(s, n, P, C), NEW t, IsSum(t, Counts(s, n), n)
  PROVE  IsFiniteSet(P) /\ t[n] = Cardinality(P)
<1> DEFINE first(k) == {x \in P : ToBkt(x, n) < k}
<1> DEFINE in(k) == {x \in P : ToBkt(x, n) = k}
<1> DEFINE S == {k \in 0..n : IsFiniteSet(first(k)) /\ t[k] = Cardinality(first(k))}
<1>1. /\ t \in [0..n -> Nat] /\ t[0] = 0
      /\ \A k \in 1..n : t[k] = t[k - 1] + Counts(s, n)[k - 1]
  BY DEF IsSum
<1>2. \A x \in Entry : ToBkt(x, n) \in 0..n - 1
  BY ToBktRange
<1>3. /\ C \in [0..n - 1 -> Seq(Entry)]
      /\ \A b \in 0..n - 1 : Injects(C[b])
      /\ \A b \in 0..n - 1 : s.tbl.buckets[b].count = Len(C[b])
      /\ \A b \in 0..n - 1 : \A x \in Entry : Contains(C[b], x) <=> x \in P /\ ToBkt(x, n) = b
  BY DEF ChainsOf, Chains, IsList
<1>4. 0 \in S
  <2>1. first(0) = {}
    BY <1>2
  <2>2. IsFiniteSet({}) /\ Cardinality({}) = 0
    BY FS_EmptySet
  <2>3. 0 \in 0..n
    OBVIOUS
  <2> QED
    BY <1>1, <2>1, <2>2, <2>3
<1>5. ASSUME NEW k \in 0..(n - 1), k \in S PROVE k + 1 \in S
  <2>1. k + 1 \in 1..n /\ k + 1 \in 0..n /\ (k + 1) - 1 = k /\ k \in 0..n /\ k \in 0..n - 1
    OBVIOUS
  <2>2. t[k + 1] = t[k] + Len(C[k])
    BY <1>1, <1>3, <2>1 DEF Counts
  <2>3. IsFiniteSet(first(k)) /\ t[k] = Cardinality(first(k))
    BY <1>5
  <2>4. IsFiniteSet(in(k)) /\ Cardinality(in(k)) = Len(C[k])
    <3>1. in(k) \in SUBSET Entry
      OBVIOUS
    <3>2. C[k] \in Seq(Entry) /\ Injects(C[k]) /\ \A x \in Entry : Contains(C[k], x) <=> x \in in(k)
      BY <1>3, <2>1
    <3> HIDE DEF in
    <3> QED
      BY <3>1, <3>2, LengthIsCardinality
  <2>5. first(k + 1) = first(k) \union in(k) /\ first(k) \cap in(k) = {}
    BY <1>2, <2>1
  <2> HIDE DEF first, in
  <2>6. /\ IsFiniteSet(first(k) \union in(k))
        /\ Cardinality(first(k) \union in(k)) =
             Cardinality(first(k)) + Cardinality(in(k)) - Cardinality(first(k) \cap in(k))
    BY <2>3, <2>4, FS_Union
  <2>7. Cardinality({}) = 0
    BY FS_EmptySet
  <2>8. t[k] \in Nat /\ Len(C[k]) \in Nat
    BY <1>1, <1>3, <2>1, EntrySeq
  <2>9. Cardinality(first(k + 1)) = t[k] + Len(C[k]) - 0 /\ IsFiniteSet(first(k + 1))
    BY <2>3, <2>4, <2>5, <2>6, <2>7
  <2>10. t[k] + Len(C[k]) - 0 = t[k] + Len(C[k])
    BY <2>8
  <2> QED
    BY <2>1, <2>2, <2>9, <2>10
<1>6. n \in S
  <2>1. n \in 0..n
    OBVIOUS
  <2> HIDE DEF S
  <2> QED
    BY <1>4, <1>5, <2>1, InductionTo
<1>7. first(n) = P
  BY <1>2
<1> QED
  BY <1>6, <1>7

(* One more of a factor. *)
LEMMA TimesNext ==
  ASSUME NEW a \in Nat, NEW b \in Nat
  PROVE  a * (b + 1) = b * a + a /\ (b + 1) * a = a * b + a
<1>1. a * (b + 1) = a * b + a
  OBVIOUS
<1>2. (b + 1) * a = b * a + a
  OBVIOUS
<1>3. a * b = b * a
  OBVIOUS
<1> QED
  BY <1>1, <1>2, <1>3

(* A way to see the lengths the buckets allow: w is what each bucket is      *)
(* allowed more than once, all of them together at most once for each        *)
(* bucket.                                                                   *)
Within(s, n) ==
  \E w \in [0..n - 1 -> Nat], t \in [0..n -> Nat] :
    /\ IsSum(t, w, n) /\ t[n] <= n
    /\ \A b \in 0..n - 1 :
         /\ s.tbl.buckets[b].expand_mult <= w[b]
         /\ s.tbl.buckets[b].count < (w[b] + 1) * HASH_BKT_CAPACITY_THRESH
         /\ s.tbl.buckets[b].count <=
              (s.tbl.buckets[b].expand_mult + 1) * HASH_BKT_CAPACITY_THRESH

(* The counts of the buckets are naturals. *)
LEMMA CountsType ==
  ASSUME NEW n \in Nat, NEW s \in States(n)
  PROVE  Counts(s, n) \in [0..n - 1 -> Nat]
<1>1. \A b \in 0..n - 1 : s.tbl.buckets[b].count \in Nat
  BY StateFields
<1> QED
  BY <1>1 DEF Counts

(* With such lengths twice the buckets have room for one entry more, without *)
(* any chain longer than the capacity.                                       *)
LEMMA RoomForOne ==
  ASSUME NEW n \in Nat \ {0}, NEW s \in States(n), NEW P \in SUBSET Entry,
         NEW C, ChainsOf(s, n, P, C), Within(s, n)
  PROVE  Cardinality(P) + 1 <= 2 * n * HASH_BKT_CAPACITY_THRESH
<1> DEFINE T == HASH_BKT_CAPACITY_THRESH
<1> DEFINE c == Counts(s, n)
<1>1. c \in [0..n - 1 -> Nat] /\ \A b \in 0..n - 1 : c[b] = s.tbl.buckets[b].count
  BY CountsType DEF Counts
<1>2. T \in Nat
  BY UtHashAssumption
<1>3. PICK w \in [0..n - 1 -> Nat], t \in [0..n -> Nat] :
        /\ IsSum(t, w, n) /\ t[n] <= n
        /\ \A b \in 0..n - 1 : s.tbl.buckets[b].count < (w[b] + 1) * T
  BY DEF Within
<1> HIDE DEF c, T
<1>4. PICK sum : IsSum(sum, c, n)
  BY <1>1, SumExists
<1>5. Cardinality(P) = sum[n]
  BY <1>4, CountsAddUp DEF c
<1>6. \A b \in 0..n - 1 : c[b] < (w[b] + 1) * T
  BY <1>1, <1>3
<1>7. sum[n] + n <= (t[n] + n) * T
  BY <1>1, <1>2, <1>3, <1>4, <1>6, SumBelow
<1>8. n \in 0..n /\ n >= 1 /\ sum[n] \in Nat /\ t[n] \in Nat
  BY <1>3, <1>4 DEF IsSum
<1>9. (t[n] + n) * T <= 2 * n * T
  <2> DEFINE u == t[n]
  <2> HIDE DEF u
  <2>1. u \in Nat /\ u <= n
    BY <1>3, <1>8 DEF u
  <2>2. (u + n) * T <= (n + n) * T
    BY <1>2, <2>1
  <2>3. (n + n) * T = 2 * n * T
    BY <1>2
  <2> QED
    BY <2>2, <2>3 DEF u
<1>10. sum[n] + 1 <= 2 * n * T
  <2> DEFINE y == (t[n] + n) * T
  <2> DEFINE z == 2 * n * T
  <2>1. y \in Nat /\ z \in Nat
    BY <1>2, <1>8
  <2> HIDE DEF y, z
  <2>2. sum[n] + n <= y /\ y <= z
    BY <1>7, <1>9 DEF y, z
  <2>3. sum[n] + 1 <= z
    BY <1>8, <2>1, <2>2
  <2> QED
    BY <2>3 DEF z
<1> QED
  BY <1>5, <1>10 DEF T

(* An expansion to n buckets leaves them within such lengths, if its ideal   *)
(* chain is no longer than the capacity.                                     *)
LEMMA WithinOnceExpanded ==
  ASSUME NEW n \in Nat \ {0}, NEW s \in States(n), NEW P \in SUBSET Entry,
         NEW C, ChainsOf(s, n, P, C), MultIsShare(s, n),
         NEW ideal \in Nat \ {0}, ideal = s.tbl.ideal_chain_maxlen,
         ideal <= HASH_BKT_CAPACITY_THRESH, Cardinality(P) <= n * ideal
  PROVE  Within(s, n)
<1> DEFINE T == HASH_BKT_CAPACITY_THRESH
<1> DEFINE c == Counts(s, n)
<1> DEFINE w == [b \in 0..n - 1 |-> c[b] \div ideal]
<1>1. c \in [0..n - 1 -> Nat] /\ \A b \in 0..n - 1 : c[b] = s.tbl.buckets[b].count
  BY CountsType DEF Counts
<1>2. T \in Nat
  BY UtHashAssumption
<1> HIDE DEF c
<1>3. \A b \in 0..n - 1 : /\ c[b] \div ideal \in Nat
                          /\ ideal * (c[b] \div ideal) <= c[b]
                          /\ c[b] < ideal * (c[b] \div ideal) + ideal
  <2> SUFFICES ASSUME NEW b \in 0..n - 1
               PROVE  /\ c[b] \div ideal \in Nat
                      /\ ideal * (c[b] \div ideal) <= c[b]
                      /\ c[b] < ideal * (c[b] \div ideal) + ideal
    OBVIOUS
  <2> DEFINE x == c[b]
  <2>1. x \in Nat
    BY <1>1
  <2> HIDE DEF x
  <2>2. x \div ideal \in Nat /\ ideal * (x \div ideal) <= x /\ x < ideal * (x \div ideal) + ideal
    BY <2>1, DivType
  <2> QED
    BY <2>2 DEF x
<1>4. w \in [0..n - 1 -> Nat] /\ \A b \in 0..n - 1 : w[b] = c[b] \div ideal
  BY <1>3
<1> HIDE DEF w, T
<1>5. PICK t : IsSum(t, w, n)
  BY <1>4, SumExists
<1>6. PICK sum : IsSum(sum, c, n)
  BY <1>1, SumExists
<1>7. Cardinality(P) = sum[n]
  BY <1>6, CountsAddUp DEF c
<1>8. \A b \in 0..n - 1 : ideal * w[b] <= c[b]
  BY <1>3, <1>4
<1>9. ideal * t[n] <= sum[n]
  BY <1>1, <1>4, <1>5, <1>6, <1>8, SumAbove
<1>10. t[n] <= n
  <2> DEFINE u == t[n]
  <2>1. u \in Nat /\ sum[n] \in Nat
    <3>1. n \in 0..n
      OBVIOUS
    <3> QED
      BY <1>5, <1>6, <3>1 DEF IsSum
  <2> HIDE DEF u
  <2> SUFFICES ASSUME n + 1 <= u PROVE FALSE
    BY <2>1 DEF u
  <2>2. ideal * (n + 1) <= ideal * u
    BY <2>1
  <2>3. ideal * (n + 1) = n * ideal + ideal
    BY TimesNext
  <2> DEFINE y == ideal * u
  <2> DEFINE z == n * ideal
  <2>4. y \in Nat /\ z \in Nat
    BY <2>1
  <2>5. y <= z /\ z + ideal <= y
    <3>1. y <= sum[n] /\ sum[n] <= z
      BY <1>7, <1>9 DEF u
    <3> HIDE DEF y, z
    <3>2. y <= z
      BY <2>1, <2>4, <3>1
    <3> QED
      BY <2>2, <2>3, <3>2 DEF y, z
  <2> HIDE DEF y, z
  <2> QED
    BY <2>4, <2>5
<1>11. ASSUME NEW b \in 0..n - 1
       PROVE  /\ s.tbl.buckets[b].expand_mult <= w[b]
              /\ s.tbl.buckets[b].count < (w[b] + 1) * T
              /\ s.tbl.buckets[b].count <= (s.tbl.buckets[b].expand_mult + 1) * T
  <2> DEFINE x == c[b]
  <2> DEFINE v == w[b]
  <2>1. x \in Nat /\ v \in Nat /\ s.tbl.buckets[b].count = x
    BY <1>1, <1>4
  <2>2. x < ideal * v + ideal
    BY <1>3, <1>4
  <2>3. s.tbl.buckets[b].expand_mult = IF x > ideal THEN v ELSE 0
    BY <1>4, <2>1 DEF MultIsShare
  <2> HIDE DEF x, v
  <2>4. ideal <= T
    BY DEF T
  <2>5. (v + 1) * ideal <= (v + 1) * T
    BY <1>2, <2>1, <2>4
  <2>6. ideal * v + ideal = (v + 1) * ideal
    BY <2>1, TimesNext
  <2>7. (v + 1) * ideal \in Nat /\ (v + 1) * T \in Nat
    BY <1>2, <2>1
  <2>8. x < (v + 1) * T
    <3> DEFINE y == (v + 1) * ideal
    <3> DEFINE z == (v + 1) * T
    <3>1. y \in Nat /\ z \in Nat /\ x < y /\ y <= z
      BY <2>2, <2>5, <2>6, <2>7
    <3> HIDE DEF y, z
    <3>2. x < z
      BY <2>1, <3>1
    <3> QED
      BY <3>2 DEF z
  <2>9. CASE x > ideal
    <3>1. s.tbl.buckets[b].expand_mult = v
      BY <2>3, <2>9
    <3>2. v <= v /\ x <= (v + 1) * T
      BY <2>1, <2>7, <2>8
    <3> QED
      BY <2>1, <2>8, <3>1, <3>2 DEF v
  <2>10. CASE ~(x > ideal)
    <3>1. s.tbl.buckets[b].expand_mult = 0
      BY <2>3, <2>10
    <3>2. 0 <= v /\ x <= (0 + 1) * T
      BY <1>2, <2>1, <2>4, <2>10
    <3> QED
      BY <2>1, <2>8, <3>1, <3>2 DEF v
  <2> QED
    BY <2>9, <2>10
<1>12. t \in [0..n -> Nat]
  BY <1>5 DEF IsSum
<1> QED
  BY <1>4, <1>5, <1>10, <1>11, <1>12 DEF Within, T

-----------------------------------------------------------------------------
(* Adding an entry *)

(* A table of n buckets for the entries P, of exact counts and within the    *)
(* lengths that its buckets allow.                                           *)
Indexed(s, n, P) ==
  /\ n \in Nat \ {0} /\ s \in States(n) /\ n = 2^s.tbl.log2_num_buckets
  /\ \E C : ChainsOf(s, n, P, C)
  /\ s.tbl.num_items = Cardinality(P)
  /\ ~s.tbl.noexpand => Within(s, n)

(* One more item, as HASH_ADD_TO_TABLE counts it. *)
OneMore(s) == [s EXCEPT !.tbl.num_items = @ + 1]

(* It changes the number of items alone. *)
LEMMA OneMoreChanges ==
  ASSUME NEW n \in Nat, NEW s \in States(n), NEW x, x = OneMore(s)
  PROVE  /\ x \in States(n) /\ x.hh = s.hh /\ x.tbl.buckets = s.tbl.buckets
         /\ x.tbl.log2_num_buckets = s.tbl.log2_num_buckets
         /\ x.tbl.num_items = s.tbl.num_items + 1 /\ x.tbl.tail = s.tbl.tail
         /\ x.tbl.noexpand = s.tbl.noexpand
<1>1. s.tbl \in Tables(n) /\ s.tbl.num_items + 1 \in Nat
  BY StateFields DEF Tables
<1>2. x.tbl = [s.tbl EXCEPT !.num_items = s.tbl.num_items + 1]
  BY <1>1 DEF OneMore, States, Tables
<1>3. x.hh = s.hh /\ DOMAIN x = {"tbl", "hh"}
  BY DEF OneMore, States
<1>4. /\ x.tbl \in Tables(n) /\ x.tbl.buckets = s.tbl.buckets
      /\ x.tbl.log2_num_buckets = s.tbl.log2_num_buckets
      /\ x.tbl.num_items = s.tbl.num_items + 1 /\ x.tbl.tail = s.tbl.tail
      /\ x.tbl.noexpand = s.tbl.noexpand
  BY <1>1, <1>2 DEF Tables
<1> QED
  BY <1>3, <1>4 DEF States, OneMore

(* HASH_ADD_TO_TABLE and HASH_ADD_TO_BKT keep all that a table must be,      *)
(* whether they expand it or not.                                            *)
LEMMA AddedResult ==
  ASSUME NEW n, NEW s, NEW P \in SUBSET Entry, Indexed(s, n, P), OffChains(s, P),
         NEW e \in Entry, e \notin P, NEW x, x = Added(s, e)
  PROVE  /\ \E k : Indexed(x, k, P \union {e})
         /\ OffChains(x, P \union {e})
         /\ x.tbl.tail = s.tbl.tail /\ x.hh.next = s.hh.next /\ x.hh.prev = s.hh.prev
<1> DEFINE o == OneMore(s)
<1> DEFINE b == ToBkt(e, n)
<1> DEFINE p == PutFirst(o, b, e)
<1> DEFINE Q == P \union {e}
<1> DEFINE T == HASH_BKT_CAPACITY_THRESH
<1>1. /\ n \in Nat \ {0} /\ n \in Nat /\ s \in States(n) /\ n = 2^s.tbl.log2_num_buckets
      /\ s.tbl.num_items = Cardinality(P)
      /\ ~s.tbl.noexpand => Within(s, n)
  BY DEF Indexed
<1>2. PICK C : ChainsOf(s, n, P, C)
  BY DEF Indexed
<1>3. /\ o \in States(n) /\ o.hh = s.hh /\ o.tbl.buckets = s.tbl.buckets
      /\ o.tbl.log2_num_buckets = s.tbl.log2_num_buckets
      /\ o.tbl.num_items = s.tbl.num_items + 1 /\ o.tbl.tail = s.tbl.tail
      /\ o.tbl.noexpand = s.tbl.noexpand
  <2> HIDE DEF o
  <2> QED
    BY <1>1, OneMoreChanges DEF o
<1>4. b \in 0..n - 1
  BY <1>1, ToBktRange
<1> DEFINE D == [C EXCEPT ![b] = << e >> \o C[b]]
<1> HIDE DEF o, b, D
<1>5. ChainsOf(o, n, P, C)
  BY <1>2, <1>3, ChainsSame
<1>6. ChainsOf(p, n, Q, D)
  BY <1>1, <1>3, <1>5, PutFirstChains DEF b, D
<1>7. OffChains(p, Q)
  <2>1. OffChains(o, Q)
    BY <1>3 DEF OffChains
  <2>2. P \subseteq Q /\ e \in Q
    OBVIOUS
  <2> HIDE DEF Q
  <2> QED
    BY <1>1, <1>3, <1>5, <2>1, <2>2, PutFirstOffChains DEF b
<1>8. /\ p \in States(n) /\ SameTotals(o, p)
      /\ \A i \in 0..n - 1 : i # b => p.tbl.buckets[i] = o.tbl.buckets[i]
      /\ p.tbl.buckets[b].count = o.tbl.buckets[b].count + 1
      /\ p.tbl.buckets[b].expand_mult = o.tbl.buckets[b].expand_mult
  <2> DEFINE first == o.tbl.buckets[b].hh_head
  <2>1. p = PutFirst(o, b, e) /\ first = o.tbl.buckets[b].hh_head
    OBVIOUS
  <2>2. n \in Nat /\ o \in States(n) /\ b \in 0..n - 1 /\ e \in Entry
    BY <1>1, <1>3, <1>4
  <2> HIDE DEF p, first
  <2> QED
    BY <2>1, <2>2, PutFirstChanges
<1>9. IsFiniteSet(P) /\ Cardinality(Q) = Cardinality(P) + 1 /\ Cardinality(P) \in Nat
  <2>1. PICK t : IsSum(t, Counts(s, n), n)
    BY <1>1, CountsType, SumExists
  <2>2. IsFiniteSet(P)
    BY <1>1, <1>2, <2>1, CountsAddUp
  <2>3. Cardinality(P) \in Nat
    BY <2>2, FS_CardinalityType
  <2>4. Cardinality(P \union {e}) = IF e \in P THEN Cardinality(P) ELSE Cardinality(P) + 1
    BY <2>2, FS_AddElement
  <2> QED
    BY <2>2, <2>3, <2>4
<1>10. /\ p.tbl.num_items = Cardinality(Q) /\ p.tbl.num_items \in Nat
       /\ p.tbl.log2_num_buckets = s.tbl.log2_num_buckets
       /\ p.tbl.tail = s.tbl.tail /\ p.tbl.noexpand = s.tbl.noexpand
       /\ p.hh.next = s.hh.next /\ p.hh.prev = s.hh.prev
  BY <1>1, <1>3, <1>8, <1>9 DEF SameTotals
<1>11. s.tbl.num_buckets = n
  BY <1>1, StateFields
<1> DEFINE bkt == p.tbl.buckets[b]
<1> DEFINE full == bkt.count >= (bkt.expand_mult + 1) * T /\ ~p.tbl.noexpand
<1>12. x = IF full THEN Expanded(p) ELSE p
  BY <1>11 DEF Added, b, o, OneMore
<1>13. Q \in SUBSET Entry
  OBVIOUS
<1> HIDE DEF p, Q
<1>14. CASE full
  <2> DEFINE ideal == IdealChain(p.tbl)
  <2>1. x = Expanded(p) /\ Within(s, n)
    BY <1>1, <1>10, <1>12, <1>14
  <2>2. Cardinality(P) + 1 <= 2 * n * T
    BY <1>1, <1>2, <2>1, RoomForOne
  <2>3. n = 2^p.tbl.log2_num_buckets /\ p.tbl.num_items # 0 /\ p.tbl \in Tables(n)
    <3>1. p.tbl \in Tables(n)
      BY <1>1, <1>8, StateFields
    <3> QED
      BY <1>1, <1>9, <1>10, <3>1
  <2> HIDE DEF full
  <2>4. ideal \in Nat /\ ideal # 0 /\ p.tbl.num_items <= 2 * n * ideal /\ ideal <= T
    <3>1. /\ ideal \in Nat /\ ideal # 0 /\ p.tbl.num_items <= 2 * n * ideal
          /\ \A cap \in Nat : p.tbl.num_items <= 2 * n * cap => ideal <= cap
      <4> HIDE DEF ideal
      <4> QED
        BY <1>1, <2>3, IdealChainHolds DEF ideal
    <3>2. T \in Nat /\ p.tbl.num_items <= 2 * n * T
      BY <1>9, <1>10, <2>2, UtHashAssumption
    <3> QED
      BY <3>1, <3>2
  <2>5. /\ x \in States(2 * n)
        /\ \E E : ChainsOf(x, 2 * n, Q, E)
        /\ OffChains(x, Q)
        /\ x.tbl.log2_num_buckets = p.tbl.log2_num_buckets + 1
        /\ x.tbl.num_items = p.tbl.num_items /\ x.tbl.tail = p.tbl.tail
        /\ x.hh.next = p.hh.next /\ x.hh.prev = p.hh.prev
        /\ x.tbl.ideal_chain_maxlen = ideal
        /\ MultIsShare(x, 2 * n)
    BY <1>1, <1>6, <1>7, <1>8, <1>13, <2>1, <2>3, ExpandedResult
  <2> HIDE DEF ideal, T
  <2>6. PICK E : ChainsOf(x, 2 * n, Q, E)
    BY <2>5
  <2> DEFINE n2 == 2 * n
  <2>7. n2 \in Nat \ {0}
    BY <1>1
  <2>8. Cardinality(Q) <= n2 * ideal /\ ideal \in Nat \ {0}
    BY <1>10, <2>4
  <2>9. x \in States(n2) /\ ChainsOf(x, n2, Q, E) /\ MultIsShare(x, n2)
    BY <2>5, <2>6
  <2>10. n2 = 2^x.tbl.log2_num_buckets
    <3>1. p.tbl.log2_num_buckets \in Nat
      BY <2>3 DEF Tables
    <3>2. 2^(p.tbl.log2_num_buckets + 1) = 2 * 2^p.tbl.log2_num_buckets
      BY <3>1, PowerDoubles
    <3> QED
      BY <2>3, <2>5, <3>2
  <2> HIDE DEF n2
  <2>11. Within(x, n2)
    BY <1>13, <2>4, <2>5, <2>7, <2>8, <2>9, WithinOnceExpanded DEF T
  <2>12. Indexed(x, n2, Q)
    BY <1>10, <2>5, <2>7, <2>9, <2>10, <2>11 DEF Indexed
  <2> QED
    BY <1>10, <2>5, <2>12 DEF Q
<1>15. CASE ~full
  <2>1. x = p
    BY <1>12, <1>15
  <2>2. ASSUME ~p.tbl.noexpand PROVE Within(p, n)
    <3>1. PICK w \in [0..n - 1 -> Nat], t \in [0..n -> Nat] :
            /\ IsSum(t, w, n) /\ t[n] <= n
            /\ \A i \in 0..n - 1 :
                 /\ s.tbl.buckets[i].expand_mult <= w[i]
                 /\ s.tbl.buckets[i].count < (w[i] + 1) * T
                 /\ s.tbl.buckets[i].count <= (s.tbl.buckets[i].expand_mult + 1) * T
      BY <1>1, <1>10, <2>2 DEF Within
    <3> DEFINE c == bkt.count
    <3> DEFINE m == bkt.expand_mult
    <3>2. c \in Nat /\ m \in Nat /\ w[b] \in Nat /\ m <= w[b] /\ T \in Nat
      <4>1. c \in Nat /\ m \in Nat
        BY <1>1, <1>4, <1>8, StateFields
      <4> QED
        BY <1>3, <1>4, <1>8, <3>1, <4>1, UtHashAssumption
    <3>3. ~(c >= (m + 1) * T)
      BY <1>15, <2>2
    <3> HIDE DEF bkt, c, m, full, T
    <3>4. (m + 1) * T \in Nat /\ (w[b] + 1) * T \in Nat /\ (m + 1) * T <= (w[b] + 1) * T
      <4> DEFINE u == w[b]
      <4> HIDE DEF u
      <4>1. u \in Nat /\ m <= u
        BY <3>2 DEF u
      <4>2. (m + 1) * T <= (u + 1) * T
        BY <3>2, <4>1
      <4>3. (m + 1) * T \in Nat /\ (u + 1) * T \in Nat
        BY <3>2, <4>1
      <4> QED
        BY <4>2, <4>3 DEF u
    <3>5. c < (w[b] + 1) * T /\ c <= (m + 1) * T
      <4> DEFINE y == (m + 1) * T
      <4> DEFINE z == (w[b] + 1) * T
      <4>1. y \in Nat /\ z \in Nat /\ y <= z /\ ~(c >= y)
        BY <3>3, <3>4
      <4> HIDE DEF y, z
      <4>2. c < z /\ c <= y
        BY <3>2, <4>1
      <4> QED
        BY <4>2 DEF y, z
    <3>6. ASSUME NEW i \in 0..n - 1
          PROVE  /\ p.tbl.buckets[i].expand_mult <= w[i]
                 /\ p.tbl.buckets[i].count < (w[i] + 1) * T
                 /\ p.tbl.buckets[i].count <= (p.tbl.buckets[i].expand_mult + 1) * T
      <4>1. CASE i = b
        BY <3>2, <3>5, <4>1 DEF c, m, bkt
      <4>2. CASE i # b
        BY <1>3, <1>8, <3>1, <4>2
      <4> QED
        BY <4>1, <4>2
    <3> QED
      BY <3>1, <3>6 DEF Within, T
  <2>3. Indexed(p, n, Q)
    BY <1>1, <1>6, <1>8, <1>10, <2>2 DEF Indexed
  <2> QED
    BY <1>7, <1>10, <2>1, <2>3 DEF Q
<1> QED
  BY <1>14, <1>15

(* HASH_MAKE_TABLE makes a table without entries. *)
LEMMA NewTableIndexed ==
  ASSUME NEW e \in Entry, NEW h \in Links, NEW s, s = [tbl |-> NewTable(e), hh |-> h]
  PROVE  \E n : Indexed(s, n, {})
<1> DEFINE L == HASH_INITIAL_NUM_BUCKETS_LOG2
<1> DEFINE T == HASH_BKT_CAPACITY_THRESH
<1> DEFINE n == 2^L
<1> DEFINE t == NewTable(e)
<1>1. L \in Nat /\ T \in Nat \ {0}
  BY UtHashAssumption
<1>2. n \in Nat \ {0}
  BY <1>1, PowerDoubles
<1>3. /\ t.buckets = EmptyBuckets(n) /\ t.num_buckets = n /\ t.log2_num_buckets = L
      /\ t.num_items = 0
  BY DEF NewTable, NoTable
<1> HIDE DEF n, L, T
<1>4. EmptyBuckets(n) \in [0..n - 1 -> Bucket] /\ ChainsOf(s, n, {}, [b \in 0..n - 1 |-> << >>])
  BY <1>2, <1>3, EmptyChains
<1>5. t \in Tables(n)
  <2> DEFINE bkts == EmptyBuckets(n)
  <2> DEFINE u == [NoTable EXCEPT !.buckets = bkts, !.num_buckets = n]
  <2> HIDE DEF bkts
  <2>1. t = [u EXCEPT !.tail = e, !.log2_num_buckets = L]
    BY DEF NewTable, NoTable, n, L, bkts
  <2>2. e \in Pointer
    BY DEF Pointer
  <2>3. u \in Tables(n)
    BY <1>4 DEF Tables, NoTable, bkts, Pointer
  <2> HIDE DEF t, u
  <2> QED
    BY <1>1, <2>1, <2>2, <2>3 DEF Tables
<1> HIDE DEF t
<1>6. s \in States(n) /\ s.tbl = t
  BY <1>5 DEF States, t
<1>7. Cardinality({}) = 0
  BY FS_EmptySet
<1>8. Within(s, n)
  <2> DEFINE w == [b \in 0..n - 1 |-> 0]
  <2> DEFINE z == [k \in 0..n |-> 0]
  <2>1. w \in [0..n - 1 -> Nat] /\ z \in [0..n -> Nat]
    OBVIOUS
  <2>2. IsSum(z, w, n) /\ z[n] <= n
    <3>1. \A k \in 1..n : k \in 0..n /\ k - 1 \in 0..n /\ k - 1 \in 0..n - 1
      BY <1>2
    <3>2. 0 \in 0..n /\ n \in 0..n /\ 0 <= n
      BY <1>2
    <3>3. \A k \in 1..n : z[k] = z[k - 1] + w[k - 1]
      BY <3>1
    <3> QED
      BY <2>1, <3>2, <3>3 DEF IsSum
  <2>3. \A b \in 0..n - 1 : w[b] = 0
    OBVIOUS
  <2>4. ASSUME NEW b \in 0..n - 1
        PROVE  /\ s.tbl.buckets[b].expand_mult <= w[b]
               /\ s.tbl.buckets[b].count < (w[b] + 1) * T
               /\ s.tbl.buckets[b].count <= (s.tbl.buckets[b].expand_mult + 1) * T
    <3>1. s.tbl.buckets[b].expand_mult = 0 /\ s.tbl.buckets[b].count = 0
      <4>1. EmptyBuckets(n)[b] = [hh_head |-> NULL, count |-> 0, expand_mult |-> 0]
        BY DEF EmptyBuckets
      <4>2. s.tbl.buckets = EmptyBuckets(n)
        BY <1>3, <1>6
      <4> QED
        BY <4>1, <4>2
    <3>2. 0 <= 0 /\ 0 < (0 + 1) * T /\ 0 <= (0 + 1) * T
      BY <1>1
    <3> QED
      BY <2>3, <3>1, <3>2
  <2> HIDE DEF w, z
  <2> QED
    BY <2>1, <2>2, <2>4 DEF Within, T
<1>9. \E C : ChainsOf(s, n, {}, C)
  BY <1>4
<1>10. Indexed(s, n, {})
  BY <1>2, <1>3, <1>6, <1>7, <1>8, <1>9 DEF Indexed, n, L
<1> QED
  BY <1>10

-----------------------------------------------------------------------------
(* The list of all entries *)

(* The entries P follow each other from first on, and others have no links   *)
(* of the list.                                                              *)
Enlisted(h, first, P, list) ==
  /\ list \in Seq(Entry)
  /\ IsList(first, h.next, h.prev, list)
  /\ \A x \in Entry : Contains(list, x) <=> x \in P
  /\ \A x \in Entry \ P : h.next[x] = NULL /\ h.prev[x] = NULL

(* The links that the first entry gets. *)
Unlinked(h, e, g) ==
  \A x \in Entry : /\ g.next[x] = IF x = e THEN NULL ELSE h.next[x]
                   /\ g.prev[x] = IF x = e THEN NULL ELSE h.prev[x]

(* The first entry of a list. *)
LEMMA EnlistedFirst ==
  ASSUME NEW h \in Links, NEW P \in SUBSET Entry, NEW list, Enlisted(h, NULL, P, list),
         NEW e \in Entry, NEW g, Unlinked(h, e, g)
  PROVE  P = {} /\ list = << >> /\ Enlisted(g, e, {e}, << e >>)
<1>1. /\ list \in Seq(Entry) /\ IsList(NULL, h.next, h.prev, list)
      /\ \A x \in Entry : Contains(list, x) <=> x \in P
      /\ \A x \in Entry \ P : h.next[x] = NULL /\ h.prev[x] = NULL
  BY DEF Enlisted
<1>2. list = << >>
  BY <1>1, EntrySeq DEF IsList
<1>3. P = {}
  <2>1. Len(<< >>) = 0
    OBVIOUS
  <2> QED
    BY <1>1, <1>2, <2>1 DEF Contains
<1> DEFINE s == << e >>
<1>4. s \in Seq(Entry) /\ Len(s) = 1 /\ s[1] = e /\ s # << >>
  OBVIOUS
<1> HIDE DEF s
<1>5. \A i \in 1..Len(s) : i = 1
  BY <1>4
<1>6. g.next[e] = NULL /\ g.prev[e] = NULL
  BY DEF Unlinked
<1>7. IsList(e, g.next, g.prev, s)
  BY <1>4, <1>5, <1>6 DEF IsList, Front, Injects, Linked, BackLinked
<1>8. \A x : Contains(s, x) <=> x = e
  <2>1. 1 \in 1..Len(s)
    BY <1>4
  <2> QED
    BY <1>4, <1>5, <2>1 DEF Contains
<1>9. \A x \in Entry : g.next[x] = NULL /\ g.prev[x] = NULL
  BY <1>1, <1>3 DEF Unlinked
<1> QED
  BY <1>2, <1>3, <1>4, <1>7, <1>8, <1>9 DEF Enlisted, s

(* An entry is put behind the last. *)
LEMMA EnlistedLast ==
  ASSUME NEW h \in Links, NEW first, NEW P \in SUBSET Entry, NEW list,
         Enlisted(h, first, P, list), first # NULL, NEW e \in Entry, e \notin P,
         NEW last, last = list[Len(list)],
         NEW g, BehindLast(h.next, h.prev, e, last, g.next, g.prev)
  PROVE  /\ Enlisted(g, first, P \union {e}, Append(list, e))
         /\ Append(list, e)[Len(Append(list, e))] = e
<1> DEFINE d == Append(list, e)
<1>1. /\ list \in Seq(Entry) /\ IsList(first, h.next, h.prev, list)
      /\ \A x \in Entry : Contains(list, x) <=> x \in P
      /\ \A x \in Entry \ P : h.next[x] = NULL /\ h.prev[x] = NULL
  BY DEF Enlisted
<1>2. list # << >> /\ ~Contains(list, e) /\ h.next \in Link /\ h.prev \in Link
  BY <1>1 DEF IsList, Front, Links
<1> DEFINE link2 == g.next
<1> DEFINE back2 == g.prev
<1>3. /\ d \in Seq(Entry) /\ Len(d) = Len(list) + 1 /\ d # << >> /\ d[Len(d)] = e
      /\ IsList(first, link2, back2, d)
      /\ \A x : Contains(d, x) <=> x = e \/ Contains(list, x)
  <2> DEFINE link == h.next
  <2> DEFINE back == h.prev
  <2>1. /\ e \in Entry /\ link \in Link /\ back \in Link /\ list \in Seq(Entry)
        /\ list # << >> /\ ~Contains(list, e) /\ IsList(first, link, back, list)
        /\ last = list[Len(list)] /\ BehindLast(link, back, e, last, link2, back2)
    BY <1>1, <1>2
  <2> HIDE DEF link2, back2, link, back
  <2> QED
    BY <2>1, ListAppended
<1>4. last \in P
  <2>1. Len(list) \in 1..Len(list)
    <3>1. Len(list) \in Nat /\ Len(list) # 0
      BY <1>1, <1>2, EntrySeq
    <3> QED
      BY <3>1
  <2>2. Contains(list, last) /\ last \in Entry
    BY <1>1, <2>1, EntrySeq DEF Contains
  <2> QED
    BY <1>1, <2>2
<1>5. \A x \in Entry \ (P \union {e}) : g.next[x] = NULL /\ g.prev[x] = NULL
  BY <1>1, <1>4 DEF BehindLast
<1>6. Enlisted(g, first, P \union {e}, d)
  BY <1>1, <1>3, <1>5 DEF Enlisted
<1> QED
  BY <1>3, <1>6

-----------------------------------------------------------------------------
(* Deleting an entry *)

(* What the links of a doubly linked list become when d is deleted and       *)
(* freed.                                                                    *)
Bypassed(link, back, d, link2, back2) ==
  \A x \in Entry :
    /\ link2[x] = IF x = d THEN NULL ELSE IF x = back[d] THEN link[d] ELSE link[x]
    /\ back2[x] = IF x = d THEN NULL ELSE IF x = link[d] THEN back[d] ELSE back[x]

(* The neighbours of an entry of a list are in that list. *)
LEMMA Neighbours ==
  ASSUME NEW c \in Seq(Entry), NEW first, NEW link, NEW back, IsList(first, link, back, c),
         NEW k \in 1..Len(c), NEW d, d = c[k]
  PROVE  /\ link[d] = NULL \/ Contains(c, link[d])
         /\ back[d] = NULL \/ Contains(c, back[d])
<1>1. Len(c) \in Nat
  BY EntrySeq
<1>2. link[d] = (IF k = Len(c) THEN NULL ELSE c[k + 1]) /\ back[d] = (IF k = 1 THEN NULL ELSE c[k - 1])
  BY DEF IsList, Linked, BackLinked
<1>3. (k # Len(c) => k + 1 \in 1..Len(c)) /\ (k # 1 => k - 1 \in 1..Len(c))
  BY <1>1
<1> QED
  BY <1>2, <1>3 DEF Contains

(* A list without the deleted entry, *)
LEMMA BypassedList ==
  ASSUME NEW link \in Link, NEW back \in Link, NEW c \in Seq(Entry), NEW k \in 1..Len(c),
         NEW first, IsList(first, link, back, c), NEW d, d = c[k],
         NEW link2, NEW back2, Bypassed(link, back, d, link2, back2)
  PROVE  IsList(IF d = first THEN link[d] ELSE first, link2, back2, Removed(c, k))
<1>1. /\ \A x \in Entry : x # d => link2[x] = IF x = back[d] THEN link[d] ELSE link[x]
      /\ \A x \in Entry : x # d => back2[x] = IF x = link[d] THEN back[d] ELSE back[x]
  BY DEF Bypassed
<1> QED
  BY <1>1, ListRemoved

(* and a list that the deleted entry was not on. *)
LEMMA BypassedOther ==
  ASSUME NEW link, NEW back, NEW c \in Seq(Entry), NEW a, IsList(a, link, back, c),
         NEW first, NEW o \in Seq(Entry), NEW k \in 1..Len(o), IsList(first, link, back, o),
         \A x \in Entry : ~(Contains(c, x) /\ Contains(o, x)),
         NEW d, d = o[k], NEW link2, NEW back2, Bypassed(link, back, d, link2, back2)
  PROVE  IsList(a, link2, back2, c)
<1>1. /\ link[d] = NULL \/ Contains(o, link[d])
      /\ back[d] = NULL \/ Contains(o, back[d])
  BY Neighbours
<1>2. Contains(o, d)
  BY DEF Contains
<1>3. ASSUME NEW x \in Entry, Contains(c, x) PROVE link2[x] = link[x] /\ back2[x] = back[x]
  <2>1. x # NULL /\ x # d /\ x # link[d] /\ x # back[d]
    BY <1>1, <1>2, <1>3, UtHashAssumption
  <2> QED
    BY <2>1 DEF Bypassed
<1> QED
  BY <1>3, ListUntouched

(* The list of all entries without one. *)
LEMMA EnlistedWithout ==
  ASSUME NEW h \in Links, NEW first, NEW P \in SUBSET Entry, NEW list,
         Enlisted(h, first, P, list), NEW k \in 1..Len(list), NEW d, d = list[k],
         NEW g, Bypassed(h.next, h.prev, d, g.next, g.prev)
  PROVE  Enlisted(g, IF d = first THEN h.next[d] ELSE first, P \ {d}, Removed(list, k))
<1> DEFINE link == h.next
<1> DEFINE back == h.prev
<1> DEFINE link2 == g.next
<1> DEFINE back2 == g.prev
<1> DEFINE first2 == IF d = first THEN link[d] ELSE first
<1> DEFINE r == Removed(list, k)
<1>1. /\ list \in Seq(Entry) /\ IsList(first, link, back, list)
      /\ \A x \in Entry : Contains(list, x) <=> x \in P
      /\ \A x \in Entry \ P : link[x] = NULL /\ back[x] = NULL
  BY DEF Enlisted
<1>2. link \in Link /\ back \in Link /\ Bypassed(link, back, d, link2, back2)
  BY DEF Links
<1> HIDE DEF link, back, link2, back2
<1>3. IsList(first2, link2, back2, r)
  BY <1>1, <1>2, BypassedList
<1>4. Injects(list)
  BY <1>1 DEF IsList
<1>5. r \in Seq(Entry) /\ \A x : Contains(r, x) <=> x # d /\ Contains(list, x)
  BY <1>1, <1>4, RemovedSeq
<1>6. /\ link[d] = NULL \/ Contains(list, link[d])
      /\ back[d] = NULL \/ Contains(list, back[d])
  BY <1>1, Neighbours
<1>7. ASSUME NEW x \in Entry \ (P \ {d}) PROVE link2[x] = NULL /\ back2[x] = NULL
  <2>1. CASE x = d
    BY <1>2, <2>1 DEF Bypassed
  <2>2. CASE x # d
    <3>1. x \notin P /\ x # NULL /\ x # link[d] /\ x # back[d]
      BY <1>1, <1>6, <2>2, UtHashAssumption
    <3> QED
      BY <1>1, <1>2, <2>2, <3>1 DEF Bypassed
  <2> QED
    BY <2>1, <2>2
<1> HIDE DEF first2, r
<1>8. Enlisted(g, first2, P \ {d}, r)
  BY <1>1, <1>3, <1>5, <1>7 DEF Enlisted, link2, back2
<1> QED
  BY <1>8 DEF first2, link, r

(* The buckets after HASH_DEL_IN_BKT. *)
BucketWithout(s, x, n, b, d) ==
  /\ \A i \in 0..n - 1 : i # b => x.tbl.buckets[i] = s.tbl.buckets[i]
  /\ x.tbl.buckets[b].count = s.tbl.buckets[b].count - 1
  /\ x.tbl.buckets[b].expand_mult = s.tbl.buckets[b].expand_mult
  /\ x.tbl.buckets[b].hh_head =
       IF d = s.tbl.buckets[b].hh_head THEN s.hh.hh_next[d] ELSE s.tbl.buckets[b].hh_head
  /\ Bypassed(s.hh.hh_next, s.hh.hh_prev, d, x.hh.hh_next, x.hh.hh_prev)

(* The chains without an entry. *)
LEMMA ChainsWithout ==
  ASSUME NEW n \in Nat \ {0}, NEW s \in States(n), NEW P \in SUBSET Entry,
         NEW C, ChainsOf(s, n, P, C), OffChains(s, P), NEW d \in P,
         NEW b, b = ToBkt(d, n), NEW x, BucketWithout(s, x, n, b, d)
  PROVE  (\E D : ChainsOf(x, n, P \ {d}, D)) /\ OffChains(x, P \ {d})
<1> DEFINE link == s.hh.hh_next
<1> DEFINE back == s.hh.hh_prev
<1> DEFINE link2 == x.hh.hh_next
<1> DEFINE back2 == x.hh.hh_prev
<1>1. b \in 0..n - 1 /\ n \in Nat
  BY ToBktRange
<1>2. /\ C \in [0..n - 1 -> Seq(Entry)]
      /\ \A i \in 0..n - 1 :
           /\ IsList(s.tbl.buckets[i].hh_head, link, back, C[i])
           /\ s.tbl.buckets[i].count = Len(C[i])
           /\ \A y \in Entry : Contains(C[i], y) <=> y \in P /\ ToBkt(y, n) = i
  BY DEF ChainsOf, Chains
<1>3. link \in Link /\ back \in Link
  BY <1>1, StateFields
<1>4. /\ \A i \in 0..n - 1 : i # b => x.tbl.buckets[i] = s.tbl.buckets[i]
      /\ x.tbl.buckets[b].count = s.tbl.buckets[b].count - 1
      /\ x.tbl.buckets[b].hh_head =
           IF d = s.tbl.buckets[b].hh_head THEN link[d] ELSE s.tbl.buckets[b].hh_head
      /\ Bypassed(link, back, d, link2, back2)
  BY DEF BucketWithout
<1> DEFINE c == C[b]
<1> DEFINE first == s.tbl.buckets[b].hh_head
<1>5. c \in Seq(Entry) /\ IsList(first, link, back, c) /\ Contains(c, d) /\ Injects(c)
  BY <1>1, <1>2 DEF IsList
<1>6. PICK k \in 1..Len(c) : c[k] = d
  BY <1>5 DEF Contains
<1> DEFINE r == Removed(c, k)
<1> DEFINE D == [C EXCEPT ![b] = r]
<1> HIDE DEF link, back, link2, back2, c, first
<1>7. /\ r \in Seq(Entry) /\ Len(r) = Len(c) - 1
      /\ \A y : Contains(r, y) <=> y # d /\ Contains(c, y)
  BY <1>5, <1>6, RemovedSeq
<1>8. IsList(IF d = first THEN link[d] ELSE first, link2, back2, r)
  BY <1>3, <1>4, <1>5, <1>6, BypassedList
<1>9. /\ link[d] = NULL \/ Contains(c, link[d])
      /\ back[d] = NULL \/ Contains(c, back[d])
  BY <1>5, <1>6, Neighbours
<1> HIDE DEF r
<1>10. D \in [0..n - 1 -> Seq(Entry)] /\ D[b] = r /\ \A i \in 0..n - 1 : i # b => D[i] = C[i]
  BY <1>1, <1>2, <1>7
<1> HIDE DEF D
<1>11. ASSUME NEW i \in 0..n - 1
       PROVE  /\ IsList(x.tbl.buckets[i].hh_head, link2, back2, D[i])
              /\ x.tbl.buckets[i].count = Len(D[i])
              /\ \A y \in Entry : Contains(D[i], y) <=> y \in P \ {d} /\ ToBkt(y, n) = i
  <2>1. CASE i = b
    <3>1. IsList(x.tbl.buckets[i].hh_head, link2, back2, D[i])
      BY <1>4, <1>8, <1>10, <2>1 DEF first
    <3>2. x.tbl.buckets[i].count = Len(D[i])
      BY <1>1, <1>2, <1>4, <1>7, <1>10, <2>1 DEF c
    <3>3. \A y \in Entry : Contains(D[i], y) <=> y \in P \ {d} /\ ToBkt(y, n) = i
      BY <1>1, <1>2, <1>7, <1>10, <2>1 DEF c
    <3> QED
      BY <3>1, <3>2, <3>3
  <2>2. CASE i # b
    <3>1. x.tbl.buckets[i] = s.tbl.buckets[i] /\ D[i] = C[i] /\ C[i] \in Seq(Entry)
      BY <1>2, <1>4, <1>10, <2>2
    <3>2. \A y \in Entry : ~(Contains(C[i], y) /\ Contains(c, y))
      BY <1>1, <1>2, <2>2 DEF c
    <3>3. IsList(s.tbl.buckets[i].hh_head, link, back, C[i])
      BY <1>2
    <3>4. IsList(s.tbl.buckets[i].hh_head, link2, back2, C[i])
      BY <1>4, <1>5, <1>6, <3>1, <3>2, <3>3, BypassedOther
    <3>5. \A y \in Entry : Contains(D[i], y) <=> y \in P \ {d} /\ ToBkt(y, n) = i
      BY <1>2, <2>2, <3>1
    <3>6. x.tbl.buckets[i].count = Len(D[i])
      BY <1>2, <3>1
    <3> QED
      BY <3>1, <3>4, <3>5, <3>6
  <2> QED
    BY <2>1, <2>2
<1>12. ChainsOf(x, n, P \ {d}, D)
  BY <1>10, <1>11 DEF ChainsOf, Chains, link2, back2
<1>13. ASSUME NEW y \in Entry \ (P \ {d}) PROVE link2[y] = NULL /\ back2[y] = NULL
  <2>1. CASE y = d
    BY <1>4, <2>1 DEF Bypassed
  <2>2. CASE y # d
    <3>1. y \notin P /\ y # NULL /\ y # link[d] /\ y # back[d]
      BY <1>1, <1>2, <1>9, <2>2, UtHashAssumption DEF c
    <3>2. link[y] = NULL /\ back[y] = NULL
      BY <3>1 DEF OffChains, link, back
    <3> QED
      BY <1>4, <2>2, <3>1, <3>2 DEF Bypassed
  <2> QED
    BY <2>1, <2>2
<1>14. OffChains(x, P \ {d})
  BY <1>13 DEF OffChains, link2, back2
<1> QED
  BY <1>12, <1>14

(* Shorter chains stay within the lengths that the buckets allow. *)
LEMMA WithinShorter ==
  ASSUME NEW n \in Nat, NEW s \in States(n), NEW x \in States(n), Within(s, n),
         \A b \in 0..n - 1 : /\ x.tbl.buckets[b].expand_mult = s.tbl.buckets[b].expand_mult
                             /\ x.tbl.buckets[b].count <= s.tbl.buckets[b].count
  PROVE  Within(x, n)
<1> DEFINE T == HASH_BKT_CAPACITY_THRESH
<1> DEFINE mult(y, b) == y.tbl.buckets[b].expand_mult
<1> DEFINE count(y, b) == y.tbl.buckets[b].count
<1>1. PICK w \in [0..n - 1 -> Nat], t \in [0..n -> Nat] :
        /\ IsSum(t, w, n) /\ t[n] <= n
        /\ \A b \in 0..n - 1 : /\ mult(s, b) <= w[b]
                               /\ count(s, b) < (w[b] + 1) * T
                               /\ count(s, b) <= (mult(s, b) + 1) * T
  BY DEF Within
<1>2. \A b \in 0..n - 1 : /\ mult(s, b) \in Nat /\ count(s, b) \in Nat /\ count(x, b) \in Nat
                          /\ mult(x, b) = mult(s, b) /\ count(x, b) <= count(s, b)
  BY StateFields
<1>3. T \in Nat
  BY UtHashAssumption
<1> HIDE DEF mult, count, T
<1>4. ASSUME NEW b \in 0..n - 1
      PROVE  /\ mult(x, b) <= w[b]
             /\ count(x, b) < (w[b] + 1) * T
             /\ count(x, b) <= (mult(x, b) + 1) * T
  <2> DEFINE y == (w[b] + 1) * T
  <2> DEFINE z == (mult(x, b) + 1) * T
  <2>1. y \in Nat /\ z \in Nat
    <3> DEFINE u == w[b]
    <3> DEFINE m == mult(x, b)
    <3>1. u \in Nat /\ m \in Nat
      BY <1>1, <1>2
    <3> HIDE DEF u, m
    <3>2. (u + 1) * T \in Nat /\ (m + 1) * T \in Nat
      BY <1>3, <3>1
    <3> QED
      BY <3>2 DEF u, m
  <2>2. count(s, b) < y /\ count(s, b) <= z
    BY <1>1, <1>2
  <2> HIDE DEF y, z
  <2>3. count(x, b) < y /\ count(x, b) <= z
    <3>1. count(s, b) \in Nat /\ count(x, b) \in Nat /\ count(x, b) <= count(s, b)
      BY <1>2
    <3> QED
      BY <2>1, <2>2, <3>1
  <2> QED
    BY <1>1, <1>2, <2>3 DEF y, z
<1> QED
  BY <1>1, <1>4 DEF Within, mult, count, T

-----------------------------------------------------------------------------
(* The invariant of the table *)

(* The table of the state together with the links. *)
Now == [tbl |-> tbl, hh |-> hh]

(* The allocated counters are the entries of one list that begins with the   *)
(* head and ends with the tail, and of the chains of the buckets.            *)
TableInv ==
  /\ live \subseteq Entry /\ hh \in Links
  /\ OffChains(Now, live)
  /\ \E list : /\ Enlisted(hh, head, live, list)
               /\ head # NULL => tbl.tail = list[Len(list)]
  /\ head = NULL => tbl = NoTable
  /\ head # NULL => \E n : Indexed(Now, n, live)

(* A table together with the links is what its two parts are. *)
LEMMA StateParts ==
  ASSUME NEW n, NEW s \in States(n)
  PROVE  s = [tbl |-> s.tbl, hh |-> s.hh]
  BY DEF States

(* The parts of the current table and links. *)
LEMMA NowParts == Now.tbl = tbl /\ Now.hh = hh
  BY DEF Now

(* There is a head as long as there are entries, and it is one of them. *)
LEMMA HeadIsLive ==
  ASSUME TableInv
  PROVE  IF head = NULL THEN live = {} ELSE head \in live /\ head \in Entry
<1>1. PICK list : Enlisted(hh, head, live, list)
  BY DEF TableInv
<1>2. /\ list \in Seq(Entry) /\ head = Front(list)
      /\ \A x \in Entry : Contains(list, x) <=> x \in live
  BY <1>1 DEF Enlisted, IsList
<1>3. CASE head = NULL
  <2>1. Len(list) = 0
    BY <1>2, <1>3, EntrySeq
  <2>2. \A x \in Entry : ~Contains(list, x)
    BY <2>1 DEF Contains
  <2> QED
    BY <1>2, <1>3, <2>2 DEF TableInv
<1>4. CASE head # NULL
  <2>1. 1 \in 1..Len(list) /\ list[1] = head
    <3>1. Len(list) \in Nat /\ Len(list) # 0 /\ list # << >>
      BY <1>2, <1>4, EntrySeq DEF Front
    <3> QED
      BY <1>2, <3>1 DEF Front
  <2>2. head \in Entry
    BY <1>2, <2>1, EntrySeq
  <2> QED
    BY <1>2, <1>4, <2>1, <2>2 DEF Contains
<1> QED
  BY <1>3, <1>4

(* A lookup follows the chain that the entry is on, if it is on one. *)
LEMMA TableFinds ==
  ASSUME TableInv
  PROVE  LookupExact
<1> SUFFICES ASSUME NEW e \in Entry PROVE Find(e) = IF e \in live THEN e ELSE NULL
  BY DEF LookupExact
<1>1. live \in SUBSET Entry /\ OffChains(Now, live)
  BY DEF TableInv
<1>2. CASE head = NULL
  BY <1>2, HeadIsLive DEF Find
<1>3. CASE head # NULL
  <2>1. PICK n : Indexed(Now, n, live)
    BY <1>3 DEF TableInv
  <2>2. n \in Nat \ {0} /\ n \in Nat /\ Now \in States(n)
    BY <2>1 DEF Indexed
  <2>3. PICK C : ChainsOf(Now, n, live, C)
    BY <2>1 DEF Indexed
  <2>4. tbl.num_buckets = n
    BY <2>2, StateFields, NowParts
  <2> DEFINE b == ToBkt(e, n)
  <2>5. b \in 0..n - 1
    BY <2>2, ToBktRange
  <2> HIDE DEF b
  <2>7. Chain(b) = C[b]
    <3>1. Walked(Now, n, C)
      BY <1>1, <2>2, <2>3, ChainWalk
    <3> QED
      BY <2>5, <3>1, NowParts DEF Chain, Walked
  <2>8. C[b] \in Seq(Entry) /\ (Contains(C[b], e) <=> e \in live)
    BY <2>3, <2>5 DEF ChainsOf, Chains, b
  <2>9. e \in Range(C[b]) <=> Contains(C[b], e)
    BY <2>8, EntrySeq DEF Range, Contains
  <2> QED
    BY <1>3, <2>4, <2>7, <2>8, <2>9 DEF Find, b
<1> QED
  BY <1>2, <1>3

-----------------------------------------------------------------------------
(* Registration keeps the invariant *)

(* What HASH_APPEND_LIST changes of the links. *)
LEMMA ListedLinks ==
  ASSUME hh \in Links, NEW e \in Entry, NEW l, l = Listed(e),
         head # NULL => tbl.tail \in Entry /\ tbl.tail # e
  PROVE  /\ l.hh \in Links /\ l.hh.hh_next = hh.hh_next /\ l.hh.hh_prev = hh.hh_prev
         /\ head = NULL => Unlinked(hh, e, l.hh)
         /\ head # NULL => BehindLast(hh.next, hh.prev, e, tbl.tail, l.hh.next, l.hh.prev)
<1>1. hh.next \in Link /\ hh.prev \in Link /\ NULL \in Pointer /\ e \in Pointer
  BY DEF Links, Pointer
<1>2. CASE head = NULL
  <2> DEFINE link == [hh.next EXCEPT ![e] = NULL]
  <2> DEFINE back == [hh.prev EXCEPT ![e] = NULL]
  <2>1. l.hh = [hh EXCEPT !.next = link, !.prev = back]
    BY <1>2 DEF Listed, Links
  <2>2. link \in Link /\ back \in Link
    BY <1>1 DEF Link
  <2>3. \A x \in Entry : /\ link[x] = (IF x = e THEN NULL ELSE hh.next[x])
                         /\ back[x] = (IF x = e THEN NULL ELSE hh.prev[x])
    BY <1>1 DEF Link
  <2> HIDE DEF link, back
  <2>4. /\ l.hh \in Links /\ l.hh.hh_next = hh.hh_next /\ l.hh.hh_prev = hh.hh_prev
        /\ l.hh.next = link /\ l.hh.prev = back
    BY <2>1, <2>2 DEF Links
  <2> QED
    BY <1>2, <2>3, <2>4 DEF Unlinked
<1>3. CASE head # NULL
  <2> DEFINE last == tbl.tail
  <2>1. last \in Entry /\ last # e /\ last \in Pointer
    BY <1>3 DEF Pointer
  <2> DEFINE link == [[hh.next EXCEPT ![e] = NULL] EXCEPT ![last] = e]
  <2> DEFINE back == [hh.prev EXCEPT ![e] = last]
  <2>2. l.hh = [hh EXCEPT !.next = link, !.prev = back]
    BY <1>3 DEF Listed, Links
  <2> HIDE DEF last
  <2>3. link \in Link /\ back \in Link
    BY <1>1, <2>1 DEF Link
  <2>4. BehindLast(hh.next, hh.prev, e, last, link, back)
    BY <1>1, <2>1 DEF Link, BehindLast
  <2> HIDE DEF link, back
  <2>5. /\ l.hh \in Links /\ l.hh.hh_next = hh.hh_next /\ l.hh.hh_prev = hh.hh_prev
        /\ l.hh.next = link /\ l.hh.prev = back
    BY <2>2, <2>3 DEF Links
  <2> QED
    BY <1>3, <2>4, <2>5 DEF last
<1> QED
  BY <1>2, <1>3

(* The tail is an entry. *)
LEMMA TailIsLive ==
  ASSUME TableInv, head # NULL
  PROVE  tbl.tail \in live /\ tbl.tail \in Entry /\ hh.next[tbl.tail] = NULL
<1>1. PICK list : Enlisted(hh, head, live, list) /\ tbl.tail = list[Len(list)]
  BY DEF TableInv
<1>2. /\ list \in Seq(Entry) /\ head = Front(list) /\ Linked(hh.next, list)
      /\ \A x \in Entry : Contains(list, x) <=> x \in live
  BY <1>1 DEF Enlisted, IsList
<1> DEFINE k == Len(list)
<1>3. k \in 1..k
  <2>1. k \in Nat /\ k # 0
    BY <1>2, EntrySeq
  <2> QED
    BY <2>1
<1>4. tbl.tail = list[k] /\ list[k] \in Entry /\ Contains(list, list[k])
  BY <1>1, <1>2, <1>3, EntrySeq DEF Contains
<1>5. hh.next[list[k]] = NULL
  BY <1>2, <1>3 DEF Linked
<1> QED
  BY <1>2, <1>4, <1>5

(* Another tail, as HASH_APPEND_LIST sets it. *)
OtherTail(s, e) == [s EXCEPT !.tbl.tail = e]

(* It changes the tail alone. *)
LEMMA OtherTailChanges ==
  ASSUME NEW n \in Nat, NEW s \in States(n), NEW e \in Entry, NEW t, t = OtherTail(s, e).tbl
  PROVE  /\ t \in Tables(n) /\ t.tail = e /\ t.buckets = s.tbl.buckets
         /\ t.log2_num_buckets = s.tbl.log2_num_buckets
         /\ t.num_items = s.tbl.num_items /\ t.noexpand = s.tbl.noexpand
<1>1. s.tbl \in Tables(n) /\ e \in Pointer
  BY StateFields DEF Pointer
<1>2. t = [s.tbl EXCEPT !.tail = e]
  BY DEF OtherTail, States
<1> QED
  BY <1>1, <1>2 DEF Tables

(* A table whose chains are those of another is indexed as that one is. *)
LEMMA IndexedSame ==
  ASSUME NEW n, NEW s, NEW P, Indexed(s, n, P), NEW x \in States(n),
         x.tbl.buckets = s.tbl.buckets, x.hh.hh_next = s.hh.hh_next,
         x.hh.hh_prev = s.hh.hh_prev, x.tbl.num_items = s.tbl.num_items,
         x.tbl.log2_num_buckets = s.tbl.log2_num_buckets, x.tbl.noexpand = s.tbl.noexpand
  PROVE  Indexed(x, n, P)
<1>1. PICK C : ChainsOf(s, n, P, C)
  BY DEF Indexed
<1>2. ChainsOf(x, n, P, C)
  BY <1>1 DEF ChainsOf
<1>3. Within(s, n) => Within(x, n)
  BY DEF Within
<1> QED
  BY <1>2, <1>3 DEF Indexed

(* The entry is listed, and its table is indexed for the others. *)
LEMMA ListedResult ==
  ASSUME TableInv, NEW e \in Entry \ live, NEW l, l = Listed(e),
         NEW first, first = IF head = NULL THEN e ELSE head
  PROVE  /\ l.hh \in Links /\ OffChains(l, live)
         /\ \E n : Indexed(l, n, live)
         /\ \E list : /\ Enlisted(l.hh, first, live \union {e}, list)
                      /\ l.tbl.tail = list[Len(list)]
<1>1. /\ live \in SUBSET Entry /\ hh \in Links /\ OffChains(Now, live)
      /\ e \in Entry /\ e \notin live
  BY DEF TableInv
<1>2. head # NULL => tbl.tail \in Entry /\ tbl.tail # e
  BY <1>1, TailIsLive
<1>3. /\ l.hh \in Links /\ l.hh.hh_next = hh.hh_next /\ l.hh.hh_prev = hh.hh_prev
      /\ head = NULL => Unlinked(hh, e, l.hh)
      /\ head # NULL => BehindLast(hh.next, hh.prev, e, tbl.tail, l.hh.next, l.hh.prev)
  BY <1>1, <1>2, ListedLinks
<1>4. OffChains(l, live)
  BY <1>1, <1>3, NowParts DEF OffChains
<1>5. PICK list : /\ Enlisted(hh, head, live, list)
                  /\ head # NULL => tbl.tail = list[Len(list)]
  BY DEF TableInv
<1>6. CASE head = NULL
  <2>1. Enlisted(hh, NULL, live, list)
    BY <1>5, <1>6
  <2> DEFINE g == l.hh
  <2>2. Unlinked(hh, e, g)
    BY <1>3, <1>6
  <2> HIDE DEF g
  <2>3. live = {} /\ Enlisted(g, e, {e}, << e >>)
    BY <1>1, <2>1, <2>2, EnlistedFirst
  <2>4. Enlisted(l.hh, e, live \union {e}, << e >>)
    BY <2>3 DEF g
  <2>5. l = [tbl |-> NewTable(e), hh |-> l.hh] /\ l.tbl = NewTable(e)
    BY <1>6 DEF Listed
  <2>6. \E n : Indexed(l, n, {})
    BY <1>1, <1>3, <2>5, NewTableIndexed
  <2>7. l.tbl.tail = e
    BY <2>5 DEF NewTable, NoTable
  <2>8. << e >>[Len(<< e >>)] = e
    OBVIOUS
  <2> QED
    BY <1>3, <1>4, <1>6, <2>3, <2>4, <2>6, <2>7, <2>8
<1>7. CASE head # NULL
  <2>1. PICK n : Indexed(Now, n, live)
    BY <1>7 DEF TableInv
  <2>2. n \in Nat /\ Now \in States(n)
    BY <2>1 DEF Indexed
  <2> DEFINE t == l.tbl
  <2>3. t = OtherTail(Now, e).tbl /\ DOMAIN l = {"tbl", "hh"}
    BY <1>7 DEF Listed, OtherTail, Now
  <2>4. l = [tbl |-> l.tbl, hh |-> l.hh]
    BY <1>7 DEF Listed
  <2> HIDE DEF t
  <2>5. /\ t \in Tables(n) /\ t.tail = e /\ t.buckets = tbl.buckets
        /\ t.log2_num_buckets = tbl.log2_num_buckets
        /\ t.num_items = tbl.num_items /\ t.noexpand = tbl.noexpand
    BY <1>1, <2>2, <2>3, OtherTailChanges, NowParts
  <2>6. l \in States(n)
    <3>1. [tbl |-> t, hh |-> l.hh] \in States(n)
      BY <1>3, <2>5 DEF States
    <3> QED
      BY <2>4, <3>1 DEF t
  <2>7. Indexed(l, n, live)
    BY <1>3, <2>1, <2>5, <2>6, IndexedSame, NowParts DEF t
  <2> DEFINE last == tbl.tail
  <2> DEFINE g == l.hh
  <2>8. /\ last = list[Len(list)] /\ BehindLast(hh.next, hh.prev, e, last, g.next, g.prev)
        /\ hh \in Links /\ live \in SUBSET Entry /\ e \in Entry \ live /\ head # NULL
        /\ Enlisted(hh, head, live, list)
    BY <1>1, <1>3, <1>5, <1>7
  <2> HIDE DEF g, last
  <2> DEFINE list2 == Append(list, e)
  <2>9. Enlisted(g, head, live \union {e}, list2) /\ list2[Len(list2)] = e
    BY <2>8, EnlistedLast
  <2> QED
    <3> HIDE DEF list2
    <3>1. \E list3 : /\ Enlisted(l.hh, first, live \union {e}, list3)
                     /\ l.tbl.tail = list3[Len(list3)]
      BY <1>7, <2>5, <2>9 DEF g, t
    <3> QED
      BY <1>3, <1>4, <2>7, <3>1
<1> QED
  BY <1>6, <1>7

(* HASH_ADD keeps the invariant of the table. *)
LEMMA RegisterKeepsTable ==
  ASSUME TableInv, NEW e \in Entry, Register(e)
  PROVE  TableInv'
<1> DEFINE l == Listed(e)
<1> DEFINE s == Added(l, e)
<1> DEFINE first == IF head = NULL THEN e ELSE head
<1>1. tbl' = s.tbl /\ hh' = s.hh /\ head' = first /\ live' = live \union {e}
  BY DEF Register
<1>2. live \in SUBSET Entry /\ e \notin live
  <2>1. Find(e) = NULL
    BY DEF Register
  <2>2. Find(e) = IF e \in live THEN e ELSE NULL
    BY TableFinds DEF LookupExact
  <2> QED
    BY <2>1, <2>2, UtHashAssumption DEF TableInv
<1> HIDE DEF l
<1>3. /\ OffChains(l, live)
      /\ \E n : Indexed(l, n, live)
      /\ \E list : /\ Enlisted(l.hh, first, live \union {e}, list)
                   /\ l.tbl.tail = list[Len(list)]
  BY <1>2, ListedResult DEF l
<1>4. PICK n : Indexed(l, n, live)
  BY <1>3
<1> HIDE DEF s
<1>5. /\ \E k : Indexed(s, k, live \union {e})
      /\ OffChains(s, live \union {e})
      /\ s.tbl.tail = l.tbl.tail /\ s.hh.next = l.hh.next /\ s.hh.prev = l.hh.prev
  <2>1. e \in Entry /\ e \notin live /\ live \in SUBSET Entry /\ OffChains(l, live)
    BY <1>2, <1>3
  <2> QED
    BY <1>4, <2>1, AddedResult DEF s
<1>6. PICK k : Indexed(s, k, live \union {e})
  BY <1>5
<1>7. s \in States(k) /\ k \in Nat
  BY <1>6 DEF Indexed
<1>8. Now' = s /\ hh' \in Links
  BY <1>1, <1>7, StateParts, StateFields DEF Now
<1>9. first # NULL
  BY UtHashAssumption
<1>10. PICK list : /\ Enlisted(l.hh, first, live \union {e}, list)
                   /\ l.tbl.tail = list[Len(list)]
  BY <1>3
<1> HIDE DEF first
<1>11. Enlisted(hh', head', live', list)
  BY <1>1, <1>5, <1>10 DEF Enlisted
<1>12. tbl'.tail = list[Len(list)]
  BY <1>1, <1>5, <1>10
<1> QED
  BY <1>1, <1>2, <1>5, <1>6, <1>8, <1>9, <1>11, <1>12 DEF TableInv

-----------------------------------------------------------------------------
(* Deletion keeps the invariant *)

(* The links that HASH_DELETE_HH changes, once the entry is freed. *)
LEMMA DeletedLinks ==
  ASSUME hh \in Links, NEW d \in Entry, NEW g, g = Freed(Unchained(Unlisted(d), d), d)
  PROVE  /\ g \in Links
         /\ Bypassed(hh.next, hh.prev, d, g.next, g.prev)
         /\ Bypassed(hh.hh_next, hh.hh_prev, d, g.hh_next, g.hh_prev)
<1> DEFINE through(link, back) ==
      [x \in Entry |-> IF x = back[d] THEN link[d] ELSE link[x]]
<1>1. hh.next \in Link /\ hh.prev \in Link /\ hh.hh_next \in Link /\ hh.hh_prev \in Link
  BY DEF Links
<1>2. \A link, back \in Link : through(link, back) \in Link
  BY DEF Link
<1> DEFINE next == [x \in Entry |-> IF x = hh.prev[d] THEN hh.next[d] ELSE hh.next[x]]
<1> DEFINE prev == [x \in Entry |-> IF x = hh.next[d] THEN hh.prev[d] ELSE hh.prev[x]]
<1> DEFINE hh_next == [x \in Entry |-> IF x = hh.hh_prev[d] THEN hh.hh_next[d] ELSE hh.hh_next[x]]
<1> DEFINE hh_prev == [x \in Entry |-> IF x = hh.hh_next[d] THEN hh.hh_prev[d] ELSE hh.hh_prev[x]]
<1> DEFINE u == Unlisted(d)
<1> DEFINE v == Unchained(u, d)
<1>3. next \in Link /\ prev \in Link /\ hh_next \in Link /\ hh_prev \in Link
  BY <1>1, <1>2
<1>4. u = [hh EXCEPT !.next = next, !.prev = prev]
  BY DEF Unlisted
<1>5. v = [u EXCEPT !.hh_next = hh_next, !.hh_prev = hh_prev]
  BY DEF Unchained
<1> HIDE DEF u, v, next, prev, hh_next, hh_prev, through
<1>6. u \in Links /\ u.next = next /\ u.prev = prev
  BY <1>3, <1>4 DEF Links
<1>7. v \in Links /\ v.next = next /\ v.prev = prev /\ v.hh_next = hh_next /\ v.hh_prev = hh_prev
  BY <1>3, <1>5, <1>6 DEF Links
<1>8. g = Freed(v, d)
  BY DEF u, v
<1>9. /\ g \in Links
      /\ g.next = [next EXCEPT ![d] = NULL] /\ g.prev = [prev EXCEPT ![d] = NULL]
      /\ g.hh_next = [hh_next EXCEPT ![d] = NULL] /\ g.hh_prev = [hh_prev EXCEPT ![d] = NULL]
  <2>1. /\ g \in Links
        /\ g.next = [v.next EXCEPT ![d] = NULL] /\ g.prev = [v.prev EXCEPT ![d] = NULL]
        /\ g.hh_next = [v.hh_next EXCEPT ![d] = NULL]
        /\ g.hh_prev = [v.hh_prev EXCEPT ![d] = NULL]
    <3>1. v \in Links
      BY <1>7
    <3> DEFINE f == Freed(v, d)
    <3>2. /\ f \in Links
          /\ f.next = [v.next EXCEPT ![d] = NULL] /\ f.prev = [v.prev EXCEPT ![d] = NULL]
          /\ f.hh_next = [v.hh_next EXCEPT ![d] = NULL]
          /\ f.hh_prev = [v.hh_prev EXCEPT ![d] = NULL]
      BY <3>1, FreedType
    <3> HIDE DEF f
    <3> QED
      BY <1>8, <3>2 DEF f
  <2> QED
    BY <1>7, <2>1
<1>10. Bypassed(hh.next, hh.prev, d, g.next, g.prev)
  BY <1>9 DEF Bypassed, next, prev
<1>11. Bypassed(hh.hh_next, hh.hh_prev, d, g.hh_next, g.hh_prev)
  BY <1>9 DEF Bypassed, hh_next, hh_prev
<1> QED
  BY <1>9, <1>10, <1>11

(* The links of the only entry, once it is freed. *)
LEMMA OnlyLinks ==
  ASSUME hh \in Links, NEW d \in Entry, IsOnly(d), NEW g, g = Freed(hh, d)
  PROVE  /\ g \in Links
         /\ Bypassed(hh.next, hh.prev, d, g.next, g.prev)
         /\ \A x \in Entry : x # d => g.hh_next[x] = hh.hh_next[x] /\ g.hh_prev[x] = hh.hh_prev[x]
         /\ g.hh_next[d] = NULL /\ g.hh_prev[d] = NULL
<1>1. hh.next \in Link /\ hh.prev \in Link /\ hh.hh_next \in Link /\ hh.hh_prev \in Link
  BY DEF Links
<1>2. /\ g \in Links
      /\ g.next = [hh.next EXCEPT ![d] = NULL] /\ g.prev = [hh.prev EXCEPT ![d] = NULL]
      /\ g.hh_next = [hh.hh_next EXCEPT ![d] = NULL]
      /\ g.hh_prev = [hh.hh_prev EXCEPT ![d] = NULL]
  BY FreedType
<1>3. hh.prev[d] = NULL /\ hh.next[d] = NULL
  BY DEF IsOnly
<1>4. Bypassed(hh.next, hh.prev, d, g.next, g.prev)
  BY <1>1, <1>2, <1>3, UtHashAssumption DEF Bypassed, Link
<1> QED
  BY <1>1, <1>2, <1>4 DEF Link

(* What HASH_DELETE_HH changes of the table. *)
LEMMA WithoutChanges ==
  ASSUME NEW n \in Nat, Now \in States(n), NEW d \in Entry, NEW b \in 0..n - 1,
         b = ToBkt(d, tbl.num_buckets), tbl.num_items # 0, tbl.buckets[b].count # 0,
         NEW t, t = Without(d)
  PROVE  /\ t \in Tables(n)
         /\ t.tail = (IF d = tbl.tail THEN hh.prev[d] ELSE tbl.tail)
         /\ t.num_items = tbl.num_items - 1
         /\ t.log2_num_buckets = tbl.log2_num_buckets /\ t.noexpand = tbl.noexpand
         /\ \A i \in 0..n - 1 : i # b => t.buckets[i] = tbl.buckets[i]
         /\ t.buckets[b].count = tbl.buckets[b].count - 1
         /\ t.buckets[b].expand_mult = tbl.buckets[b].expand_mult
         /\ t.buckets[b].hh_head =
              (IF d = tbl.buckets[b].hh_head THEN hh.hh_next[d] ELSE tbl.buckets[b].hh_head)
<1>1. tbl \in Tables(n) /\ hh \in Links
  BY StateFields, NowParts
<1>2. /\ tbl.buckets \in [0..n - 1 -> Bucket] /\ tbl.num_items \in Nat /\ tbl.tail \in Pointer
      /\ hh.prev \in Link /\ hh.hh_next \in Link
  BY <1>1 DEF Tables, Links
<1> DEFINE bkt == tbl.buckets[b]
<1> DEFINE first == IF d = bkt.hh_head THEN hh.hh_next[d] ELSE bkt.hh_head
<1> DEFINE count == bkt.count - 1
<1> DEFINE tail == IF d = tbl.tail THEN hh.prev[d] ELSE tbl.tail
<1> DEFINE items == tbl.num_items - 1
<1> DEFINE new == [bkt EXCEPT !.count = count, !.hh_head = first]
<1> DEFINE bkts == [tbl.buckets EXCEPT ![b] = new]
<1>3. bkt \in Bucket
  BY <1>2
<1>4. first \in Pointer /\ count \in Nat /\ tail \in Pointer /\ items \in Nat
  BY <1>2, <1>3 DEF Bucket, Link
<1>5. t = [tbl EXCEPT !.tail = tail, !.num_items = items, !.buckets = bkts]
  <2>1. new = [bkt EXCEPT !.count = @ - 1,
                          !.hh_head = IF d = @ THEN hh.hh_next[d] ELSE @]
    BY <1>3 DEF Bucket
  <2> HIDE DEF new
  <2>2. t = [tbl EXCEPT !.tail = IF d = @ THEN hh.prev[d] ELSE @,
                        !.num_items = @ - 1, !.buckets[b] = new]
    BY <2>1 DEF Without
  <2> QED
    BY <1>1, <2>2 DEF Tables
<1> HIDE DEF first, count, tail, items
<1>6. new \in Bucket /\ new.count = count /\ new.hh_head = first /\ new.expand_mult = bkt.expand_mult
  <2> HIDE DEF bkt
  <2> QED
    BY <1>3, <1>4 DEF Bucket
<1> HIDE DEF new
<1>7. /\ bkts \in [0..n - 1 -> Bucket] /\ bkts[b] = new
      /\ \A i \in 0..n - 1 : i # b => bkts[i] = tbl.buckets[i]
  BY <1>2, <1>6
<1> HIDE DEF bkts
<1> DEFINE u == [tbl EXCEPT !.tail = tail, !.num_items = items]
<1>8. u \in Tables(n) /\ u.tail = tail /\ u.num_items = items
      /\ u.log2_num_buckets = tbl.log2_num_buckets /\ u.noexpand = tbl.noexpand
  BY <1>1, <1>4 DEF Tables
<1>9. t = [u EXCEPT !.buckets = bkts]
  BY <1>5
<1> HIDE DEF u
<1>10. /\ t \in Tables(n) /\ t.tail = tail /\ t.num_items = items
       /\ t.log2_num_buckets = tbl.log2_num_buckets /\ t.noexpand = tbl.noexpand
       /\ t.buckets = bkts
  BY <1>7, <1>8, <1>9 DEF Tables
<1> QED
  BY <1>6, <1>7, <1>10 DEF tail, items, count, first

(* A table without an entry, and the links that go past it. *)
LEMMA IndexedWithout ==
  ASSUME TableInv, NEW n, Indexed(Now, n, live), NEW d \in live,
         NEW g \in Links, Bypassed(hh.hh_next, hh.hh_prev, d, g.hh_next, g.hh_prev),
         NEW x, x = [tbl |-> Without(d), hh |-> g]
  PROVE  Indexed(x, n, live \ {d}) /\ OffChains(x, live \ {d})
<1> DEFINE b == ToBkt(d, n)
<1> DEFINE t == Without(d)
<1>1. live \in SUBSET Entry /\ OffChains(Now, live) /\ d \in Entry
  BY DEF TableInv
<1>2. /\ n \in Nat \ {0} /\ n \in Nat /\ Now \in States(n) /\ n = 2^tbl.log2_num_buckets
      /\ tbl.num_items = Cardinality(live)
      /\ ~tbl.noexpand => Within(Now, n)
  BY NowParts DEF Indexed
<1>3. PICK C : ChainsOf(Now, n, live, C)
  BY DEF Indexed
<1>4. tbl.num_buckets = n
  BY <1>2, StateFields, NowParts
<1>5. b \in 0..n - 1
  BY <1>1, <1>2, ToBktRange
<1> HIDE DEF b, t
<1>6. tbl.buckets[b].count # 0
  <2>1. /\ C[b] \in Seq(Entry) /\ tbl.buckets[b].count = Len(C[b])
        /\ Contains(C[b], d) <=> d \in live /\ ToBkt(d, n) = b
    BY <1>1, <1>3, <1>5, NowParts DEF ChainsOf, Chains
  <2>2. PICK i \in 1..Len(C[b]) : C[b][i] = d
    BY <2>1 DEF Contains, b
  <2>3. Len(C[b]) \in Nat
    BY <2>1, EntrySeq
  <2> QED
    BY <2>1, <2>2, <2>3
<1>7. /\ IsFiniteSet(live) /\ Cardinality(live) \in Nat /\ Cardinality(live) # 0
      /\ Cardinality(live \ {d}) = Cardinality(live) - 1
  <2>1. PICK sum : IsSum(sum, Counts(Now, n), n)
    BY <1>2, CountsType, SumExists
  <2>2. IsFiniteSet(live)
    BY <1>1, <1>2, <1>3, <2>1, CountsAddUp
  <2>3. Cardinality(live) \in Nat /\ Cardinality(live) # 0
    BY <2>2, FS_CardinalityType, FS_EmptySet
  <2>4. Cardinality(live \ {d}) = IF d \in live THEN Cardinality(live) - 1 ELSE Cardinality(live)
    BY <2>2, FS_RemoveElement
  <2> QED
    BY <2>2, <2>3, <2>4
<1>8. /\ t \in Tables(n)
      /\ t.num_items = tbl.num_items - 1
      /\ t.log2_num_buckets = tbl.log2_num_buckets /\ t.noexpand = tbl.noexpand
      /\ \A i \in 0..n - 1 : i # b => t.buckets[i] = tbl.buckets[i]
      /\ t.buckets[b].count = tbl.buckets[b].count - 1
      /\ t.buckets[b].expand_mult = tbl.buckets[b].expand_mult
      /\ t.buckets[b].hh_head =
           (IF d = tbl.buckets[b].hh_head THEN hh.hh_next[d] ELSE tbl.buckets[b].hh_head)
  <2>1. tbl.num_items # 0 /\ b = ToBkt(d, tbl.num_buckets)
    BY <1>2, <1>4, <1>7 DEF b
  <2> QED
    BY <1>1, <1>2, <1>5, <1>6, <2>1, WithoutChanges DEF t
<1>9. x.tbl = t /\ x.hh = g /\ x \in States(n)
  BY <1>8 DEF States, t
<1>10. BucketWithout(Now, x, n, b, d)
  BY <1>8, <1>9, NowParts DEF BucketWithout
<1>11. (\E D : ChainsOf(x, n, live \ {d}, D)) /\ OffChains(x, live \ {d})
  BY <1>1, <1>2, <1>3, <1>10, ChainsWithout DEF b
<1>12. ~t.noexpand => Within(x, n)
  <2> SUFFICES ASSUME ~t.noexpand PROVE Within(x, n)
    OBVIOUS
  <2>1. Within(Now, n)
    BY <1>2, <1>8
  <2>2. ASSUME NEW i \in 0..n - 1
        PROVE  /\ x.tbl.buckets[i].expand_mult = Now.tbl.buckets[i].expand_mult
               /\ x.tbl.buckets[i].count <= Now.tbl.buckets[i].count
    <3>1. Now.tbl.buckets[i].count \in Nat
      BY <1>2, StateFields
    <3>2. CASE i = b
      BY <1>5, <1>8, <1>9, <3>1, <3>2, NowParts
    <3>3. CASE i # b
      BY <1>8, <1>9, <3>1, <3>3, NowParts
    <3> QED
      BY <3>2, <3>3
  <2> QED
    BY <1>2, <1>9, <2>1, <2>2, WithinShorter
<1>13. Indexed(x, n, live \ {d})
  BY <1>2, <1>7, <1>8, <1>9, <1>11, <1>12 DEF Indexed
<1> QED
  BY <1>11, <1>13

(* The loop of mdcs_finalize keeps the invariant of the table: it deletes    *)
(* and frees the head, and what was next becomes the head.                   *)
LEMMA DeleteKeepsTable ==
  ASSUME TableInv, head # NULL, DeleteAndFree(head)
  PROVE  TableInv' /\ head' = hh.next[head]
<1> DEFINE d == head
<1>1. d \in live /\ d \in Entry /\ hh \in Links /\ live \subseteq Entry /\ OffChains(Now, live)
  BY HeadIsLive DEF TableInv
<1>2. PICK list : Enlisted(hh, head, live, list) /\ tbl.tail = list[Len(list)]
  BY DEF TableInv
<1>3. /\ list \in Seq(Entry) /\ head = Front(list) /\ Injects(list)
      /\ Linked(hh.next, list) /\ BackLinked(hh.prev, list)
      /\ \A x \in Entry : Contains(list, x) <=> x \in live
  BY <1>2 DEF Enlisted, IsList
<1> DEFINE m == Len(list)
<1>4. m \in Nat /\ m # 0 /\ 1 \in 1..m /\ list[1] = d
  <2>1. m \in Nat /\ m # 0 /\ list # << >>
    BY <1>3, EntrySeq DEF Front
  <2> QED
    BY <1>3, <2>1 DEF Front
<1>5. hh.prev[d] = NULL /\ hh.next[d] = IF m = 1 THEN NULL ELSE list[2]
  BY <1>3, <1>4 DEF Linked, BackLinked
<1>6. m # 1 => 2 \in 1..m /\ list[2] \in Entry /\ list[2] # NULL
  <2> HIDE DEF m
  <2>1. m # 1 => 2 \in 1..m
    BY <1>4
  <2> USE DEF m
  <2> QED
    BY <1>3, <2>1, EntrySeq
<1> DEFINE r == Removed(list, 1)
<1>7. /\ Len(r) = m - 1
      /\ \A i \in 1..Len(r) : r[i] = IF i < 1 THEN list[i] ELSE list[i + 1]
  BY <1>3, <1>4, RemovedSeq
<1> HIDE DEF d, m, r
<1>8. live' = live \ {d}
  BY DEF DeleteAndFree, d
<1>9. ASSUME NEW g, Bypassed(hh.next, hh.prev, d, g.next, g.prev)
      PROVE  Enlisted(g, hh.next[d], live \ {d}, r)
  <2>1. live \in SUBSET Entry /\ 1 \in 1..Len(list) /\ d = list[1]
    BY <1>1, <1>4 DEF m
  <2>2. Enlisted(g, IF d = head THEN hh.next[d] ELSE head, live \ {d}, r)
    BY <1>1, <1>2, <1>9, <2>1, EnlistedWithout DEF r
  <2> QED
    BY <2>2 DEF d
<1>10. CASE IsOnly(d)
  <2>1. hh' = Freed(hh, d) /\ tbl' = NoTable /\ head' = NULL
    BY <1>10 DEF DeleteAndFree, d
  <2>2. m = 1 /\ hh.next[d] = NULL
    BY <1>5, <1>6, <1>10 DEF IsOnly
  <2>3. live \ {d} = {}
    <3> SUFFICES ASSUME NEW x \in live PROVE x = d
      OBVIOUS
    <3>1. PICK i \in 1..m : list[i] = x
      BY <1>1, <1>3 DEF Contains, m
    <3> QED
      BY <1>4, <2>2, <3>1
  <2> DEFINE g == hh'
  <2>4. /\ g \in Links
        /\ Bypassed(hh.next, hh.prev, d, g.next, g.prev)
        /\ \A x \in Entry : x # d => g.hh_next[x] = hh.hh_next[x] /\ g.hh_prev[x] = hh.hh_prev[x]
        /\ g.hh_next[d] = NULL /\ g.hh_prev[d] = NULL
    <3> HIDE DEF g
    <3> QED
      BY <1>1, <1>10, <2>1, OnlyLinks DEF g
  <2>5. Enlisted(hh', head', live', r)
    <3>1. Enlisted(g, hh.next[d], live \ {d}, r)
      BY <1>9, <2>4
    <3> QED
      BY <1>8, <2>1, <2>2, <3>1
  <2>6. OffChains(Now, live)'
    <3>1. \A x \in Entry : g.hh_next[x] = NULL /\ g.hh_prev[x] = NULL
      <4> SUFFICES ASSUME NEW x \in Entry PROVE g.hh_next[x] = NULL /\ g.hh_prev[x] = NULL
        OBVIOUS
      <4>1. x # d => x \notin live
        BY <2>3
      <4> QED
        BY <1>1, <2>4, <4>1, NowParts DEF OffChains
    <3>2. Now'.hh = g
      BY DEF Now
    <3> QED
      BY <3>1, <3>2 DEF OffChains
  <2>7. TableInv'
    BY <1>8, <2>1, <2>3, <2>4, <2>5, <2>6 DEF TableInv
  <2> QED
    BY <2>1, <2>2, <2>7 DEF d
<1>11. CASE ~IsOnly(d)
  <2>1. head' = hh.next[d] /\ tbl' = Without(d) /\ hh' = Freed(Unchained(Unlisted(d), d), d)
    BY <1>5, <1>11 DEF DeleteAndFree, d
  <2>2. m # 1 /\ hh.next[d] # NULL
    BY <1>5, <1>6, <1>11 DEF IsOnly
  <2> DEFINE g == hh'
  <2>3. /\ g \in Links
        /\ Bypassed(hh.next, hh.prev, d, g.next, g.prev)
        /\ Bypassed(hh.hh_next, hh.hh_prev, d, g.hh_next, g.hh_prev)
    <3> HIDE DEF g
    <3> QED
      BY <1>1, <2>1, DeletedLinks DEF g
  <2>4. Enlisted(hh', head', live', r)
    <3>1. Enlisted(g, hh.next[d], live \ {d}, r)
      BY <1>9, <2>3
    <3> QED
      BY <1>8, <2>1, <3>1
  <2>5. PICK n : Indexed(Now, n, live)
    BY DEF TableInv
  <2>6. Indexed(Now', n, live \ {d}) /\ OffChains(Now', live \ {d})
    <3> DEFINE x == Now'
    <3>1. x = [tbl |-> Without(d), hh |-> g]
      BY <2>1 DEF Now
    <3> HIDE DEF x, g
    <3>2. Indexed(x, n, live \ {d}) /\ OffChains(x, live \ {d})
      BY <1>1, <2>3, <2>5, <3>1, IndexedWithout
    <3> QED
      BY <3>2 DEF x
  <2>7. tbl'.tail = r[Len(r)]
    <3>1. m - 1 \in 1..(m - 1) /\ (m - 1) + 1 = m /\ ~(m - 1 < 1) /\ m \in 1..m
      BY <1>4, <2>2
    <3>2. r[Len(r)] = list[m]
      BY <1>7, <3>1
    <3>3. list[m] # d
      BY <1>3, <1>4, <2>2, <3>1 DEF Injects, m
    <3>4. Without(d).tail = IF d = tbl.tail THEN hh.prev[d] ELSE tbl.tail
      <4>1. n \in Nat /\ Now \in States(n)
        BY <2>5 DEF Indexed
      <4>2. tbl \in Tables(n)
        BY <4>1, StateFields, NowParts
      <4> QED
        BY <4>2 DEF Without, Tables
    <3> QED
      BY <1>2, <2>1, <3>2, <3>3, <3>4 DEF m
  <2>8. TableInv'
    BY <1>1, <1>8, <2>1, <2>2, <2>3, <2>4, <2>6, <2>7 DEF TableInv
  <2> QED
    BY <2>1, <2>8 DEF d
<1> QED
  BY <1>10, <1>11

-----------------------------------------------------------------------------
(* The inductive invariant *)

(* The loop of mdcs_finalize stands on the head and has saved what follows   *)
(* it, which is the head once the loop has freed what it stood on.           *)
LoopInv ==
  /\ pc \in {"idle", "body", "next"} /\ el \in Pointer
  /\ pc = "idle" => tmp = NULL
  /\ pc = "body" => el = head /\ tmp = NextOf(head)
  /\ pc = "next" => tmp = head

IInv == TableInv /\ LoopInv

(* The table begins empty, with no link set. *)
LEMMA InitInv == Init => IInv
<1> SUFFICES ASSUME Init PROVE IInv
  OBVIOUS
<1> DEFINE none == [e \in Entry |-> NULL]
<1>1. /\ head = NULL /\ tbl = NoTable /\ live = {} /\ pc = "idle" /\ el = NULL /\ tmp = NULL
      /\ hh = [prev |-> none, next |-> none, hh_prev |-> none, hh_next |-> none]
  BY DEF Init
<1>2. none \in Link /\ \A e \in Entry : none[e] = NULL
  BY DEF Link, Pointer
<1> HIDE DEF none
<1>3. hh \in Links /\ hh.prev = none /\ hh.next = none /\ hh.hh_prev = none /\ hh.hh_next = none
  BY <1>1, <1>2 DEF Links
<1>4. OffChains(Now, live)
  BY <1>2, <1>3, NowParts DEF OffChains
<1>5. Enlisted(hh, head, live, << >>)
  <2>1. << >> \in Seq(Entry) /\ Len(<< >>) = 0 /\ \A x : ~Contains(<< >>, x)
    BY DEF Contains
  <2>2. IsList(NULL, hh.next, hh.prev, << >>)
    BY <2>1 DEF IsList, Front, Injects, Linked, BackLinked
  <2> QED
    BY <1>1, <1>2, <1>3, <2>1, <2>2 DEF Enlisted
<1>6. TableInv
  BY <1>1, <1>3, <1>4, <1>5 DEF TableInv
<1>7. LoopInv
  BY <1>1 DEF LoopInv, Pointer
<1> QED
  BY <1>6, <1>7 DEF IInv

(* Every step keeps the invariant: HASH_ADD and HASH_DEL by the lemmas     *)
(* above, and the other steps of the loop leave the table as it is.        *)
LEMMA NextInv == IInv /\ [Next]_vars => IInv'
<1> SUFFICES ASSUME IInv, [Next]_vars PROVE TableInv' /\ LoopInv'
  BY DEF IInv
<1>1. TableInv /\ LoopInv
  BY DEF IInv
<1>2. head \in Pointer
  BY <1>1, HeadIsLive DEF Pointer
<1>3. ASSUME UNCHANGED << head, tbl, hh, live >> PROVE TableInv'
  BY <1>1, <1>3 DEF TableInv, Now, OffChains, Enlisted, Indexed
<1>4. ASSUME NEW e \in Entry, Register(e) PROVE TableInv' /\ LoopInv'
  <2>1. TableInv'
    BY <1>1, <1>4, RegisterKeepsTable
  <2>2. LoopInv'
    BY <1>1, <1>4 DEF LoopInv, Register
  <2> QED
    BY <2>1, <2>2
<1>5. CASE IterStart
  <2>1. TableInv'
    BY <1>3, <1>5 DEF IterStart
  <2>2. LoopInv'
    BY <1>1, <1>2, <1>5 DEF LoopInv, IterStart, NextOf
  <2> QED
    BY <2>1, <2>2
<1>6. CASE IterBody
  <2>1. head # NULL /\ el = head /\ tmp = hh.next[head]
    BY <1>1, <1>6 DEF LoopInv, IterBody, NextOf
  <2>2. TableInv' /\ head' = hh.next[head]
    BY <1>1, <1>6, <2>1, DeleteKeepsTable DEF IterBody
  <2>3. LoopInv'
    BY <1>1, <1>6, <2>1, <2>2 DEF LoopInv, IterBody
  <2> QED
    BY <2>2, <2>3
<1>7. CASE IterNext
  <2>1. TableInv'
    BY <1>3, <1>7 DEF IterNext
  <2>2. LoopInv'
    BY <1>1, <1>2, <1>7 DEF LoopInv, IterNext, NextOf
  <2> QED
    BY <2>1, <2>2
<1>8. CASE IterEnd
  <2>1. TableInv'
    BY <1>3, <1>8 DEF IterEnd
  <2>2. LoopInv'
    BY <1>1, <1>8 DEF LoopInv, IterEnd, NextOf
  <2> QED
    BY <2>1, <2>2
<1>9. CASE UNCHANGED vars
  <2>1. TableInv'
    BY <1>3, <1>9 DEF vars
  <2>2. LoopInv'
    BY <1>1, <1>9 DEF LoopInv, vars, NextOf
  <2> QED
    BY <2>1, <2>2
<1> QED
  BY <1>4, <1>5, <1>6, <1>7, <1>8, <1>9 DEF Next

(* The invariant that carries the others: the allocated counters are one     *)
(* doubly linked list and the chains of the buckets they hash to, with exact *)
(* counts, through every HASH_ADD, with or without an expansion, and every   *)
(* turn of the loop of mdcs_finalize.                                        *)
THEOREM HashInvariant == Spec => []IInv
<1>1. Init => IInv
  BY InitInv
<1>2. IInv /\ [Next]_vars => IInv'
  BY NextInv
<1> QED
  BY <1>1, <1>2, PTL DEF Spec

-----------------------------------------------------------------------------
(* What the invariant says of the runs' properties *)

(* In a list of live entries the links lead to live entries. *)
LEMMA LinksStay ==
  ASSUME NEW c \in Seq(Entry), NEW first, NEW link, NEW back, IsList(first, link, back, c),
         \A x \in Entry : Contains(c, x) => x \in live, NEW e, Contains(c, e)
  PROVE  link[e] \in live \union {NULL} /\ back[e] \in live \union {NULL}
<1>1. PICK k \in 1..Len(c) : c[k] = e
  BY DEF Contains
<1>2. /\ link[e] = NULL \/ Contains(c, link[e])
      /\ back[e] = NULL \/ Contains(c, back[e])
  BY <1>1, Neighbours
<1>3. \A x : Contains(c, x) => x \in Entry
  BY EntrySeq DEF Contains
<1> QED
  BY <1>2, <1>3

(* The types are a part of what the invariant says. *)
LEMMA InvIsTyped == IInv => TypeOK
<1> SUFFICES ASSUME IInv PROVE TypeOK
  OBVIOUS
<1>1. TableInv /\ LoopInv
  BY DEF IInv
<1>2. hh \in Links /\ live \subseteq Entry /\ head \in Pointer
  BY <1>1, HeadIsLive DEF TableInv, Pointer
<1>3. hh \in [{"prev", "next", "hh_prev", "hh_next"} -> [Entry -> Pointer]]
  BY <1>2, LinksField
<1>4. el \in Pointer /\ pc \in {"idle", "body", "next"}
  BY <1>1 DEF LoopInv
<1>5. tmp \in Pointer
  <2>1. NextOf(head) \in Pointer
    BY <1>2 DEF NextOf, Links, Link, Pointer
  <2>2. NULL \in Pointer
    BY DEF Pointer
  <2> QED
    BY <1>1, <1>2, <2>1, <2>2 DEF LoopInv
<1>6. head = NULL => tbl = NoTable
  BY <1>1 DEF TableInv
<1>7. head # NULL =>
        /\ tbl # NoTable
        /\ tbl.num_buckets = 2^tbl.log2_num_buckets
        /\ DOMAIN tbl.buckets = 0..tbl.num_buckets - 1
        /\ tbl.tail \in Entry /\ hh.next[tbl.tail] = NULL
  <2> SUFFICES ASSUME head # NULL
               PROVE  /\ tbl # NoTable
                      /\ tbl.num_buckets = 2^tbl.log2_num_buckets
                      /\ DOMAIN tbl.buckets = 0..tbl.num_buckets - 1
                      /\ tbl.tail \in Entry /\ hh.next[tbl.tail] = NULL
    OBVIOUS
  <2>1. PICK n : Indexed(Now, n, live)
    BY <1>1 DEF TableInv
  <2>2. n \in Nat \ {0} /\ n \in Nat /\ Now \in States(n) /\ n = 2^tbl.log2_num_buckets
    BY <2>1, NowParts DEF Indexed
  <2>3. tbl.num_buckets = n /\ tbl.buckets \in [0..n - 1 -> Bucket]
    BY <2>2, StateFields, NowParts
  <2>4. tbl # NoTable
    <3>1. NoTable.num_buckets = 0
      BY DEF NoTable
    <3> QED
      BY <2>2, <2>3, <3>1
  <2> QED
    BY <1>1, <2>2, <2>3, <2>4, TailIsLive
<1> QED
  BY <1>2, <1>3, <1>4, <1>5, <1>6, <1>7 DEF TypeOK

(* The types, the power of two of buckets and the tail are right in every    *)
(* state.                                                                    *)
THEOREM HashTypeCorrect == Spec => []TypeOK
<1> QED
  BY InvIsTyped, HashInvariant, PTL

(* The chain that a lookup follows is the chain of the invariant. *)
LEMMA InvFindsLive == IInv => LookupExact
  BY TableFinds DEF IInv

(* A lookup finds exactly the registered counters, for any hash values and   *)
(* any number of expansions.                                                 *)
THEOREM LookupIsExact == Spec => []LookupExact
<1> QED
  BY InvFindsLive, HashInvariant, PTL

(* Every pointer is the head, the tail, the saved one or a link of a list. *)
LEMMA InvIsSafe == IInv => NoUseAfterFree
<1> SUFFICES ASSUME IInv PROVE NoUseAfterFree
  OBVIOUS
<1>1. TableInv /\ LoopInv
  BY DEF IInv
<1>2. hh \in Links /\ live \in SUBSET Entry
  BY <1>1 DEF TableInv
<1>3. head \in live \union {NULL}
  BY <1>1, HeadIsLive
<1>4. tbl.tail \in live \union {NULL}
  <2>1. CASE head = NULL
    BY <1>1, <2>1 DEF TableInv, NoTable
  <2>2. CASE head # NULL
    BY <1>1, <2>2, TailIsLive
  <2> QED
    BY <2>1, <2>2
<1>5. \A e \in live : hh.next[e] \in live \union {NULL} /\ hh.prev[e] \in live \union {NULL}
  <2>1. PICK list : Enlisted(hh, head, live, list)
    BY <1>1 DEF TableInv
  <2>2. /\ list \in Seq(Entry) /\ IsList(head, hh.next, hh.prev, list)
        /\ \A x \in Entry : Contains(list, x) <=> x \in live
    BY <2>1 DEF Enlisted
  <2> DEFINE link == hh.next
  <2> DEFINE back == hh.prev
  <2>3. IsList(head, link, back, list)
    BY <2>2
  <2> HIDE DEF link, back
  <2>4. ASSUME NEW e \in live
        PROVE  link[e] \in live \union {NULL} /\ back[e] \in live \union {NULL}
    <3>1. Contains(list, e)
      BY <1>2, <2>2
    <3>2. \A x \in Entry : Contains(list, x) => x \in live
      BY <2>2
    <3> QED
      BY <2>2, <2>3, <3>1, <3>2, LinksStay
  <2> QED
    BY <2>4 DEF link, back
<1>6. \A e \in live : hh.hh_next[e] \in live \union {NULL} /\ hh.hh_prev[e] \in live \union {NULL}
  <2> SUFFICES ASSUME NEW e \in live
               PROVE  /\ hh.hh_next[e] \in live \union {NULL}
                      /\ hh.hh_prev[e] \in live \union {NULL}
    OBVIOUS
  <2>1. head # NULL
    BY <1>1, HeadIsLive
  <2>2. PICK n : Indexed(Now, n, live)
    BY <1>1, <2>1 DEF TableInv
  <2>3. n \in Nat \ {0}
    BY <2>2 DEF Indexed
  <2>4. PICK C : ChainsOf(Now, n, live, C)
    BY <2>2 DEF Indexed
  <2> DEFINE b == ToBkt(e, n)
  <2> DEFINE link == hh.hh_next
  <2> DEFINE back == hh.hh_prev
  <2> DEFINE first == tbl.buckets[b].hh_head
  <2> DEFINE c == C[b]
  <2>5. e \in Entry /\ b \in 0..n - 1
    BY <1>2, <2>3, ToBktRange
  <2>6. /\ c \in Seq(Entry) /\ IsList(first, link, back, c)
        /\ \A x \in Entry : Contains(c, x) <=> x \in live /\ ToBkt(x, n) = b
    <3> HIDE DEF b
    <3> QED
      BY <2>4, <2>5, NowParts DEF ChainsOf, Chains
  <2>7. Contains(c, e)
    <3> HIDE DEF c
    <3> QED
      BY <2>5, <2>6
  <2> HIDE DEF b, link, back, first, c
  <2>8. \A x \in Entry : Contains(c, x) => x \in live
    BY <2>6
  <2>9. link[e] \in live \union {NULL} /\ back[e] \in live \union {NULL}
    BY <2>6, <2>7, <2>8, LinksStay
  <2> QED
    BY <2>9 DEF link, back
<1>7. \A field \in DOMAIN hh, e \in live : hh[field][e] \in live \union {NULL}
  <2>1. DOMAIN hh = {"prev", "next", "hh_prev", "hh_next"}
    BY <1>2, LinksField
  <2> QED
    BY <1>5, <1>6, <2>1
<1>8. NextOf(head) \in live \union {NULL}
  BY <1>3, <1>5 DEF NextOf
<1>9. tmp \in live \union {NULL} /\ (pc = "body" => el \in live \union {NULL})
  BY <1>1, <1>3, <1>8 DEF LoopInv
<1> QED
  BY <1>3, <1>4, <1>7, <1>9 DEF NoUseAfterFree

(* No pointer that anything follows leads to a counter that mdcs_finalize    *)
(* has freed.                                                                *)
THEOREM NothingFreedIsUsed == Spec => []NoUseAfterFree
<1> QED
  BY InvIsSafe, HashInvariant, PTL

(* Within names the bound of each bucket. *)
LEMMA InvIsBounded == IInv => ChainsBounded
<1> SUFFICES ASSUME IInv, ~tbl.noexpand, NEW b \in DOMAIN tbl.buckets
             PROVE  tbl.buckets[b].count <=
                      (tbl.buckets[b].expand_mult + 1) * HASH_BKT_CAPACITY_THRESH
  BY DEF ChainsBounded
<1>1. TableInv
  BY DEF IInv
<1>2. CASE head = NULL
  <2>1. tbl.buckets = << >>
    BY <1>1, <1>2 DEF TableInv, NoTable
  <2>2. DOMAIN << >> = {}
    OBVIOUS
  <2> QED
    BY <2>1, <2>2
<1>3. CASE head # NULL
  <2>1. PICK n : Indexed(Now, n, live)
    BY <1>1, <1>3 DEF TableInv
  <2>2. n \in Nat /\ Now \in States(n) /\ Within(Now, n)
    BY <2>1, NowParts DEF Indexed
  <2>3. b \in 0..n - 1
    BY <2>2, StateFields, NowParts
  <2> QED
    BY <2>2, <2>3, NowParts DEF Within
<1> QED
  BY <1>2, <1>3

(* Until uthash gives up expanding, no chain exceeds the length its bucket   *)
(* is allowed: one expansion always makes room enough.                       *)
THEOREM ChainsStayBounded == Spec => []ChainsBounded
<1> QED
  BY InvIsBounded, HashInvariant, PTL

(* The walk along the list of all entries meets it. *)
LEMMA ListWalk ==
  ASSUME NEW h \in Links, NEW first, NEW P \in SUBSET Entry, NEW list,
         Enlisted(h, first, P, list)
  PROVE  Walk(h.next, first) = list
<1> DEFINE link == h.next
<1> DEFINE B == {0}
<1> DEFINE C == [b \in B |-> list]
<1> DEFINE bkt == [e \in Entry |-> 0]
<1>1. /\ link \in [Entry -> Pointer] /\ list \in Seq(Entry)
      /\ first = Front(list) /\ Injects(list) /\ Linked(link, list)
      /\ \A x \in Entry : Contains(list, x) <=> x \in P
      /\ \A x \in Entry \ P : link[x] = NULL
  BY DEF Enlisted, IsList, Links, Link
<1> HIDE DEF link
<1>2. C \in [B -> Seq(Entry)] /\ bkt \in [Entry -> B] /\ C[0] = list
  BY <1>1
<1>3. \A i \in 1..Len(list) : list[i] \in Entry /\ list[i] \in P
  BY <1>1, EntrySeq DEF Contains
<1>4. \A e \in P : \E i \in 1..Len(list) : list[i] = e
  BY <1>1 DEF Contains
<1>5. Spread(link, B, C, bkt, P)
  <2>1. \A b \in B : C[b] = list /\ b = 0
    OBVIOUS
  <2>2. \A e \in Entry : bkt[e] = 0
    OBVIOUS
  <2> HIDE DEF B, C, bkt
  <2>3. \A b \in B : \A i \in 1..Len(C[b]) : C[b][i] \in P /\ bkt[C[b][i]] = b
    BY <1>3, <2>1, <2>2
  <2>4. \A e \in P : \E i \in 1..Len(C[bkt[e]]) : C[bkt[e]][i] = e
    BY <1>2, <1>4, <2>2
  <2> QED
    BY <1>1, <1>2, <2>1, <2>3, <2>4 DEF Spread
<1>6. \A b \in B : Walk(link, Front(C[b])) = C[b]
  <2> HIDE DEF B, C, bkt
  <2> QED
    BY <1>5, WalkAlong
<1> QED
  BY <1>1, <1>2, <1>6 DEF link

(* The loops of HASH_FSCK meet the list and the chains of the invariant. *)
LEMMA InvPassesFsck == IInv => PassesFsck
<1> SUFFICES ASSUME IInv, head # NULL PROVE HASH_FSCK
  BY DEF PassesFsck, HASH_FSCK
<1>1. TableInv /\ live \in SUBSET Entry /\ hh \in Links /\ OffChains(Now, live)
  BY DEF IInv, TableInv
<1>2. PICK list : Enlisted(hh, head, live, list)
  BY <1>1 DEF TableInv
<1>3. /\ list \in Seq(Entry) /\ BackLinked(hh.prev, list) /\ Injects(list)
      /\ \A x \in Entry : Contains(list, x) <=> x \in live
  BY <1>2 DEF Enlisted, IsList
<1>4. Walk(hh.next, head) = list
  BY <1>1, <1>2, ListWalk
<1>5. Cardinality(live) = Len(list)
  BY <1>1, <1>3, LengthIsCardinality
<1>6. PICK n : Indexed(Now, n, live)
  BY <1>1 DEF TableInv
<1>7. n \in Nat \ {0} /\ n \in Nat /\ Now \in States(n) /\ tbl.num_items = Cardinality(live)
  BY <1>6, NowParts DEF Indexed
<1>8. PICK C : ChainsOf(Now, n, live, C)
  BY <1>6 DEF Indexed
<1>9. DOMAIN tbl.buckets = 0..n - 1
  BY <1>7, StateFields, NowParts
<1>10. \A b \in 0..n - 1 : /\ BackLinked(hh.hh_prev, Chain(b))
                           /\ tbl.buckets[b].count = Len(Chain(b))
  <2>1. Walked(Now, n, C)
    BY <1>1, <1>7, <1>8, ChainWalk
  <2>2. \A b \in 0..n - 1 : Chain(b) = C[b]
    BY <2>1, NowParts DEF Chain, Walked
  <2>3. \A b \in 0..n - 1 : BackLinked(hh.hh_prev, C[b]) /\ tbl.buckets[b].count = Len(C[b])
    BY <1>8, NowParts DEF ChainsOf, Chains, IsList
  <2> QED
    BY <2>2, <2>3
<1>11. tbl.num_items = Len(InBuckets(Now))
  <2> DEFINE met == InBuckets(Now)
  <2>1. /\ met \in Seq(Entry) /\ Injects(met)
        /\ \A x \in Entry : Contains(met, x) <=> x \in live
    BY <1>1, <1>7, <1>8, InBucketsMeetsEachOnce
  <2> HIDE DEF met
  <2>2. Cardinality(live) = Len(met)
    BY <1>1, <2>1, LengthIsCardinality
  <2> QED
    BY <1>7, <2>2 DEF met
<1> QED
  BY <1>3, <1>4, <1>5, <1>7, <1>9, <1>10, <1>11 DEF HASH_FSCK, Now

(* The integrity check of uthash passes in every state: both lists are       *)
(* linked backwards as they are forwards, and every count is exact.          *)
THEOREM FsckPasses == Spec => []PassesFsck
<1> QED
  BY InvPassesFsck, HashInvariant, PTL

-----------------------------------------------------------------------------
(* The table implements a set of counters *)

(* What the list holds is the set of allocated counters. *)
LEMMA ListHoldsLive == TableInv => Range(Walk(hh.next, head)) = live
<1> SUFFICES ASSUME TableInv PROVE Range(Walk(hh.next, head)) = live
  OBVIOUS
<1>1. hh \in Links /\ live \in SUBSET Entry
  BY DEF TableInv
<1>2. PICK list : Enlisted(hh, head, live, list)
  BY DEF TableInv
<1>3. list \in Seq(Entry) /\ \A x \in Entry : Contains(list, x) <=> x \in live
  BY <1>2 DEF Enlisted
<1>4. Walk(hh.next, head) = list
  BY <1>1, <1>2, ListWalk
<1>5. Range(list) \subseteq Entry /\ \A x \in Entry : x \in Range(list) <=> Contains(list, x)
  BY <1>3, EntrySeq DEF Range, Contains
<1> QED
  BY <1>1, <1>3, <1>4, <1>5

(* HASH_ADD adds the one counter, HASH_DEL in the loop of mdcs_finalize      *)
(* removes one that is there, the loop ends only with none left, and nothing *)
(* else, no expansion either, changes the set of counters that the list      *)
(* holds: the table is the set that the service takes it for.                *)
THEOREM TableIsASet == Spec => Table!Safety
<1> DEFINE entries == Range(Walk(hh.next, head))
<1>1. Init => Table!Init
  <2> SUFFICES ASSUME Init PROVE Table!Init
    OBVIOUS
  <2>1. entries = live
    BY InitInv, ListHoldsLive DEF IInv
  <2>2. live = {} /\ pc = "idle"
    BY DEF Init
  <2> QED
    BY <2>1, <2>2 DEF Table!Init
<1>2. IInv /\ IInv' /\ [Next]_vars => [Table!Next]_(Table!vars)
  <2> SUFFICES ASSUME IInv, IInv', [Next]_vars PROVE [Table!Next]_(Table!vars)
    OBVIOUS
  <2>1. TableInv /\ LoopInv
    BY DEF IInv
  <2>2. entries = live
    BY <2>1, ListHoldsLive
  <2>3. entries' = live'
    <3>1. TableInv'
      BY DEF IInv
    <3>2. (TableInv => Range(Walk(hh.next, head)) = live)'
      BY ListHoldsLive, PTL
    <3> QED
      BY <3>1, <3>2
  <2> HIDE DEF entries
  <2>4. ASSUME NEW e \in Entry, Register(e) PROVE Table!Next
    <3>1. e \notin live
      BY <2>1, <2>4, TableFinds, UtHashAssumption DEF Register, LookupExact
    <3>2. Table!Add(e)
      BY <2>2, <2>3, <2>4, <3>1 DEF Register, Table!Add, entries
    <3> QED
      BY <3>2 DEF Table!Next
  <2>5. CASE IterStart
    BY <2>2, <2>3, <2>5 DEF IterStart, Table!Start, Table!Next, entries
  <2>6. CASE IterBody
    <3>1. head # NULL /\ el = head
      BY <2>1, <2>6 DEF LoopInv, IterBody
    <3>2. head \in live /\ head \in Entry
      BY <2>1, <3>1, HeadIsLive
    <3>3. live' = live \ {head}
      BY <2>6, <3>1 DEF IterBody, DeleteAndFree
    <3>4. Table!Remove(head)
      BY <2>2, <2>3, <2>6, <3>2, <3>3 DEF IterBody, Table!Remove, entries
    <3> QED
      BY <3>2, <3>4 DEF Table!Next
  <2>7. CASE IterNext
    BY <2>2, <2>3, <2>7 DEF IterNext, Table!vars, entries
  <2>8. CASE IterEnd
    <3>1. live = {}
      BY <2>1, <2>8, HeadIsLive DEF LoopInv, IterEnd
    <3> QED
      BY <2>2, <2>3, <2>8, <3>1 DEF IterEnd, Table!End, Table!Next, entries
  <2>9. CASE UNCHANGED vars
    BY <2>2, <2>3, <2>9 DEF vars, Table!vars, entries
  <2> QED
    BY <2>4, <2>5, <2>6, <2>7, <2>8, <2>9 DEF Next
<1> QED
  BY <1>1, <1>2, HashInvariant, PTL DEF Spec, Table!Safety
=============================================================================
