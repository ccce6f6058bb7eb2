---------------------------- MODULE MdcsRpc_proofs ----------------------------
(***************************************************************************)
(* What holds of remote access for every number of clients, every set of   *)
(* counters and every choice of the calls that may fail.                   *)
(***************************************************************************)
EXTENDS MdcsRpc, MdcsService_proofs

(* The messages and the calls. *)
CallRecord ==
  [ pc     : {"idle", "waiting"},
    op     : {"fetch", "reset"},
    id     : Id \union {0},
    size   : Size \union {0},
    value  : Seq(Item) \union {NoValue},
    result : {"none", "MDCS_SUCCESS", "MDCS_ERROR"} ]

RequestRecord == [from : Client, op : {"fetch", "reset"}, id : Id, size : Size \union {0}]
HandlerRecord == [from : Client, pc : {"transfer", "respond"}, value : Seq(Item)]
ResponseRecord == [to : Client, ret : {"MDCS_SUCCESS", "MDCS_ERROR"}]

(* They are of these types. *)
MessagesTyped ==
  /\ client \in [Client -> CallRecord]
  /\ requests \subseteq RequestRecord
  /\ handlers \subseteq HandlerRecord
  /\ responses \subseteq ResponseRecord

(* Nothing of the client's call is under way. *)
Alone(c) ==
  /\ \A r \in requests : r.from # c
  /\ \A k \in handlers : k.from # c
  /\ \A m \in responses : m.to # c

(* A call is in one place at a time: its request, its handler, its response. *)
InOnePlace(c) ==
  /\ \A r, s \in requests : r.from = c /\ s.from = c => r = s
  /\ \A k, l \in handlers : k.from = c /\ l.from = c => k = l
  /\ \A m, o \in responses : m.to = c /\ o.to = c => m = o
  /\ \A r \in requests, k \in handlers : ~(r.from = c /\ k.from = c)
  /\ \A r \in requests, m \in responses : ~(r.from = c /\ m.to = c)
  /\ \A k \in handlers, m \in responses : ~(k.from = c /\ m.to = c)
  /\ Idle(c) => Alone(c)

(* All calls are. *)
AllInOnePlace == \A c \in Client : InOnePlace(c)

(* What is under way for a client is about the call it waits for: a request  *)
(* carries its arguments, a handler has a value that was seen during the     *)
(* call, and has stored it when it is about to answer.                       *)
Matched ==
  /\ \A r \in requests :
       /\ r.op = client[r.from].op
       /\ r.id = client[r.from].id
       /\ client[r.from].value = NoValue
  /\ \A k \in handlers :
       /\ client[k.from].op = "fetch"
       /\ client[k.from].value = IF k.pc = "transfer" THEN NoValue ELSE k.value
       /\ k.value \in seen[k.from]
  /\ AnswerMatchesDelivery
  /\ FetchIsLinearizable

(* The invariant: that of the service, and what the clients rely on. *)
RpcInv == IInv /\ MessagesTyped /\ AllInOnePlace /\ Matched

-----------------------------------------------------------------------------
(* The server's use of its service *)

(* A lookup finds allocated counters of an initialised service. *)
LEMMA FoundIsLive ==
  ASSUME IInv, NEW id, NEW h \in WithId(id)
  PROVE  h \in Handle /\ h \in table /\ Live(h) /\ ~Refused(h) /\ counters[h].id = id
<1>1. Typed /\ Listed /\ h \in table /\ counters[h].id = id
  BY DEF IInv, WithId
<1>2. h \in Handle /\ initialized
  BY <1>1 DEF Typed, Listed
<1>3. h # MDCS_COUNTER_NULL
  BY <1>2, ServiceAssumption
<1> QED
  BY <1>1, <1>2, <1>3 DEF Listed, Refused

(* What a remote call does to the service, the server could do by itself:    *)
(* mdcs-rpc.c reaches the counters through the functions of mdcs.h only.     *)
LEMMA ServiceStep ==
  ASSUME IInv, MessagesTyped, RpcStep
  PROVE  [Next]_vars
<1>1. CASE UNCHANGED serviceVars
  BY <1>1 DEF serviceVars
<1>2. CASE Local
  BY <1>2 DEF Local
<1>3. ASSUME NEW id \in Id, FindById(id) PROVE Next
  <2>1. PICK n \in Name : id = Hash(n)
    BY DEF Id
  <2> QED
    BY <1>3, <2>1 DEF Next, FindByName
<1>4. ASSUME NEW r \in requests, GetCounter(r) PROVE [Next]_vars
  <2>1. Running /\ r.id \in Id
    BY <1>4 DEF GetCounter, MessagesTyped, RequestRecord
  <2>2. ASSUME NEW h \in WithId(r.id), GetCounterFound(r, h) PROVE [Next]_vars
    <3>1. h \in Handle /\ Live(h) /\ ~Refused(h)
      BY FoundIsLive
    <3>2. Value(h) => Next
      BY <3>1 DEF Next
    <3>3. CASE ~Usable(TypeOf(h))
      <4>1. Value(h)
        BY <2>1, <2>2, <3>1, <3>3 DEF GetCounterFound, Value, Leaves
      <4> QED
        BY <3>2, <4>1
    <3>4. CASE Usable(TypeOf(h))
      <4>1. FindById(r.id) \/ Value(h)
        BY <2>2, <3>4 DEF GetCounterFound
      <4> QED
        BY <1>3, <2>1, <3>2, <4>1
    <3> QED
      BY <3>3, <3>4
  <2> QED
    BY <1>1, <1>3, <1>4, <2>1, <2>2 DEF GetCounter
<1>5. ASSUME NEW r \in requests, ResetCounter(r) PROVE [Next]_vars
  <2>1. CASE WithId(0) = {} /\ FindById(0)
    <3>1. Digest(MDCS_COUNTER_NULL)
      BY <1>5, <2>1 DEF ResetCounter, Digest, Refused, FindById, Fails
    <3> QED
      BY <3>1 DEF Next
  <2>2. ASSUME NEW h \in WithId(0), Reset(h) PROVE Next
    BY <2>2, FoundIsLive DEF Next
  <2> QED
    BY <1>5, <2>1, <2>2 DEF ResetCounter
<1> QED
  BY <1>1, <1>2, <1>4, <1>5
     DEF RpcStep, RemoteFetch, RemoteReset, RemoteCall, Bounce, Transfer, Respond, Return

(* The copy that a fetch sends is the content of its counter at that moment. *)
LEMMA FetchReads ==
  ASSUME IInv, NEW id, NEW h \in WithId(id), Usable(TypeOf(h)), Value(h)
  PROVE  Fetched(h) \in Readable(id)' /\ Fetched(h) \in Seq(Item)
<1>1. Typed /\ AllWhole /\ h \in Handle /\ h \in table /\ Live(h) /\ ~Refused(h)
      /\ counters[h].id = id
  BY FoundIsLive DEF IInv
<1> DEFINE c == counters[h].c
           d == Digested(c)
<1>2. Shape(c) /\ Content(c) \in Seq(Item)
  BY <1>1 DEF AllWhole, Whole
<1>3. d.data = Content(c) /\ Content(d) = Content(c)
  BY <1>2, DigestKeepsContent
<1>4. counters' = [counters EXCEPT ![h].c = d] /\ table' = table
  BY <1>1 DEF Value, Leaves
<1>5. counters[h] \in Entry /\ counters \in [Handle -> Entry]
  BY <1>1 DEF Typed
<1> HIDE DEF c, d
<1>6. counters'[h].c = d /\ counters'[h].id = id
  BY <1>1, <1>4, <1>5 DEF Entry
<1>7. h \in WithId(id)'
  BY <1>1, <1>4, <1>6 DEF WithId
<1>8. Content(d) \in Readable(id)'
  BY <1>6, <1>7 DEF Readable
<1> QED
  BY <1>2, <1>3, <1>8 DEF Fetched, c, d

-----------------------------------------------------------------------------
(* The kinds of steps a call can take *)

(* Nothing of the clients' calls changes. *)
Stays == UNCHANGED << client, requests, handlers, responses >>

(* The client starts a call, which fails at once or sends its request. *)
Asks(c) ==
  /\ Idle(c)
  /\ \E e \in CallRecord :
       /\ e.value = NoValue
       /\ client' = [client EXCEPT ![c] = e]
       /\ \/ e.pc = "idle" /\ UNCHANGED requests
          \/ /\ e.pc = "waiting"
             /\ \E r \in RequestRecord :
                  /\ r.from = c /\ r.op = e.op /\ r.id = e.id
                  /\ requests' = requests \union {r}
  /\ UNCHANGED << handlers, responses >>

(* Its call returns. *)
Stops(c) ==
  \E e \in CallRecord :
    /\ e.pc = "idle" /\ e.op = client[c].op /\ e.id = client[c].id
    /\ e.value = client[c].value
    /\ client' = [client EXCEPT ![c] = e]

(* Its request is dropped: margo_forward fails. *)
Bounces(r) ==
  requests' = requests \ {r} /\ Stops(r.from) /\ UNCHANGED << handlers, responses >>

(* Its response arrives. *)
Delivers(m) ==
  responses' = responses \ {m} /\ Stops(m.to) /\ UNCHANGED << requests, handlers >>

(* A handler ran to its end, with or without an answer, or to its transfer. *)
Handles(r) ==
  /\ requests' = requests \ {r}
  /\ UNCHANGED client
  /\ \/ UNCHANGED << handlers, responses >>
     \/ /\ \E m \in ResponseRecord :
             /\ m.to = r.from
             /\ r.op = "fetch" => m.ret = "MDCS_ERROR"
             /\ responses' = responses \union {m}
        /\ UNCHANGED handlers
     \/ /\ r.op = "fetch"
        /\ \E k \in HandlerRecord :
             /\ k.from = r.from /\ k.pc = "transfer" /\ k.value \in Readable(r.id)'
             /\ handlers' = handlers \union {k}
        /\ UNCHANGED responses

(* Its value is stored, and the handler is to answer. *)
Transfers(k) ==
  /\ k.pc = "transfer"
  /\ \E e \in CallRecord :
       /\ e.pc = client[k.from].pc /\ e.op = client[k.from].op /\ e.id = client[k.from].id
       /\ e.value = k.value
       /\ client' = [client EXCEPT ![k.from] = e]
  /\ \E l \in HandlerRecord :
       /\ l.from = k.from /\ l.pc = "respond" /\ l.value = k.value
       /\ handlers' = (handlers \ {k}) \union {l}
  /\ UNCHANGED << requests, responses >>

(* A handler ended, with or without an answer. *)
Ends(k) ==
  /\ handlers' = handlers \ {k}
  /\ \/ UNCHANGED responses
     \/ /\ k.pc = "respond"
        /\ \E m \in ResponseRecord :
             m.to = k.from /\ m.ret = "MDCS_SUCCESS" /\ responses' = responses \union {m}
  /\ UNCHANGED << client, requests >>

(* A request that found its counter is answered, given up or transferred.    *)
LEMMA HandlingKinds ==
  ASSUME IInv, MessagesTyped, RpcStep, NEW r \in requests, GetCounter(r) \/ ResetCounter(r)
  PROVE  Handles(r)
<1>1. r \in RequestRecord /\ requests' = requests \ {r} /\ client' = client
  BY DEF MessagesTyped, GetCounter, ResetCounter
<1>2. r.from \in Client
  BY <1>1 DEF RequestRecord
<1>3. ASSUME NEW call, EndsEarly(r, call) PROVE Handles(r)
  BY <1>1, <1>3 DEF EndsEarly, GivesUp, Handles
<1>4. ASSUME NEW code \in Codes, r.op = "fetch" => code = "MDCS_ERROR", Answer(r, code)
      PROVE  Handles(r)
  <2>1. [to |-> r.from, ret |-> code] \in ResponseRecord
    BY <1>2 DEF ResponseRecord, Codes
  <2> QED
    BY <1>1, <1>4, <2>1 DEF Answer, Responds, GivesUp, Handles
<1>5. CASE GetCounter(r)
  <2>1. r.op = "fetch"
    BY <1>5 DEF GetCounter
  <2>2. ASSUME NEW h \in WithId(r.id), GetCounterFound(r, h) PROVE Handles(r)
    <3>1. CASE StartTransfer(r, h) /\ Value(h) /\ Usable(TypeOf(h))
      <4>1. Fetched(h) \in Readable(r.id)' /\ Fetched(h) \in Seq(Item)
        BY <3>1, FetchReads
      <4> DEFINE k == [from |-> r.from, pc |-> "transfer", value |-> Fetched(h)]
      <4>2. /\ k \in HandlerRecord /\ k.from = r.from /\ k.pc = "transfer"
            /\ k.value \in Readable(r.id)'
        BY <1>2, <4>1 DEF HandlerRecord
      <4>3. handlers' = handlers \union {k} /\ responses' = responses
        BY <3>1 DEF StartTransfer
      <4> HIDE DEF k
      <4> QED
        BY <1>1, <2>1, <4>2, <4>3 DEF Handles
    <3>2. CASE RefuseSize(r)
      BY <1>4, <3>2 DEF RefuseSize, Codes
    <3>3. CASE EndsEarly(r, "calloc") \/ EndsEarly(r, "margo_bulk_create")
      BY <1>3, <3>3
    <3>4. CASE UNCHANGED << handlers, responses, gaveUp >>
      BY <1>1, <3>4 DEF Handles
    <3> QED
      BY <2>2, <3>1, <3>2, <3>3, <3>4 DEF GetCounterFound
  <2>3. CASE EndsEarly(r, "margo_get_input")
    BY <1>3, <2>3
  <2>4. CASE Answer(r, "MDCS_ERROR")
    BY <1>4, <2>4 DEF Codes
  <2> QED
    BY <1>5, <2>2, <2>3, <2>4 DEF GetCounter
<1>6. CASE ResetCounter(r)
  <2>1. r.op = "reset"
    BY <1>6 DEF ResetCounter
  <2>2. ret' \in Codes
    <3>1. Typed'
      BY ServiceStep, TypedNext DEF IInv
    <3> QED
      BY <3>1 DEF Typed, Codes
  <2>3. CASE fault' = "none"
    BY <1>4, <1>6, <2>1, <2>2, <2>3 DEF ResetCounter
  <2>4. CASE fault' # "none"
    BY <1>1, <1>6, <2>4 DEF ResetCounter, Handles
  <2> QED
    BY <2>3, <2>4
<1> QED
  BY <1>5, <1>6

(* Every step is of one of the kinds. *)
LEMMA RpcStepKinds ==
  ASSUME IInv, MessagesTyped, RpcStep
  PROVE  \/ Stays
         \/ \E c \in Client : Asks(c)
         \/ \E r \in requests : Bounces(r) \/ Handles(r)
         \/ \E k \in handlers : Transfers(k) \/ Ends(k)
         \/ \E m \in responses : Delivers(m)
<1>1. CASE Local
  BY <1>1 DEF Local, rpcVars, Stays
<1>2. ASSUME NEW c \in Client, NEW op \in {"fetch", "reset"}, NEW id \in Id,
             NEW size \in Size \union {0}, RemoteCall(c, op, id, size)
      PROVE  Asks(c)
  <2> DEFINE e == Call(c, op, id, size)
             r == Request(c, op, id, size)
             f == [e EXCEPT !.pc = "idle", !.result = "MDCS_ERROR"]
  <2>1. /\ e \in CallRecord /\ e.pc = "waiting" /\ e.op = op /\ e.id = id /\ e.value = NoValue
        /\ f \in CallRecord /\ f.pc = "idle" /\ f.value = NoValue
    BY DEF Call, CallRecord
  <2>2. r \in RequestRecord /\ r.from = c /\ r.op = op /\ r.id = id
    BY DEF Request, RequestRecord
  <2>3. /\ Idle(c)
        /\ UNCHANGED << handlers, responses >>
        /\ \/ client' = [client EXCEPT ![c] = f] /\ UNCHANGED requests
           \/ client' = [client EXCEPT ![c] = e] /\ requests' = requests \union {r}
    BY <1>2 DEF RemoteCall, CallFails
  <2> HIDE DEF e, r, f
  <2> QED
    BY <2>1, <2>2, <2>3 DEF Asks
<1>3. ASSUME NEW c \in Client
      PROVE  /\ client' = [client EXCEPT ![c].pc = "idle"] => Stops(c)
             /\ client' = [client EXCEPT ![c].pc = "idle", ![c].result = "MDCS_ERROR"] => Stops(c)
  <2> DEFINE e == [client[c] EXCEPT !.pc = "idle"]
             f == [client[c] EXCEPT !.pc = "idle", !.result = "MDCS_ERROR"]
  <2>1. client[c] \in CallRecord /\ c \in DOMAIN client
    BY DEF MessagesTyped
  <2>2. /\ e \in CallRecord /\ e.pc = "idle" /\ e.op = client[c].op /\ e.id = client[c].id
        /\ e.value = client[c].value
    BY <2>1 DEF CallRecord
  <2>3. /\ f \in CallRecord /\ f.pc = "idle" /\ f.op = client[c].op /\ f.id = client[c].id
        /\ f.value = client[c].value
    BY <2>1 DEF CallRecord
  <2>4. [client EXCEPT ![c].pc = "idle"] = [client EXCEPT ![c] = e]
    OBVIOUS
  <2>5. [client EXCEPT ![c].pc = "idle", ![c].result = "MDCS_ERROR"] = [client EXCEPT ![c] = f]
    BY <2>1
  <2> HIDE DEF e, f
  <2> QED
    BY <2>2, <2>3, <2>4, <2>5 DEF Stops
<1>4. ASSUME NEW r \in requests, Bounce(r) PROVE Bounces(r)
  BY <1>3, <1>4 DEF Bounce, Bounces, MessagesTyped, RequestRecord
<1>5. ASSUME NEW m \in responses, Return(m) PROVE Delivers(m)
  BY <1>3, <1>5 DEF Return, Delivers, MessagesTyped, ResponseRecord
<1>6. ASSUME NEW k \in handlers, Transfer(k) PROVE Transfers(k) \/ Ends(k)
  <2> DEFINE e == [client[k.from] EXCEPT !.value = k.value]
             l == [k EXCEPT !.pc = "respond"]
  <2>1. k \in HandlerRecord /\ k.from \in Client /\ client[k.from] \in CallRecord
    BY DEF MessagesTyped, HandlerRecord
  <2>2. /\ e \in CallRecord /\ e.pc = client[k.from].pc /\ e.op = client[k.from].op
        /\ e.id = client[k.from].id /\ e.value = k.value
    BY <2>1 DEF CallRecord, HandlerRecord
  <2>3. l \in HandlerRecord /\ l.from = k.from /\ l.pc = "respond" /\ l.value = k.value
    BY <2>1 DEF HandlerRecord
  <2>4. /\ k.pc = "transfer" /\ UNCHANGED requests
        /\ \/ /\ client' = [client EXCEPT ![k.from].value = k.value]
              /\ handlers' = (handlers \ {k}) \union {l}
              /\ UNCHANGED responses
           \/ handlers' = handlers \ {k} /\ UNCHANGED << client, responses >>
    BY <1>6 DEF Transfer, GivesUp
  <2>5. [client EXCEPT ![k.from].value = k.value] = [client EXCEPT ![k.from] = e]
    OBVIOUS
  <2> HIDE DEF e, l
  <2> QED
    BY <2>2, <2>3, <2>4, <2>5 DEF Transfers, Ends
<1>7. ASSUME NEW k \in handlers, Respond(k) PROVE Ends(k)
  <2>1. k.from \in Client
    BY DEF MessagesTyped, HandlerRecord
  <2>2. [to |-> k.from, ret |-> "MDCS_SUCCESS"] \in ResponseRecord
    BY <2>1 DEF ResponseRecord
  <2> QED
    BY <1>7, <2>2 DEF Respond, Responds, GivesUp, Ends
<1> QED
  BY <1>1, <1>2, <1>4, <1>5, <1>6, <1>7, HandlingKinds
     DEF RpcStep, RemoteFetch, RemoteReset

-----------------------------------------------------------------------------
(* The invariant *)

(* What is under way keeps its types. *)
LEMMA MessagesTypedNext ==
  ASSUME IInv, MessagesTyped, RpcStep
  PROVE  MessagesTyped'
<1>1. CASE Stays
  BY <1>1 DEF MessagesTyped, Stays
<1>2. ASSUME NEW c \in Client, Asks(c) PROVE MessagesTyped'
  BY <1>2 DEF MessagesTyped, Asks
<1>3. ASSUME NEW r \in requests, Bounces(r) PROVE MessagesTyped'
  BY <1>3 DEF MessagesTyped, Bounces, Stops
<1>4. ASSUME NEW r \in requests, Handles(r) PROVE MessagesTyped'
  BY <1>4 DEF MessagesTyped, Handles
<1>5. ASSUME NEW k \in handlers, Transfers(k) PROVE MessagesTyped'
  BY <1>5 DEF MessagesTyped, Transfers
<1>6. ASSUME NEW k \in handlers, Ends(k) PROVE MessagesTyped'
  BY <1>6 DEF MessagesTyped, Ends
<1>7. ASSUME NEW m \in responses, Delivers(m) PROVE MessagesTyped'
  BY <1>7 DEF MessagesTyped, Delivers, Stops
<1> QED
  BY <1>1, <1>2, <1>3, <1>4, <1>5, <1>6, <1>7, RpcStepKinds

(* Only the client whose call is concerned is disturbed by a step. *)
LEMMA OnePlaceNext ==
  ASSUME IInv, MessagesTyped, AllInOnePlace, RpcStep
  PROVE  AllInOnePlace'
<1> SUFFICES ASSUME NEW c \in Client PROVE InOnePlace(c)'
  BY DEF AllInOnePlace
<1>1. InOnePlace(c) /\ \A d \in Client : InOnePlace(d)
  BY DEF AllInOnePlace
<1>2. CASE Stays
  BY <1>1, <1>2 DEF InOnePlace, Alone, Idle, Stays
<1>3. ASSUME NEW d \in Client, Asks(d) PROVE InOnePlace(c)'
  <2>1. PICK e \in CallRecord :
          /\ client' = [client EXCEPT ![d] = e]
          /\ \/ e.pc = "idle" /\ UNCHANGED requests
             \/ /\ e.pc = "waiting"
                /\ \E r \in RequestRecord : r.from = d /\ requests' = requests \union {r}
    BY <1>3 DEF Asks
  <2>2. Alone(d) /\ UNCHANGED << handlers, responses >>
    BY <1>1, <1>3 DEF Asks, InOnePlace
  <2>3. client'[c] = IF c = d THEN e ELSE client[c]
    BY <2>1 DEF MessagesTyped
  <2>4. CASE UNCHANGED requests
    BY <1>1, <1>3, <2>2, <2>3, <2>4 DEF InOnePlace, Alone, Idle, Asks
  <2>5. ASSUME e.pc = "waiting", NEW r \in RequestRecord, r.from = d,
               requests' = requests \union {r}
        PROVE  InOnePlace(c)'
    <3>1. CASE c # d
      BY <1>1, <2>2, <2>3, <2>5, <3>1 DEF InOnePlace, Alone, Idle
    <3>2. CASE c = d
      BY <1>1, <2>2, <2>3, <2>5, <3>2 DEF InOnePlace, Alone, Idle
    <3> QED
      BY <3>1, <3>2
  <2> QED
    BY <2>1, <2>4, <2>5
<1>4. ASSUME NEW d \in Client, Stops(d) PROVE \A b \in Client : b # d => Idle(b)' = Idle(b)
  BY <1>4 DEF Stops, Idle, MessagesTyped
<1>5. ASSUME NEW r \in requests, Bounces(r) PROVE InOnePlace(c)'
  <2>1. r.from \in Client
    BY DEF MessagesTyped, RequestRecord
  <2>2. /\ requests' = requests \ {r} /\ UNCHANGED << handlers, responses >>
        /\ c # r.from => Idle(c)' = Idle(c)
    BY <1>4, <1>5, <2>1 DEF Bounces
  <2> QED
    BY <1>1, <2>2 DEF InOnePlace, Alone
<1>6. ASSUME NEW r \in requests, Handles(r) PROVE InOnePlace(c)'
  <2>1. requests' = requests \ {r} /\ Idle(c)' = Idle(c)
    BY <1>6 DEF Handles, Idle
  <2>2. CASE UNCHANGED << handlers, responses >>
    BY <1>1, <2>1, <2>2 DEF InOnePlace, Alone
  <2>3. ASSUME NEW m \in ResponseRecord, m.to = r.from, responses' = responses \union {m},
               handlers' = handlers
        PROVE  InOnePlace(c)'
    BY <1>1, <2>1, <2>3 DEF InOnePlace, Alone
  <2>4. ASSUME NEW k \in HandlerRecord, k.from = r.from, handlers' = handlers \union {k},
               responses' = responses
        PROVE  InOnePlace(c)'
    BY <1>1, <2>1, <2>4 DEF InOnePlace, Alone
  <2> QED
    BY <1>6, <2>2, <2>3, <2>4 DEF Handles
<1>7. ASSUME NEW k \in handlers, Transfers(k) PROVE InOnePlace(c)'
  <2>1. UNCHANGED << requests, responses >> /\ Idle(c)' = Idle(c)
    BY <1>7 DEF Transfers, Idle, MessagesTyped
  <2>2. PICK l \in HandlerRecord : l.from = k.from /\ handlers' = (handlers \ {k}) \union {l}
    BY <1>7 DEF Transfers
  <2> QED
    BY <1>1, <2>1, <2>2 DEF InOnePlace, Alone
<1>8. ASSUME NEW k \in handlers, Ends(k) PROVE InOnePlace(c)'
  <2>1. requests' = requests /\ handlers' = handlers \ {k} /\ Idle(c)' = Idle(c)
    BY <1>8 DEF Ends, Idle
  <2>2. CASE responses' = responses
    BY <1>1, <2>1, <2>2 DEF InOnePlace, Alone
  <2>3. ASSUME NEW m \in ResponseRecord, m.to = k.from, responses' = responses \union {m}
        PROVE  InOnePlace(c)'
    BY <1>1, <2>1, <2>3 DEF InOnePlace, Alone
  <2> QED
    BY <1>8, <2>2, <2>3 DEF Ends
<1>9. ASSUME NEW m \in responses, Delivers(m) PROVE InOnePlace(c)'
  <2>1. m.to \in Client
    BY DEF MessagesTyped, ResponseRecord
  <2>2. /\ responses' = responses \ {m} /\ UNCHANGED << requests, handlers >>
        /\ c # m.to => Idle(c)' = Idle(c)
    BY <1>4, <1>9, <2>1 DEF Delivers
  <2> QED
    BY <1>1, <2>2 DEF InOnePlace, Alone
<1> QED
  BY <1>2, <1>3, <1>5, <1>6, <1>7, <1>8, <1>9, RpcStepKinds

(* While a client waits, what was seen of its counter stays seen. *)
LEMMA SeenGrows ==
  ASSUME Observe, NEW c \in Client, ~(Idle(c) /\ client'[c].pc = "waiting")
  PROVE  seen[c] \subseteq seen'[c]
  BY DEF Observe

(* A request, a handler or a response is about the call its client waits     *)
(* for, because no client starts a call while anything of its last one is    *)
(* under way.                                                                *)
LEMMA MatchedNext ==
  ASSUME RpcInv, RpcNext
  PROVE  Matched'
<1> DEFINE Asked(r) == /\ r.op = client[r.from].op
                       /\ r.id = client[r.from].id
                       /\ client[r.from].value = NoValue
           Served(k) == /\ client[k.from].op = "fetch"
                        /\ client[k.from].value = IF k.pc = "transfer" THEN NoValue ELSE k.value
                        /\ k.value \in seen[k.from]
           Told(m) == client[m.to].op = "fetch" =>
                        (m.ret = "MDCS_SUCCESS" <=> client[m.to].value # NoValue)
           Seen(c) == client[c].value # NoValue => client[c].value \in seen[c]
<1>1. /\ IInv /\ MessagesTyped /\ Observe /\ RpcStep
      /\ \A c \in Client : InOnePlace(c)
      /\ \A r \in requests : r.from \in Client /\ Asked(r)
      /\ \A k \in handlers : k.from \in Client /\ Served(k) /\ k.value # NoValue
      /\ \A m \in responses : m.to \in Client /\ Told(m)
      /\ \A c \in Client : Seen(c)
  <2>1. IInv /\ MessagesTyped /\ AllInOnePlace /\ Matched /\ Observe /\ RpcStep
    BY DEF RpcInv, RpcNext
  <2>2. \A r \in requests : r.from \in Client
    BY <2>1 DEF MessagesTyped, RequestRecord
  <2>3. \A k \in handlers : k.from \in Client /\ k.value # NoValue
    BY <2>1, RpcAssumption DEF MessagesTyped, HandlerRecord
  <2>4. \A m \in responses : m.to \in Client
    BY <2>1 DEF MessagesTyped, ResponseRecord
  <2> QED
    BY <2>1, <2>2, <2>3, <2>4 DEF Matched, AllInOnePlace, AnswerMatchesDelivery, FetchIsLinearizable
<1> SUFFICES /\ \A r \in requests' : Asked(r)'
             /\ \A k \in handlers' : Served(k)'
             /\ \A m \in responses' : Told(m)'
             /\ \A c \in Client : Seen(c)'
  BY DEF Matched, AnswerMatchesDelivery, FetchIsLinearizable
<1>2. ASSUME \A c \in Client : /\ client'[c].op = client[c].op
                               /\ client'[c].id = client[c].id
                               /\ client'[c].value = client[c].value
                               /\ ~(Idle(c) /\ client'[c].pc = "waiting")
      PROVE  /\ \A r \in requests : Asked(r)'
             /\ \A k \in handlers : Served(k)'
             /\ \A m \in responses : Told(m)'
             /\ \A c \in Client : Seen(c)'
  <2>1. \A c \in Client : seen[c] \subseteq seen'[c]
    BY <1>1, <1>2, SeenGrows
  <2> QED
    BY <1>1, <1>2, <2>1
<1>3. CASE Stays
  BY <1>2, <1>3 DEF Stays, Idle
<1>4. ASSUME NEW d \in Client, Stops(d)
      PROVE  \A c \in Client : /\ client'[c].op = client[c].op
                               /\ client'[c].id = client[c].id
                               /\ client'[c].value = client[c].value
                               /\ ~(Idle(c) /\ client'[c].pc = "waiting")
  BY <1>1, <1>4 DEF Stops, MessagesTyped, Idle
<1>5. ASSUME NEW r \in requests, Bounces(r)
      PROVE  /\ \A s \in requests' : Asked(s)'
             /\ \A k \in handlers' : Served(k)'
             /\ \A m \in responses' : Told(m)'
             /\ \A c \in Client : Seen(c)'
  <2>1. requests' \subseteq requests /\ handlers' = handlers /\ responses' = responses
    BY <1>5 DEF Bounces
  <2> QED
    BY <1>1, <1>2, <1>4, <1>5, <2>1 DEF Bounces
<1>6. ASSUME NEW m \in responses, Delivers(m)
      PROVE  /\ \A r \in requests' : Asked(r)'
             /\ \A k \in handlers' : Served(k)'
             /\ \A o \in responses' : Told(o)'
             /\ \A c \in Client : Seen(c)'
  <2>1. requests' = requests /\ handlers' = handlers /\ responses' \subseteq responses
    BY <1>6 DEF Delivers
  <2> QED
    BY <1>1, <1>2, <1>4, <1>6, <2>1 DEF Delivers
<1>7. ASSUME NEW d \in Client, Asks(d)
      PROVE  /\ \A r \in requests' : Asked(r)'
             /\ \A k \in handlers' : Served(k)'
             /\ \A m \in responses' : Told(m)'
             /\ \A c \in Client : Seen(c)'
  <2>1. PICK e \in CallRecord :
          /\ e.value = NoValue
          /\ client' = [client EXCEPT ![d] = e]
          /\ \/ UNCHANGED requests
             \/ \E r \in RequestRecord :
                  /\ r.from = d /\ r.op = e.op /\ r.id = e.id
                  /\ requests' = requests \union {r}
    BY <1>7 DEF Asks
  <2>2. Alone(d) /\ UNCHANGED << handlers, responses >>
    BY <1>1, <1>7 DEF Asks, InOnePlace
  <2>3. client'[d] = e /\ \A c \in Client : c # d => client'[c] = client[c]
    BY <1>1, <2>1 DEF MessagesTyped
  <2>4. \A c \in Client : c # d => seen[c] \subseteq seen'[c]
    BY <1>1, <2>3, SeenGrows DEF Idle
  <2>5. \A r \in requests : Asked(r)'
    BY <1>1, <2>2, <2>3 DEF Alone
  <2>6. \A k \in handlers' : Served(k)'
    BY <1>1, <2>2, <2>3, <2>4 DEF Alone
  <2>7. \A m \in responses' : Told(m)'
    BY <1>1, <2>2, <2>3 DEF Alone
  <2>8. \A c \in Client : Seen(c)'
    BY <1>1, <2>1, <2>3, <2>4
  <2>9. \A r \in requests' : Asked(r)'
    BY <2>1, <2>3, <2>5
  <2> QED
    BY <2>6, <2>7, <2>8, <2>9
<1>8. ASSUME NEW r \in requests, Handles(r)
      PROVE  /\ \A s \in requests' : Asked(s)'
             /\ \A k \in handlers' : Served(k)'
             /\ \A m \in responses' : Told(m)'
             /\ \A c \in Client : Seen(c)'
  <2>1. requests' \subseteq requests /\ client' = client
    BY <1>8 DEF Handles
  <2>2. /\ \A s \in requests : Asked(s)'
        /\ \A k \in handlers : Served(k)'
        /\ \A m \in responses : Told(m)'
        /\ \A c \in Client : Seen(c)'
    BY <1>2, <2>1 DEF Idle
  <2>3. CASE UNCHANGED << handlers, responses >>
    BY <2>1, <2>2, <2>3
  <2>4. ASSUME NEW m \in ResponseRecord, m.to = r.from, r.op = "fetch" => m.ret = "MDCS_ERROR",
               responses' = responses \union {m}, handlers' = handlers
        PROVE  \A o \in responses' : Told(o)'
    BY <1>1, <2>1, <2>2, <2>4
  <2>5. ASSUME NEW k \in HandlerRecord, k.from = r.from, k.pc = "transfer", r.op = "fetch",
               k.value \in Readable(r.id)', handlers' = handlers \union {k}
        PROVE  \A l \in handlers' : Served(l)'
    <3>1. client[r.from].pc = "waiting"
      BY <1>1 DEF InOnePlace, Alone, Idle, MessagesTyped, CallRecord
    <3>2. k.value \in seen'[r.from]
      <4>1. r.from \in Client /\ client'[r.from].pc = "waiting" /\ r.id = client'[r.from].id
        BY <1>1, <2>1, <3>1
      <4>2. Readable(client[r.from].id)' \subseteq seen'[r.from]
        BY <1>1, <4>1 DEF Observe
      <4>3. client[r.from].id' = r.id
        BY <4>1
      <4> QED
        BY <1>1, <2>1, <2>5, <4>2
    <3>3. Served(k)'
      BY <1>1, <2>1, <2>5, <3>2
    <3> QED
      BY <2>2, <2>5, <3>3
  <2> QED
    BY <1>8, <2>1, <2>2, <2>3, <2>4, <2>5 DEF Handles
<1>9. ASSUME NEW k \in handlers, Transfers(k)
      PROVE  /\ \A r \in requests' : Asked(r)'
             /\ \A l \in handlers' : Served(l)'
             /\ \A m \in responses' : Told(m)'
             /\ \A c \in Client : Seen(c)'
  <2>1. PICK e \in CallRecord :
          /\ e.pc = client[k.from].pc /\ e.op = client[k.from].op /\ e.id = client[k.from].id
          /\ e.value = k.value
          /\ client' = [client EXCEPT ![k.from] = e]
    BY <1>9 DEF Transfers
  <2>2. PICK l \in HandlerRecord :
          /\ l.from = k.from /\ l.pc = "respond" /\ l.value = k.value
          /\ handlers' = (handlers \ {k}) \union {l}
    BY <1>9 DEF Transfers
  <2>3. requests' = requests /\ responses' = responses
    BY <1>9 DEF Transfers
  <2>4. client'[k.from] = e /\ \A c \in Client : c # k.from => client'[c] = client[c]
    BY <1>1, <2>1 DEF MessagesTyped
  <2>5. \A c \in Client : seen[c] \subseteq seen'[c]
    BY <1>1, <2>1, <2>4, SeenGrows DEF Idle
  <2>6. /\ \A r \in requests : r.from # k.from
        /\ \A m \in responses : m.to # k.from
        /\ \A j \in handlers : j.from = k.from => j = k
    BY <1>1 DEF InOnePlace
  <2>7. \A r \in requests' : Asked(r)'
    BY <1>1, <2>3, <2>4, <2>6
  <2>8. \A m \in responses' : Told(m)'
    BY <1>1, <2>3, <2>4, <2>6
  <2>9. \A j \in handlers' : Served(j)'
    BY <1>1, <2>1, <2>2, <2>4, <2>5, <2>6
  <2>10. \A c \in Client : Seen(c)'
    BY <1>1, <2>1, <2>4, <2>5
  <2> QED
    BY <2>7, <2>8, <2>9, <2>10
<1>10. ASSUME NEW k \in handlers, Ends(k)
       PROVE  /\ \A r \in requests' : Asked(r)'
              /\ \A l \in handlers' : Served(l)'
              /\ \A m \in responses' : Told(m)'
              /\ \A c \in Client : Seen(c)'
  <2>1. requests' = requests /\ handlers' \subseteq handlers /\ client' = client
    BY <1>10 DEF Ends
  <2>2. /\ \A r \in requests : Asked(r)'
        /\ \A l \in handlers : Served(l)'
        /\ \A m \in responses : Told(m)'
        /\ \A c \in Client : Seen(c)'
    BY <1>2, <2>1 DEF Idle
  <2>3. ASSUME k.pc = "respond", NEW m \in ResponseRecord, m.to = k.from, m.ret = "MDCS_SUCCESS",
               responses' = responses \union {m}
        PROVE  \A o \in responses' : Told(o)'
    BY <1>1, <2>1, <2>2, <2>3
  <2> QED
    BY <1>10, <2>1, <2>2, <2>3 DEF Ends
<1> QED
  BY <1>1, <1>3, <1>5, <1>6, <1>7, <1>8, <1>9, <1>10, RpcStepKinds

(* The invariant holds before the first mdcs_init and the first call. *)
LEMMA RpcInvInit == RpcInit => RpcInv
<1> SUFFICES ASSUME RpcInit PROVE RpcInv
  OBVIOUS
<1>1. IInv
  BY InvInit DEF RpcInit
<1> DEFINE e == [pc |-> "idle", op |-> "fetch", id |-> 0, size |-> 0,
                 value |-> NoValue, result |-> "none"]
<1>2. e \in CallRecord /\ e.value = NoValue
  BY DEF CallRecord
<1>3. client = [c \in Client |-> e] /\ requests = {} /\ handlers = {} /\ responses = {}
  BY DEF RpcInit
<1> HIDE DEF e
<1>4. client \in [Client -> CallRecord] /\ \A c \in Client : client[c].value = NoValue
  BY <1>2, <1>3
<1> QED
  BY <1>1, <1>3, <1>4 DEF RpcInv, MessagesTyped, AllInOnePlace, InOnePlace, Alone, Matched,
                         AnswerMatchesDelivery, FetchIsLinearizable

(* The invariant is inductive. *)
LEMMA RpcInvNext == RpcInv /\ [RpcNext]_allVars => RpcInv' /\ [Next]_vars
<1> SUFFICES ASSUME RpcInv, [RpcNext]_allVars PROVE RpcInv' /\ [Next]_vars
  OBVIOUS
<1>1. CASE RpcNext
  <2>1. IInv /\ MessagesTyped /\ AllInOnePlace /\ RpcStep
    BY <1>1 DEF RpcInv, RpcNext
  <2>2. [Next]_vars
    BY <2>1, ServiceStep
  <2>3. IInv'
    BY <2>1, <2>2, InvNext
  <2> QED
    BY <1>1, <2>1, <2>2, <2>3, MessagesTypedNext, OnePlaceNext, MatchedNext DEF RpcInv
<1>2. CASE UNCHANGED allVars
  <2>1. [Next]_vars
    BY <1>2 DEF allVars, serviceVars
  <2>2. IInv'
    BY <2>1, InvNext DEF RpcInv
  <2>3. UNCHANGED << client, requests, handlers, responses, seen >>
    BY <1>2 DEF allVars, rpcVars
  <2> QED
    BY <2>1, <2>2, <2>3 DEF RpcInv, MessagesTyped, AllInOnePlace, InOnePlace, Alone, Idle, Matched,
                            AnswerMatchesDelivery, FetchIsLinearizable
<1> QED
  BY <1>1, <1>2

-----------------------------------------------------------------------------
(* What holds of remote access *)

(* A server with its remote clients is one more program that uses the        *)
(* service: whatever its handlers do, the application could have done by its *)
(* own calls, so that everything proved of the service holds of the server.  *)
THEOREM ServerRunsTheService == RpcSpec => Spec
<1>1. RpcInit => Init
  BY DEF RpcInit
<1> QED
  BY <1>1, RpcInvInit, RpcInvNext, PTL DEF RpcSpec, Spec

(* Its table stays sound, for instance, under any interleaving of handlers   *)
(* that wait for their transfers with the application's calls.               *)
THEOREM ServedTableIsSound == RpcSpec => []TableSound
<1> QED
  BY ServerRunsTheService, LookupsAreSound, PTL

(* The messages and the state of the calls are of their types. *)
THEOREM RpcTypeCorrect == RpcSpec => []RpcTypeOK
<1>1. RpcInv => RpcTypeOK
  <2> SUFFICES ASSUME RpcInv PROVE RpcTypeOK
    OBVIOUS
  <2>1. TypeOK
    BY DEF RpcInv, IInv, Typed, AllWhole, Whole, Shape, TypeOK, Status
  <2> QED
    BY <2>1 DEF RpcInv, MessagesTyped, RpcTypeOK, CallRecord, RequestRecord, HandlerRecord,
                ResponseRecord
<1> QED
  BY <1>1, RpcInvInit, RpcInvNext, PTL DEF RpcSpec

(* A fetched value is the content that its counter had at a moment of the    *)
(* call, whatever pushes, digests, resets and finalizations happen while the *)
(* handler waits for its transfer.                                           *)
THEOREM FetchesAreLinearizable == RpcSpec => []FetchIsLinearizable
<1>1. RpcInv => FetchIsLinearizable
  BY DEF RpcInv, Matched
<1> QED
  BY <1>1, RpcInvInit, RpcInvNext, PTL DEF RpcSpec

(* A fetch is answered with MDCS_SUCCESS exactly when its value was stored.  *)
THEOREM AnswersMatch == RpcSpec => []AnswerMatchesDelivery
<1>1. RpcInv => AnswerMatchesDelivery
  BY DEF RpcInv, Matched
<1> QED
  BY <1>1, RpcInvInit, RpcInvNext, PTL DEF RpcSpec

(* No message of a call outlives it, for any number of clients and failures. *)
THEOREM NothingStale == RpcSpec => []NoStaleAnswer
<1>1. RpcInv => NoStaleAnswer
  <2> SUFFICES ASSUME RpcInv, NEW c \in Client
               PROVE  Cardinality({r \in requests : r.from = c})
                        + Cardinality({k \in handlers : k.from = c})
                        + Cardinality({m \in responses : m.to = c})
                      <= IF Idle(c) THEN 0 ELSE 1
    BY DEF NoStaleAnswer
  <2> DEFINE R == {r \in requests : r.from = c}
             K == {k \in handlers : k.from = c}
             M == {m \in responses : m.to = c}
  <2>1. InOnePlace(c)
    BY DEF RpcInv, AllInOnePlace
  <2>2. ASSUME NEW S, \A a, b \in S : a = b
        PROVE  \/ S = {} /\ Cardinality(S) = 0
               \/ S # {} /\ Cardinality(S) = 1
    <3>1. CASE S = {}
      BY <3>1, FS_EmptySet
    <3>2. CASE S # {}
      <4>1. PICK a \in S : S = {a}
        BY <2>2, <3>2
      <4> QED
        BY <4>1, FS_Singleton
    <3> QED
      BY <3>1, <3>2
  <2>3. /\ \A a, b \in R : a = b
        /\ \A a, b \in K : a = b
        /\ \A a, b \in M : a = b
    BY <2>1 DEF InOnePlace
  <2>4. /\ R = {} \/ (K = {} /\ M = {})
        /\ K = {} \/ M = {}
        /\ Idle(c) => R = {} /\ K = {} /\ M = {}
    BY <2>1 DEF InOnePlace, Alone
  <2> HIDE DEF R, K, M
  <2>5. /\ (R = {} /\ Cardinality(R) = 0) \/ (R # {} /\ Cardinality(R) = 1)
        /\ (K = {} /\ Cardinality(K) = 0) \/ (K # {} /\ Cardinality(K) = 1)
        /\ (M = {} /\ Cardinality(M) = 0) \/ (M # {} /\ Cardinality(M) = 1)
    BY <2>2, <2>3
  <2>6. Cardinality(R) + Cardinality(K) + Cardinality(M) <= IF Idle(c) THEN 0 ELSE 1
    BY <2>4, <2>5
  <2> QED
    BY <2>6 DEF R, K, M
<1> QED
  BY <1>1, RpcInvInit, RpcInvNext, PTL DEF RpcSpec
=============================================================================
