------------------------------ MODULE MdcsRpc ------------------------------
(***************************************************************************)
(* Remote access: the calls of mdcs-client.c on several clients, the RPC   *)
(* handlers of mdcs-rpc.c on a server, and the server's own use of its     *)
(* service (module MdcsService, whose actions the handlers take part by    *)
(* part).  A handler is an Argobots thread of the server's one execution   *)
(* stream: it runs from one blocking Margo call to the next without being  *)
(* interrupted, so that a step of this module ends where the handler waits *)
(* for its bulk transfer.                                                  *)
(*                                                                         *)
(* Mercury is modelled by what the code expects of it: a forwarded request *)
(* starts one handler, a response reaches the client that waits for it, a  *)
(* bulk push writes the client's buffer before it completes, nothing is    *)
(* lost or duplicated.  A Margo call or a calloc may fail if MayFail names *)
(* it.                                                                     *)
(***************************************************************************)
EXTENDS MdcsService

CONSTANTS
  Client,    \* the client processes, each with one call at a time
  Size,      \* the value sizes a client may ask for
  ValueSize, \* counter_value_size of each type
  NoValue,   \* what a client's value buffer holds before the transfer
  MayFail    \* the calls that may fail

ASSUME RpcAssumption ==
  /\ ValueSize \in [Type -> Size]
  /\ NoValue \notin Seq(Item)
  /\ MayFail \subseteq
       {"client margo_bulk_create", "margo_forward", "margo_get_output",
        "margo_get_input", "calloc", "margo_bulk_create",
        "margo_bulk_transfer", "margo_respond"}

VARIABLES
  client,    \* the call each client makes or made last
  requests,  \* the requests no handler has started on
  handlers,  \* the handlers that wait for their bulk transfer
  responses, \* the responses on their way
  gaveUp,    \* history: the clients whose handler failed and did not answer
  seen       \* history: what the counter asked for held since the call began

serviceVars == vars
rpcVars == << client, requests, handlers, responses, gaveUp >>
allVars == << serviceVars, rpcVars, seen >>

Idle(c) == client[c].pc = "idle"

(* What a local mdcs_counter_value would return now for an id. *)
Readable(id) == {Content(counters[h].c) : h \in WithId(id)}

RpcInit ==
  /\ Init
  /\ client = [c \in Client |->
       [pc |-> "idle", op |-> "fetch", id |-> 0, size |-> 0,
        value |-> NoValue, result |-> "none"]]
  /\ requests = {}
  /\ handlers = {}
  /\ responses = {}
  /\ gaveUp = {}
  /\ seen = [c \in Client |-> {}]

-----------------------------------------------------------------------------
(* mdcs-client.c *)

Call(c, op, id, size) ==
  [pc |-> "waiting", op |-> op, id |-> id, size |-> size,
   value |-> NoValue, result |-> "MDCS_SUCCESS"]

Request(c, op, id, size) == [from |-> c, op |-> op, id |-> id, size |-> size]

(* The call returns MDCS_ERROR before anything is sent. *)
CallFails(c, op, id, size) ==
  /\ \/ op = "fetch" /\ "client margo_bulk_create" \in MayFail
     \/ "margo_forward" \in MayFail
  /\ client' = [client EXCEPT ![c] =
       [Call(c, op, id, size) EXCEPT !.pc = "idle", !.result = "MDCS_ERROR"]]
  /\ UNCHANGED requests

(* mdcs_remote_counter_fetch and mdcs_remote_counter_reset, up to the wait *)
(* in margo_forward; id comes from mdcs_remote_counter_get_id.             *)
RemoteCall(c, op, id, size) ==
  /\ Idle(c)
  /\ \/ CallFails(c, op, id, size)
     \/ /\ client' = [client EXCEPT ![c] = Call(c, op, id, size)]
        /\ requests' = requests \union {Request(c, op, id, size)}
  /\ UNCHANGED << serviceVars, handlers, responses, gaveUp >>

RemoteFetch(c, id, size) == RemoteCall(c, "fetch", id, size)
RemoteReset(c, id) == RemoteCall(c, "reset", id, 0)

(* A server that has registered no handler yet makes margo_forward fail. *)
Bounce(r) ==
  /\ inits = 0
  /\ requests' = requests \ {r}
  /\ client' = [client EXCEPT ![r.from].pc = "idle", ![r.from].result = "MDCS_ERROR"]
  /\ UNCHANGED << serviceVars, handlers, responses, gaveUp >>

(* margo_forward returns and margo_get_output decodes the response.  Its ret *)
(* field is never looked at: result is the one the call started with.        *)
Return(m) ==
  /\ responses' = responses \ {m}
  /\ \/ client' = [client EXCEPT ![m.to].pc = "idle"]
     \/ /\ "margo_get_output" \in MayFail
        /\ client' = [client EXCEPT ![m.to].pc = "idle", ![m.to].result = "MDCS_ERROR"]
  /\ UNCHANGED << serviceVars, requests, handlers, gaveUp >>

-----------------------------------------------------------------------------
(* mdcs_rpc_get_counter *)

(* goto cleanup: the handler ends and the client never hears of it. *)
GivesUp(c, call) ==
  /\ call \in MayFail
  /\ gaveUp' = gaveUp \union {c}
  /\ UNCHANGED responses

Responds(c, code) ==
  \/ responses' = responses \union {[to |-> c, ret |-> code]} /\ UNCHANGED gaveUp
  \/ GivesUp(c, "margo_respond")

Answer(r, code) == Responds(r.from, code) /\ UNCHANGED handlers

(* Plausible mistakes, for the mutants of PROJECT.json: a value read without *)
(* the buffered items, and a refusal that reports success, reports a Mercury *)
(* code, or is not sent.                                                     *)
FetchedUndigested(h) == counters[h].c.data
RefuseSilently(r) == UNCHANGED << handlers, responses, gaveUp >>
RefuseWithSuccess(r) == Answer(r, "MDCS_SUCCESS")
RefuseWithMercuryCode(r) == Answer(r, "HG_OTHER_ERROR")

Fetched(h) == Digested(counters[h].c).data

(* The size the client asked for is not that of the counter's values. *)
RefuseSize(r) == Answer(r, "MDCS_ERROR")

StartTransfer(r, h) ==
  /\ handlers' = handlers \union {[from |-> r.from, pc |-> "transfer", value |-> Fetched(h)]}
  /\ UNCHANGED << responses, gaveUp >>

EndsEarly(r, call) == GivesUp(r.from, call) /\ UNCHANGED handlers

(* From the start of the handler to its answer or its bulk transfer. *)
GetCounterFound(r, h) ==
  IF ~Usable(TypeOf(h))
  THEN Faults(TypeOf(h)) /\ UNCHANGED << handlers, responses, gaveUp >>
  ELSE \/ r.size # ValueSize[TypeOf(h)] /\ FindById(r.id) /\ RefuseSize(r)
       \/ r.size = ValueSize[TypeOf(h)] /\ FindById(r.id) /\ EndsEarly(r, "calloc")
       \/ r.size = ValueSize[TypeOf(h)] /\ Value(h) /\ EndsEarly(r, "margo_bulk_create")
       \/ r.size = ValueSize[TypeOf(h)] /\ Value(h) /\ StartTransfer(r, h)

GetCounter(r) ==
  /\ Running
  /\ r.op = "fetch"
  /\ inits > 0
  /\ requests' = requests \ {r}
  /\ \/ UNCHANGED serviceVars /\ EndsEarly(r, "margo_get_input")
     \/ WithId(r.id) = {} /\ FindById(r.id) /\ Answer(r, "MDCS_ERROR")
     \/ \E h \in WithId(r.id) : GetCounterFound(r, h)
  /\ UNCHANGED client

(* The bulk push writes the client's buffer and completes, or fails. *)
Transfer(k) ==
  /\ Running
  /\ k.pc = "transfer"
  /\ \/ /\ client' = [client EXCEPT ![k.from].value = k.value]
        /\ handlers' = (handlers \ {k}) \union {[k EXCEPT !.pc = "respond"]}
        /\ UNCHANGED << responses, gaveUp >>
     \/ /\ GivesUp(k.from, "margo_bulk_transfer")
        /\ handlers' = handlers \ {k}
        /\ UNCHANGED client
  /\ UNCHANGED << serviceVars, requests >>

(* A mistake, for the mutants: the handler answers and does not end. *)
RespondAgain(k) ==
  /\ Running
  /\ k.pc = "respond"
  /\ responses' = responses \union {[to |-> k.from, ret |-> "MDCS_SUCCESS"]}
  /\ UNCHANGED << serviceVars, client, requests, handlers, gaveUp >>

(* The handler wakes up, answers and cleans up; it touches no counter. *)
Respond(k) ==
  /\ Running
  /\ k.pc = "respond"
  /\ handlers' = handlers \ {k}
  /\ Responds(k.from, "MDCS_SUCCESS")
  /\ UNCHANGED << serviceVars, client, requests >>

(* mdcs_rpc_reset_counter.  It does not call margo_get_input: the id it      *)
(* looks up is the 0 that in was initialised with, whatever the client sent. *)
ResetCounter(r) ==
  /\ Running
  /\ r.op = "reset"
  /\ inits > 0
  /\ requests' = requests \ {r}
  /\ \/ WithId(0) = {} /\ FindById(0)
     \/ \E h \in WithId(0) : Reset(h)
  /\ IF fault' = "none" THEN Answer(r, ret') ELSE UNCHANGED << handlers, responses, gaveUp >>
  /\ UNCHANGED client

-----------------------------------------------------------------------------
Local == Next /\ UNCHANGED rpcVars

RpcStep ==
  \/ Local
  \/ \E c \in Client, id \in Id :
       \/ \E size \in Size : RemoteFetch(c, id, size)
       \/ RemoteReset(c, id)
  \/ \E r \in requests : Bounce(r) \/ GetCounter(r) \/ ResetCounter(r)
  \/ \E k \in handlers : Transfer(k) \/ Respond(k)
  \/ \E m \in responses : Return(m)

(* seen starts with a call, follows every step while the client waits, and *)
(* stays when the call returns.                                            *)
Observe ==
  seen' = [c \in Client |->
    IF client'[c].pc = "waiting"
    THEN (IF Idle(c) THEN {} ELSE seen[c]) \union Readable(client[c].id)'
    ELSE seen[c]]

RpcNext == RpcStep /\ Observe

(* Mercury makes progress, and Argobots runs every ready thread: a request   *)
(* is handled, a transfer completes, a handler resumes, a response arrives.  *)
(* Nothing makes an application call anything.                               *)
Progress(c) ==
  /\ \/ \E r \in requests : r.from = c /\ (Bounce(r) \/ GetCounter(r) \/ ResetCounter(r))
     \/ \E k \in handlers : k.from = c /\ (Transfer(k) \/ Respond(k))
     \/ \E m \in responses : m.to = c /\ Return(m)
  /\ Observe

Fairness == \A c \in Client : WF_allVars(Progress(c))

RpcSpec == RpcInit /\ [][RpcNext]_allVars /\ Fairness

-----------------------------------------------------------------------------
(* The types of the messages and of the state of the calls. *)
RpcTypeOK ==
  /\ TypeOK
  /\ client \in [Client -> [pc : {"idle", "waiting"}, op : {"fetch", "reset"},
                            id : Id \union {0}, size : Size \union {0},
                            value : Seq(Item) \union {NoValue},
                            result : {"none", "MDCS_SUCCESS", "MDCS_ERROR"}]]
  /\ requests \subseteq [from : Client, op : {"fetch", "reset"}, id : Id, size : Size \union {0}]
  /\ handlers \subseteq [from : Client, pc : {"transfer", "respond"}, value : Seq(Item)]
  /\ responses \subseteq [to : Client, ret : {"MDCS_SUCCESS", "MDCS_ERROR"}]

(* A value that reaches a client is the whole content that its counter had   *)
(* at some moment between the start of the call and its return, although the *)
(* transfer waits while the server pushes, digests, resets and finalizes and *)
(* the other client resets the counter (mdcs_rpc_get_counter keeps its own   *)
(* copy).                                                                    *)
FetchIsLinearizable ==
  \A c \in Client : client[c].value # NoValue => client[c].value \in seen[c]

(* The server answers a fetch with MDCS_SUCCESS exactly when it has written  *)
(* the client's buffer: no refused call touches it.                          *)
AnswerMatchesDelivery ==
  \A m \in responses :
    client[m.to].op = "fetch" =>
      (m.ret = "MDCS_SUCCESS" <=> client[m.to].value # NoValue)

(* Nothing of an earlier call is left when a client starts the next one: a   *)
(* call has at most one request, handler or response, and none once it has   *)
(* returned, so that no answer is taken for another's.                       *)
NoStaleAnswer ==
  \A c \in Client :
    LET pending == Cardinality({r \in requests : r.from = c})
                   + Cardinality({k \in handlers : k.from = c})
                   + Cardinality({m \in responses : m.to = c})
    IN  pending <= IF Idle(c) THEN 0 ELSE 1

(* Every remote call returns, unless the server crashes or a call its handler *)
(* needs fails: there is no timeout in mdcs-client.c, so that every other     *)
(* path through a handler has to answer, the refusals included.               *)
AnsweredUnlessItFailed ==
  \A c \in Client : ~Idle(c) ~> Idle(c) \/ ~Running \/ c \in gaveUp

(* What mdcs.h:208 and :217 say of the remote calls ("MDCS_SUCCESS on         *)
(* success, MDCS_ERROR otherwise"): each returns, as long as the server does  *)
(* not crash.                                                                 *)
EveryCallReturns ==
  \A c \in Client : ~Idle(c) ~> Idle(c) \/ ~Running

(* What mdcs.h:202-208 says of mdcs_remote_counter_fetch ("Fetches the value *)
(* of a counter"; "MDCS_SUCCESS on success, MDCS_ERROR otherwise"): a fetch  *)
(* that returned MDCS_SUCCESS has stored a value.                            *)
SuccessMeansValue ==
  \A c \in Client :
    Idle(c) /\ client[c].op = "fetch" /\ client[c].result = "MDCS_SUCCESS"
    => client[c].value # NoValue

(* What mdcs.h:213-216 says of mdcs_remote_counter_reset ("Resets a counter  *)
(* at a remote address", "counter: ID of the counter to reset"): handling a  *)
(* reset request resets the counter it names.                                *)
ResetReachesItsCounter ==
  [][\A r \in requests : ResetCounter(r) =>
       \A h \in WithId(r.id) : counters'[h].c.data = << >>]_allVars
=============================================================================
