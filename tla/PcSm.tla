-------------------------------- MODULE PcSm --------------------------------
(***************************************************************************)
(* The protocol client state machines of src/protocol_client_sm.c: every   *)
(* instance owns one connection to the server, takes requests from its     *)
(* transfer queue, sends them, pairs responses with the requests that were *)
(* sent, and calls the request back on a response, a timeout or an abort.  *)
(*                                                                         *)
(* All instances are driven by one thread (the periodic callback thread of *)
(* pclb.c), which also makes every protocol_client_sm_transmit and _clear  *)
(* call, so one call of protocol_client_sm_task is one step.  What the     *)
(* network does during the call (lookup, connect, send, recv) is an input  *)
(* of the step.                                                            *)
(*                                                                         *)
(* Time is kept as the facts the code asks of it: which requests are older *)
(* than transmission_timeout, whether connect_timeout has passed since     *)
(* start_time, whether a second has passed since last_reset.               *)
(***************************************************************************)
EXTENDS Integers, Sequences, SequencesExt

CONSTANTS
    SM,                  \* the state machine instances
    Req,                 \* struct protocol_client_request objects
    NULL,
    Async,               \* type: TRUE is SM_ASYNCH (CoAP), FALSE is SM_SYNCH (HTTP)
    Limit,               \* paralell_request_limit, 0 is NO_REQUEST_LIMIT
    QueueSize,           \* protocol_client_sm_queue_size
    MaxTimeouts,         \* MAX_RESPONSE_TIMEOUT_PER_SESSION
    TransmissionRetries, \* transmission_retries
    ConnectRetries,      \* connect_retries
    Observe,             \* the requests of type REQUEST_SUBSCRIBE_ASYNCH
    MessageId,           \* the message_id of every request; requests may share one
    MaxClears            \* bound: calls of protocol_client_sm_clear per instance

ASSUME ConstantsAssumption ==
    /\ NULL \notin SM
    /\ NULL \notin Req
    /\ Async \in BOOLEAN
    /\ Limit = IF Async THEN 0 ELSE 1    \* the pairs of type and rq_limit client_config.c registers
    /\ QueueSize \in Nat
    /\ MaxTimeouts \in Nat
    /\ TransmissionRetries \in Nat
    /\ ConnectRetries \in Nat
    /\ Observe \subseteq Req
    /\ MaxClears \in Nat

VARIABLES
    sm,             \* struct protocol_client_sm_class of every instance
    connecting_sm,  \* the instance that holds the connect token, or NULL
    start_time,     \* static start_time of st_connect: whose attempt it dates, and
                    \* whether connect_timeout has passed since
    called,         \* the callbacks made by the last step
    clears          \* how often every instance was cleared (for MaxClears)

vars == <<sm, connecting_sm, start_time, called, clears>>

(***************************************************************************)
(* State of one instance.  wire belongs to the server: the requests that   *)
(* were sent over the present connection and may still be answered.        *)
(***************************************************************************)
SmState == {"SM_RESET", "SM_CONNECT", "SM_TRANSMIT", "SM_FAILURE"}

SmType == [state : SmState, queue : Seq(Req), active : Req \cup {NULL},
           sent : Seq(Req), sent_num : Int, socket : BOOLEAN,
           connected : BOOLEAN, retry_cnt : Int, failures : Int,
           abort : BOOLEAN, timeouts : Int, status : BOOLEAN,
           reset_due : BOOLEAN, late : SUBSET Req, wire : Seq(Req),
           issued : SUBSET Req, freed : SUBSET Req]

\* Only an asynchronous machine ever looks at the status of a response.
Status == IF Async THEN BOOLEAN ELSE {FALSE}

NoCalls == [response |-> NULL, answers |-> NULL, timeout |-> NULL, aborted |-> NULL]

\* response.status is read before it is ever assigned: its first value is arbitrary.
SmNew(status) ==
    [state |-> "SM_RESET", queue |-> <<>>, active |-> NULL, sent |-> <<>>,
     sent_num |-> 0, socket |-> FALSE, connected |-> FALSE, retry_cnt |-> 0,
     failures |-> 0, abort |-> FALSE, timeouts |-> 0, status |-> status,
     reset_due |-> FALSE, late |-> {}, wire |-> <<>>, issued |-> {}, freed |-> {}]

Init ==
    /\ sm \in [SM -> {SmNew(status) : status \in Status}]
    /\ connecting_sm = NULL
    /\ start_time = [by |-> NULL, late |-> FALSE]
    /\ called = NoCalls
    /\ clears = [m \in SM |-> 0]

-----------------------------------------------------------------------------
(***************************************************************************)
(* The functions of the tick, as functions of the instance's state s.      *)
(***************************************************************************)

close_socket(s) ==
    IF s.socket
    THEN [s EXCEPT !.socket = FALSE, !.connected = FALSE, !.retry_cnt = 0, !.wire = <<>>]
    ELSE s

st_reset(s) ==
    IF ~s.reset_due
    THEN s
    ELSE [close_socket(s) EXCEPT !.reset_due = FALSE, !.state = "SM_TRANSMIT"]

st_failure(s) == [s EXCEPT !.failures = 0, !.state = "SM_RESET"]

\* Faulty: the parallel limit is not looked at.
st_new_transmit_Unlimited(s) ==
    IF ~s.abort /\ s.active = NULL /\ s.queue # <<>>
    THEN [s EXCEPT !.active = Head(s.queue), !.queue = Tail(s.queue)]
    ELSE s

\* Faulty: a request is taken although another one is active.
st_new_transmit_Overwrites(s) ==
    IF ~s.abort /\ s.queue # <<>> /\ (Limit = 0 \/ Limit > s.sent_num)
    THEN [s EXCEPT !.active = Head(s.queue), !.queue = Tail(s.queue)]
    ELSE s

st_new_transmit(s) ==
    IF /\ ~s.abort
       /\ s.active = NULL
       /\ s.queue # <<>>
       /\ Limit = 0 \/ Limit > s.sent_num
    THEN [s EXCEPT !.active = Head(s.queue), !.queue = Tail(s.queue)]
    ELSE s

\* Faulty: the token does not exclude anybody.
connect_wait_Free(m) == m \in SM

\* connect_wait: the token is free or already ours.
connect_wait(m) == connecting_sm \in {NULL, m}

(***************************************************************************)
(* st_connect: the new state, the next state, the new holder of the token  *)
(* and the new start_time.  The token is given back only if the last error *)
(* was not ERR_WOULD_BLOCK, and not at all when create_socket fails.       *)
(***************************************************************************)
st_connect(m, s, net) ==
    LET opened   == s.socket \/ net.socket = "ok"
        t        == [s EXCEPT !.socket = TRUE,
                              !.retry_cnt = IF @ = 0 THEN 1 ELSE @]
        dated    == IF s.retry_cnt = 0 THEN [by |-> m, late |-> FALSE] ELSE start_time
    IN  IF ~connect_wait(m)
        THEN [sm |-> s, next |-> "SM_CONNECT", token |-> connecting_sm, start |-> start_time]
        ELSE IF ~opened
        THEN [sm |-> s, next |-> IF net.socket = "block" THEN "SM_CONNECT" ELSE "SM_RESET",
              token |-> m, start |-> start_time]
        ELSE IF s.connected
        THEN [sm |-> s, next |-> "SM_TRANSMIT", token |-> NULL, start |-> start_time]
        ELSE IF net.connect = "ok"
        THEN [sm |-> [t EXCEPT !.connected = TRUE], next |-> "SM_TRANSMIT",
              token |-> NULL, start |-> dated]
        ELSE IF net.connect = "fail"
        THEN [sm |-> t, next |-> "SM_RESET", token |-> NULL, start |-> dated]
        ELSE [sm |-> t, token |-> m, start |-> dated,
              next |-> IF ~dated.late THEN "SM_CONNECT"
                       ELSE IF t.retry_cnt >= ConnectRetries THEN "SM_FAILURE" ELSE "SM_RESET"]

\* Faulty: the request that was sent stays active.
st_send_request_KeepsActive(s, net) ==
    IF s.active # NULL /\ net.send = "ok"
    THEN [s EXCEPT !.sent = <<s.active>> \o s.sent, !.sent_num = @ + 1,
                   !.wire = Append(@, s.active)]
    ELSE s

\* A send that would block counts as a failure once the request is late.
st_send_request(s, net) ==
    IF s.active = NULL
    THEN s
    ELSE IF net.send = "ok"
    THEN [s EXCEPT !.sent = <<s.active>> \o s.sent, !.sent_num = @ + 1, !.active = NULL,
                   !.wire = Append(@, s.active)]
    ELSE IF net.send = "block" /\ s.active \notin s.late
    THEN s
    ELSE [s EXCEPT !.failures = @ + 1]

(***************************************************************************)
(* A response uses up its place in an HTTP stream; a datagram may arrive   *)
(* again, and an observed resource is notified many times.                 *)
(***************************************************************************)
st_recv_response(s, net) ==
    IF net.recv = "ok"
    THEN [s EXCEPT !.status = net.status, !.wire = IF Async THEN @ ELSE Tail(@)]
    ELSE IF net.recv = "fail"
    THEN [s EXCEPT !.failures = @ + 1]
    ELSE s

\* The first request of a sequence that lies in a set, or NULL.
FirstOf(requests, S) ==
    LET i == SelectInSeq(requests, LAMBDA r : r \in S)
    IN  IF i = 0 THEN NULL ELSE requests[i]

\* Faulty: the newest request is paired whatever its message id.
pair_request_to_response_AnyId(s, answered) == FirstOf(s.sent, Req)

pair_request_to_response(s, answered) ==
    FirstOf(s.sent, {r \in Req : MessageId[r] = MessageId[answered]})

\* Observed resources on an asynchronous machine are exempt from the timeout.
TimesOut(s) == s.late \ (IF Async THEN Observe ELSE {})

\* Faulty: timeouts are looked at only while connected.
check_timeout_Connected(s) ==
    IF ~s.connected THEN NULL
    ELSE IF FirstOf(s.sent, s.late) # NULL THEN FirstOf(s.sent, s.late)
    ELSE IF s.active \in s.late THEN s.active ELSE NULL

\* Faulty: the scan ends at the first request that is exempt.
check_timeout_Newest(s) ==
    IF s.sent # <<>> /\ Head(s.sent) \in TimesOut(s) THEN Head(s.sent)
    ELSE IF s.active \in s.late THEN s.active ELSE NULL

\* Faulty: observed resources are not exempt.
check_timeout_Observed(s) ==
    IF FirstOf(s.sent, s.late) # NULL THEN FirstOf(s.sent, s.late)
    ELSE IF s.active \in s.late THEN s.active ELSE NULL

check_timeout(s) ==
    LET r == FirstOf(s.sent, TimesOut(s))
    IN  IF r # NULL THEN r
        ELSE IF s.active \in s.late THEN s.active ELSE NULL

\* Faulty: the abort is over when the queue is empty.
abort_transfers_QueueOnly(s) ==
    IF s.abort /\ s.queue # <<>> THEN Head(s.queue) ELSE NULL

abort_transfers(s) ==
    IF ~s.abort THEN NULL
    ELSE IF s.queue # <<>> THEN Head(s.queue)
    ELSE IF s.sent # <<>> THEN Head(s.sent)
    ELSE s.active

\* Faulty: the completed request is freed without being unlinked.
st_transmit_complete_NoUnlink(s, r) ==
    [s EXCEPT !.freed = @ \cup {r}, !.late = @ \ {r},
              !.sent_num = IF @ # 0 THEN @ - 1 ELSE 0]

\* Faulty: the count is decremented without looking.
st_transmit_complete_Uncounted(s, r) ==
    [s EXCEPT !.sent = RemoveFirst(@, r), !.freed = @ \cup {r},
              !.late = @ \ {r}, !.sent_num = @ - 1]

\* Faulty: a subscription stays although the transfers are being aborted.
st_transmit_complete_Stays(s, r) ==
    IF Async /\ r \in Observe /\ s.status
    THEN s
    ELSE [s EXCEPT !.sent = RemoveFirst(@, r), !.freed = @ \cup {r},
                   !.late = @ \ {r}, !.sent_num = IF @ # 0 THEN @ - 1 ELSE 0]

\* The callback itself is recorded in called; list_del of an unlisted request is void.
st_transmit_complete(s, r) ==
    IF Async /\ r \in Observe /\ ~s.abort /\ s.status
    THEN s
    ELSE [s EXCEPT !.sent = RemoveFirst(@, r), !.freed = @ \cup {r},
                   !.late = @ \ {r}, !.sent_num = IF @ # 0 THEN @ - 1 ELSE 0]

(***************************************************************************)
(* The stages of st_transmit, in the order the code runs them.             *)
(***************************************************************************)
Exchange(m, s, net) ==
    LET c == st_connect(m, st_new_transmit(s), net)
    IN  IF c.next = "SM_TRANSMIT"
        THEN [c EXCEPT !.sm = st_recv_response(st_send_request(c.sm, net), net)]
        ELSE c

Paired(c, net) ==
    IF c.next = "SM_TRANSMIT" /\ net.recv = "ok"
    THEN pair_request_to_response(c.sm, net.answers)
    ELSE NULL

AfterPairing(s, r) == IF r = NULL THEN s ELSE st_transmit_complete(s, r)

\* check_timeout forgets the active request whichever request it found.
AfterTimeout(s, r) ==
    IF r = NULL THEN s
    ELSE st_transmit_complete([s EXCEPT !.active = NULL, !.timeouts = @ + 1], r)

\* so does abort_transfers; popping the queue is a no-op when it is empty.
AfterAbort(s, r) ==
    IF r = NULL
    THEN [s EXCEPT !.abort = FALSE]
    ELSE st_transmit_complete(
            [s EXCEPT !.active = NULL, !.queue = IF @ = <<>> THEN @ ELSE Tail(@)], r)

\* Faulty: the connection survives the end of an abort.
Settle_KeepsConnection(s, next, abort_done) ==
    LET n == IF next = "SM_CONNECT" THEN "SM_TRANSMIT" ELSE next
        t == [s EXCEPT !.state = n]
    IN  IF n = "SM_RESET" THEN close_socket(t) ELSE t

\* The tail of st_transmit: too many timeouts, the end of an abort, the socket.
Settle(s, next, abort_done) ==
    LET worn == s.timeouts > MaxTimeouts
        n    == IF worn \/ abort_done THEN "SM_RESET"
                ELSE IF next = "SM_CONNECT" THEN "SM_TRANSMIT" ELSE next
        t    == [s EXCEPT !.timeouts = IF worn THEN 0 ELSE @, !.state = n]
    IN  IF n = "SM_RESET" THEN close_socket(t) ELSE t

\* The tail of protocol_client_sm_task.
CheckFailures(s) ==
    IF s.failures > TransmissionRetries THEN [s EXCEPT !.state = "SM_FAILURE"] ELSE s

-----------------------------------------------------------------------------
(***************************************************************************)
(* What the network may do during one tick.                                *)
(***************************************************************************)
Result == {"ok", "block", "fail"}

\* The requests whose response may arrive next.
Answerable(s) ==
    IF Async THEN ToSet(s.wire) ELSE IF s.wire = <<>> THEN {} ELSE {Head(s.wire)}

\* A call that the tick cannot make has a single outcome.
Net(s) ==
    LET socket  == IF s.socket THEN {"ok"} ELSE Result
        connect == IF s.connected THEN {"ok"} ELSE Result
        send    == IF s.active = NULL /\ s.queue = <<>> THEN {"ok"} ELSE Result
    IN  [socket : socket, connect : connect, send : send,
         recv : {"block", "fail"}, answers : {NULL}, status : {FALSE}]
        \cup
        [socket : socket, connect : connect, send : send,
         recv : {"ok"}, answers : Answerable(s), status : Status]

-----------------------------------------------------------------------------
(***************************************************************************)
(* Steps.                                                                  *)
(***************************************************************************)

\* protocol_client_sm_task in SM_RESET.
ResetTask(m) ==
    /\ sm[m].state = "SM_RESET"
    /\ sm' = [sm EXCEPT ![m] = CheckFailures(st_reset(sm[m]))]
    /\ called' = NoCalls
    /\ UNCHANGED <<connecting_sm, start_time, clears>>

\* protocol_client_sm_task in SM_FAILURE.
FailureTask(m) ==
    /\ sm[m].state = "SM_FAILURE"
    /\ sm' = [sm EXCEPT ![m] = CheckFailures(st_failure(sm[m]))]
    /\ called' = NoCalls
    /\ UNCHANGED <<connecting_sm, start_time, clears>>

\* protocol_client_sm_task in SM_TRANSMIT, with the network's answers net; every
\* stage works on the state the one before it left.
TransmitTask(m, net) ==
    /\ sm[m].state = "SM_TRANSMIT"
    /\ \E c \in {Exchange(m, sm[m], net)} :
       \E p \in {Paired(c, net)} :
       \E s1 \in {AfterPairing(c.sm, p)} :
       \E t \in {check_timeout(s1)} :
       \E s2 \in {AfterTimeout(s1, t)} :
       \E a \in {abort_transfers(s2)} :
       \E s3 \in {AfterAbort(s2, a)} :
          /\ sm' = [sm EXCEPT ![m] = CheckFailures(Settle(s3, c.next, s2.abort /\ a = NULL))]
          /\ connecting_sm' = c.token
          /\ start_time' = c.start
          /\ called' = [response |-> p, answers |-> IF p = NULL THEN NULL ELSE net.answers,
                        timeout |-> t, aborted |-> a]
    /\ UNCHANGED clears

\* protocol_client_sm_transmit; a full queue or no memory changes nothing.
Transmit(m, r) ==
    /\ \A x \in SM : r \notin sm[x].issued
    /\ Len(sm[m].queue) < QueueSize
    /\ sm' = [sm EXCEPT ![m].queue = Append(@, r), ![m].issued = @ \cup {r}]
    /\ called' = NoCalls
    /\ UNCHANGED <<connecting_sm, start_time, clears>>

\* protocol_client_sm_clear
Clear(m) ==
    /\ clears[m] < MaxClears
    /\ clears' = [clears EXCEPT ![m] = @ + 1]
    /\ sm' = [sm EXCEPT ![m].abort = TRUE]
    /\ called' = NoCalls
    /\ UNCHANGED <<connecting_sm, start_time>>

\* The requests that are being sent or were sent, newest first.
InFlight(s) == (IF s.active = NULL THEN <<>> ELSE <<s.active>>) \o s.sent

\* transmission_timeout passes for the oldest request for which it had not.
RequestElapse(m) ==
    /\ \E i \in DOMAIN InFlight(sm[m]) :
          LET flight == InFlight(sm[m]) IN
          /\ flight[i] \notin sm[m].late
          /\ \A j \in DOMAIN flight : j > i => flight[j] \in sm[m].late
          /\ sm' = [sm EXCEPT ![m].late = @ \cup {flight[i]}]
    /\ called' = NoCalls
    /\ UNCHANGED <<connecting_sm, start_time, clears>>

\* A second passes since last_reset.
ResetElapse(m) ==
    /\ ~sm[m].reset_due
    /\ sm' = [sm EXCEPT ![m].reset_due = TRUE]
    /\ called' = NoCalls
    /\ UNCHANGED <<connecting_sm, start_time, clears>>

\* connect_timeout passes since start_time.
ConnectElapse ==
    /\ start_time.by # NULL
    /\ ~start_time.late
    /\ start_time' = [start_time EXCEPT !.late = TRUE]
    /\ called' = NoCalls
    /\ UNCHANGED <<sm, connecting_sm, clears>>

Task(m) ==
    \/ ResetTask(m)
    \/ FailureTask(m)
    \/ \E net \in Net(sm[m]) : TransmitTask(m, net)

Next ==
    \/ \E m \in SM : ResetTask(m)
    \/ \E m \in SM : FailureTask(m)
    \/ \E m \in SM : \E net \in Net(sm[m]) : TransmitTask(m, net)
    \/ \E m \in SM : \E r \in Req : Transmit(m, r)
    \/ \E m \in SM : Clear(m)
    \/ \E m \in SM : RequestElapse(m)
    \/ \E m \in SM : ResetElapse(m)
    \/ ConnectElapse

Spec == Init /\ [][Next]_vars

(***************************************************************************)
(* The periodic callback thread keeps calling every task, and time passes. *)
(***************************************************************************)
Fairness ==
    /\ \A m \in SM : WF_vars(Task(m)) /\ WF_vars(RequestElapse(m)) /\ WF_vars(ResetElapse(m))
    /\ WF_vars(ConnectElapse)

FairSpec == Spec /\ Fairness

-----------------------------------------------------------------------------
(***************************************************************************)
(* Properties.                                                             *)
(***************************************************************************)

\* The requests the instance still holds.
Held(s) == ToSet(s.queue) \cup ToSet(s.sent) \cup ({s.active} \ {NULL})

Empty(s) == s.queue = <<>> /\ s.sent = <<>> /\ s.active = NULL

CalledBack == {called.response, called.timeout, called.aborted} \ {NULL}

\* Every field holds a value of its C type; sent_num never becomes negative (the
\* ASSERT of st_transmit_complete) and the task never stores SM_CONNECT.
TypeOK ==
    /\ sm \in [SM -> SmType]
    /\ \A m \in SM : sm[m].sent_num >= 0 /\ sm[m].state # "SM_CONNECT"
    /\ connecting_sm \in SM \cup {NULL}
    /\ start_time \in [by : SM \cup {NULL}, late : BOOLEAN]
    /\ called \in [response : Req \cup {NULL}, answers : Req \cup {NULL},
                   timeout : Req \cup {NULL}, aborted : Req \cup {NULL}]
    /\ clears \in [SM -> 0 .. MaxClears]

\* No request object is in two places (queue, active_request, sent list), none that
\* was deleted is still reachable, and no two instances share one: a second
\* completion would call back and free it twice.
Distinct(requests) ==
    \A i, j \in DOMAIN requests : i # j => requests[i] # requests[j]

OwnedOnce ==
    /\ \A m \in SM :
        LET s == sm[m] IN
        /\ Distinct(s.queue) /\ Distinct(s.sent)
        /\ ToSet(s.queue) \cap ToSet(s.sent) = {}
        /\ s.active \notin ToSet(s.queue) \cup ToSet(s.sent)
        /\ Held(s) \subseteq s.issued \ s.freed
    /\ \A m, x \in SM : m # x => sm[m].issued \cap sm[x].issued = {}

\* With a limit of one, a request is taken from the queue only when nothing is in
\* flight, and outside an abort sent_request_num counts the sent list exactly: a
\* count left too high would stop the instance for good, one too low would put two
\* requests on a connection whose responses all carry the same id.
ParallelLimit ==
    \A m \in SM : Limit = 1 =>
        /\ Len(InFlight(sm[m])) <= 1
        /\ ~sm[m].abort => sm[m].sent_num = Len(sm[m].sent)

\* The connect token excludes: an instance whose socket is open but not connected
\* holds it, and the shared static start_time of st_connect dates its own attempt
\* and no other instance's.
ConnectToken ==
    \A m \in SM : sm[m].socket /\ ~sm[m].connected =>
        connecting_sm = m /\ start_time.by = m

\* A request is completed once. No request is called back that was deleted before; the
\* response, the timeout and the abort of one call of the task complete three different
\* requests; what a call deletes it calls back, and what it calls back it deletes unless
\* it is an observed resource that stays, which the abort of its machine ends.
CompletedOnce ==
    [][/\ \A m \in SM :
            /\ CalledBack' \cap sm[m].freed = {}
            /\ sm'[m].freed \ sm[m].freed \subseteq CalledBack'
       /\ \A c, d \in {"response", "timeout", "aborted"} :
            c # d /\ called'[c] # NULL => called'[c] # called'[d]
       /\ \A r \in CalledBack' : \E m \in SM :
            /\ r \in sm[m].issued
            /\ r \in sm'[m].freed \/ (Async /\ r \in Observe /\ ~sm[m].abort)]_vars

\* The end of a clear (the flag protocol_client_sm_is_empty reads goes down) finds
\* the instance without any request and with its connection closed, so no response
\* to an earlier request can reach a later one.
ClearDrains ==
    [][\A m \in SM : sm[m].abort /\ ~sm'[m].abort =>
        /\ Empty(sm'[m])
        /\ ~sm'[m].socket
        /\ sm'[m].wire = <<>>]_vars

\* "If a corresponding response is received": the request called back with a
\* response is the one the server answered.
RightAnswer == called.response = called.answers

\* A response reaches the request it answers, however late or repeated it is, if its
\* machine was given no other request of the same message id.
OwnAnswer ==
    \A m \in SM : \A r \in sm[m].issued :
        /\ called.response = r
        /\ \A x \in sm[m].issued : MessageId[x] = MessageId[r] => x = r
        => called.answers = r

\* An HTTP instance that is never cleared drops no request: what was handed over is
\* queued, in flight, or was called back and deleted.
NoneLost ==
    \A m \in SM : Limit = 1 /\ clears[m] = 0 =>
        sm[m].issued = Held(sm[m]) \cup sm[m].freed

\* protocol_client_sm_clear: "The callbacks will be called for every requests".
EveryoneCalledBack == \A m \in SM : sm[m].issued = Held(sm[m]) \cup sm[m].freed

\* Every request handed to an HTTP instance that is never cleared is eventually called
\* back and deleted, also when it never gets a connection or the connect token.
EveryoneAnswered ==
    \A m \in SM : \A r \in Req :
        (r \in sm[m].issued) ~> (r \in sm[m].freed \/ clears[m] > 0)

\* A clear that was asked for ends.
ClearEnds == \A m \in SM : sm[m].abort ~> ~sm[m].abort

\* A request that was sent, and is no subscription, gets its callback, also when
\* the queue is cleared, the connection reset or another instance is connecting.
SentAnswered ==
    \A m \in SM : \A r \in Req \ Observe :
        (r \in ToSet(sm[m].sent)) ~> (r \in sm[m].freed)

\* client_config.c on CONNECT_RETRIES: after an error during connect the connect is
\* retried that many times before the socket is closed.
ConnectRetried ==
    [][\A m \in SM :
        /\ sm[m].socket /\ ~sm[m].connected /\ ~sm'[m].socket
        /\ sm'[m].timeouts >= sm[m].timeouts
        => sm[m].retry_cnt >= ConnectRetries]_vars

\* The machines do what exosite_api.c relies on: every request leaves by a callback,
\* or is lost with the timeout or the abort of another one; a clear ends only when
\* nothing is held.
Port == INSTANCE RequestPort WITH
            held <- [m \in SM |-> Held(sm[m])],
            abort <- [m \in SM |-> sm[m].abort],
            called <- [response |-> called.response, timeout |-> called.timeout,
                       aborted |-> called.aborted]

ImplementsPort == Port!PortSpec

=============================================================================
