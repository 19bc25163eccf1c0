----------------------------- MODULE ExositeApi -----------------------------
(***************************************************************************)
(* The activation and transmission of src/exosite_api.c over the request   *)
(* port of the protocol client state machines (RequestPort, which PcSm     *)
(* implements).                                                            *)
(*                                                                         *)
(* The periodic callback thread calls activate_sm and the tasks of the     *)
(* machines, whose callbacks (exosite_api_callback) run inside the task.   *)
(* User threads put reads and writes on request_queue and subscriptions in *)
(* subscribe_map.                                                          *)
(*                                                                         *)
(* A request is named by what it is for; the same name is used again for   *)
(* the next request of its kind.  A subscription may be handed over again  *)
(* while a machine still holds it, so an alias has several requests; a     *)
(* hand-over takes one that is not held, and their number bounds how often *)
(* the same subscription is held at once.  Two history variables: stale    *)
(* tells which requests carry a CIK that a later activation has replaced,  *)
(* before which of them were handed to their machine before which.         *)
(***************************************************************************)
EXTENDS RequestPort, Sequences, FiniteSets

CONSTANTS
    Main,           \* the SM_MAIN instance
    TimeSync,       \* the SM_TIME_SYNC instance
    LongPoll,       \* the SM_HTTP_LONG_POLL instance of every alias
    Timestamp,      \* the request of method EXO_UP_TIMESTAMP
    Activate,       \* the request of method EXO_PP_ACTIVATE
    Data,           \* the requests of the methods EXO_DP_READ and EXO_DP_WRITE
    Alias,          \* the aliases to subscribe to
    Subscriptions,  \* the requests of method EXO_DP_SUBSCRIBE
    AliasOf,        \* the alias of every subscription
    MaxQueue,       \* max_request_queue_size
    MaxSm           \* CONFIG_NUMBER_OF_STATE_MACHINES, 0 is unlimited

Kinds == <<{Timestamp}, {Activate}, Data, Subscriptions>>

ASSUME ExositeAssumption ==
    /\ Req = {Timestamp, Activate} \cup Data \cup Subscriptions
    /\ \A i, j \in DOMAIN Kinds : i # j => Kinds[i] \cap Kinds[j] = {}
    /\ AliasOf \in [Subscriptions -> Alias]
    /\ LongPoll \in [Alias -> SM]
    /\ Main \in SM /\ TimeSync \in SM /\ Main # TimeSync
    /\ \A a, b \in Alias : LongPoll[a] \notin {Main, TimeSync} /\ (LongPoll[a] = LongPoll[b] => a = b)
    /\ Observe = (IF Async THEN Subscriptions ELSE {})
    /\ MaxQueue \in Nat /\ MaxSm \in Nat

VARIABLES
    activate_state,
    next_state,
    asynch_state_event, \* a response said that the CIK is not valid
    request_queue,
    subscribe_map,      \* struct subscribe_item of every alias that was added
    sm_list,            \* the machines created so far
    delay_due,          \* ACTIVATION_DELAY has passed since last_activation_time
    stale,              \* history: the requests that carry a replaced CIK
    before              \* history: <<q, r>> if q was handed to r's machine before r

port == <<held, abort, called>>
exo == <<activate_state, next_state, asynch_state_event, request_queue, subscribe_map,
         sm_list, delay_due, stale, before>>
vars == <<port, exo>>

States == {"AS_NONE", "AS_SEND_GET_TIMESTAMP", "AS_WAIT_TIMESTAMP", "AS_INIT", "AS_START",
           "AS_PREPARE_ACTIVATE", "AS_SEND_ACTIVATE", "AS_WAIT_ACTIVATE", "AS_ACTIVATED"}

SubscribeItem == [sent : BOOLEAN, acknowledged : BOOLEAN]

Unsent == [sent |-> FALSE, acknowledged |-> FALSE]

\* exosite_new; the object is filled with zeros, so activate_state has no name yet.
Init ==
    /\ PortInit
    /\ activate_state = "AS_NONE"
    /\ next_state = "AS_SEND_GET_TIMESTAMP"
    /\ asynch_state_event = FALSE
    /\ request_queue = <<>>
    /\ subscribe_map = << >>
    /\ sm_list = {}
    /\ delay_due \in BOOLEAN
    /\ stale = {}
    /\ before = {}

-----------------------------------------------------------------------------
(***************************************************************************)
(* Handing requests over.                                                  *)
(***************************************************************************)

\* All that is held, by any machine.
AllHeld == UNION {held[m] : m \in SM}

\* pcsm_transmit_qeueue_push_no_copy: which machine takes a request.
MachineOf(r) ==
    CASE r = Timestamp -> TimeSync
      [] r \in Subscriptions /\ ~Async -> LongPoll[AliasOf[r]]
      [] OTHER -> Main

\* Of the requests tried, rs are accepted, at most one by each machine, because its
\* queue holds one (PROTOCOL_CLIENT_SM_QUEUE_SIZE) and no task runs in between. Each
\* carries the CIK of now. create_new_sm makes a machine that does not exist yet, unless
\* the configured number is reached, and the machine stays when its first request is not
\* accepted after all.
Hand(rs, tried) ==
    \E made \in SUBSET {MachineOf(r) : r \in tried} :
        LET machines == sm_list \cup made \cup {MachineOf(r) : r \in rs} IN
        /\ MaxSm = 0 \/ Cardinality(machines) <= MaxSm
        /\ \A r \in rs : \A m \in SM : r \notin held[m]
        /\ \A q, r \in rs : MachineOf(q) = MachineOf(r) => q = r
        /\ held' = [m \in SM |-> held[m] \cup {r \in rs : MachineOf(r) = m}]
        /\ sm_list' = machines
        /\ stale' = stale \ rs
        /\ before' = before \cup UNION {held[MachineOf(r)] \X {r} : r \in rs}
        /\ called' = NoCalls
        /\ UNCHANGED abort

-----------------------------------------------------------------------------
(***************************************************************************)
(* activate_sm: every call enters next_state and handles it.  A request    *)
(* that is not accepted is tried again by the next call.                   *)
(***************************************************************************)
Enter(state) ==
    /\ next_state = state
    /\ activate_state' = state

SendGetTimestamp ==
    /\ Enter("AS_SEND_GET_TIMESTAMP")
    /\ Hand({Timestamp}, {Timestamp})
    /\ next_state' = "AS_WAIT_TIMESTAMP"
    /\ UNCHANGED <<asynch_state_event, request_queue, subscribe_map, delay_due>>

\* DEVICE_CIK is compiled in, or nothing is.
InitState ==
    /\ Enter("AS_INIT")
    /\ next_state' \in {"AS_ACTIVATED", "AS_START"}
    /\ called' = NoCalls
    /\ UNCHANGED <<held, abort, asynch_state_event, request_queue, subscribe_map, sm_list,
                   delay_due, stale, before>>

\* api_get_cik: a CIK of the right format was saved, or none was.
Start ==
    /\ Enter("AS_START")
    /\ next_state' \in {"AS_ACTIVATED", "AS_PREPARE_ACTIVATE"}
    /\ called' = NoCalls
    /\ UNCHANGED <<held, abort, asynch_state_event, request_queue, subscribe_map, sm_list,
                   delay_due, stale, before>>

\* Faulty: the machines are not cleared before the activation.
PrepareActivate_KeepsRequests ==
    /\ Enter("AS_PREPARE_ACTIVATE")
    /\ delay_due
    /\ delay_due' = FALSE
    /\ next_state' = "AS_SEND_ACTIVATE"
    /\ called' = NoCalls
    /\ UNCHANGED <<held, abort, asynch_state_event, request_queue, subscribe_map, sm_list, stale, before>>

\* should_delay_activate with ACTIVATION_RETRY_TYPE 1; then every machine is cleared.
PrepareActivate ==
    /\ Enter("AS_PREPARE_ACTIVATE")
    /\ delay_due
    /\ delay_due' = FALSE
    /\ abort' = [m \in SM |-> abort[m] \/ m \in sm_list]
    /\ next_state' = "AS_SEND_ACTIVATE"
    /\ called' = NoCalls
    /\ UNCHANGED <<held, asynch_state_event, request_queue, subscribe_map, sm_list, stale, before>>

\* protocol_client_sm_is_empty
IsEmpty(m) == ~abort[m]

\* Faulty: the activation does not wait for the end of the clear.
SendActivate_NoWait ==
    /\ Enter("AS_SEND_ACTIVATE")
    /\ Hand({Activate}, {Activate})
    /\ next_state' = "AS_WAIT_ACTIVATE"
    /\ UNCHANGED <<asynch_state_event, request_queue, subscribe_map, delay_due>>

SendActivate ==
    /\ Enter("AS_SEND_ACTIVATE")
    /\ \A m \in sm_list : IsEmpty(m)
    /\ Hand({Activate}, {Activate})
    /\ next_state' = "AS_WAIT_ACTIVATE"
    /\ UNCHANGED <<asynch_state_event, request_queue, subscribe_map, delay_due>>

\* A response said that the CIK is not valid.
Deactivate ==
    /\ Enter("AS_ACTIVATED")
    /\ asynch_state_event
    /\ asynch_state_event' = FALSE
    /\ next_state' = "AS_PREPARE_ACTIVATE"
    /\ called' = NoCalls
    /\ UNCHANGED <<held, abort, request_queue, subscribe_map, sm_list, delay_due, stale, before>>

\* A request for every alias that is neither sent nor acknowledged.
Unsubscribed ==
    {CHOOSE s \in Subscriptions \ AllHeld : AliasOf[s] = a :
        a \in {b \in DOMAIN subscribe_map :
                  /\ ~subscribe_map[b].sent /\ ~subscribe_map[b].acknowledged
                  /\ \E s \in Subscriptions \ AllHeld : AliasOf[s] = b}}

\* The read or write at the head of the queue.
Oldest == IF request_queue = <<>> THEN {} ELSE {Head(request_queue)}

\* Faulty: a subscription is not marked when it is handed over.
Activated_Unmarked ==
    /\ Enter("AS_ACTIVATED")
    /\ ~asynch_state_event
    /\ \E subs \in SUBSET Unsubscribed :
       \E n \in 0 .. Cardinality(Oldest) :
          /\ Hand(subs \cup {request_queue[i] : i \in 1 .. n}, Unsubscribed \cup Oldest)
          /\ request_queue' = SubSeq(request_queue, n + 1, Len(request_queue))
    /\ UNCHANGED <<next_state, asynch_state_event, subscribe_map, delay_due>>

\* The subscriptions that are accepted, then the oldest read or write if it is.
Activated ==
    /\ Enter("AS_ACTIVATED")
    /\ ~asynch_state_event
    /\ \E subs \in SUBSET Unsubscribed :
       \E n \in 0 .. Cardinality(Oldest) :
          /\ Hand(subs \cup {request_queue[i] : i \in 1 .. n}, Unsubscribed \cup Oldest)
          /\ subscribe_map' = [a \in DOMAIN subscribe_map |->
                IF \E s \in subs : AliasOf[s] = a
                THEN [subscribe_map[a] EXCEPT !.sent = TRUE]
                ELSE subscribe_map[a]]
          /\ request_queue' = SubSeq(request_queue, n + 1, Len(request_queue))
    /\ UNCHANGED <<next_state, asynch_state_event, delay_due>>

\* No memory for the request, or the queue of its machine is full.
Refused ==
    /\ \/ Enter("AS_SEND_GET_TIMESTAMP") /\ Hand({}, {Timestamp})
       \/ /\ Enter("AS_SEND_ACTIVATE")
          /\ \A m \in sm_list : IsEmpty(m)
          /\ Hand({}, {Activate})
    /\ UNCHANGED <<next_state, asynch_state_event, request_queue, subscribe_map, delay_due>>

\* A call that changes nothing but activate_state: the WAIT states, the delay, a clear
\* that has not ended.
Idle ==
    /\ \/ next_state \in {"AS_WAIT_TIMESTAMP", "AS_WAIT_ACTIVATE"}
       \/ next_state = "AS_PREPARE_ACTIVATE" /\ ~delay_due
       \/ next_state = "AS_SEND_ACTIVATE" /\ \E m \in sm_list : ~IsEmpty(m)
    /\ Enter(next_state)
    /\ called' = NoCalls
    /\ UNCHANGED <<held, abort, next_state, asynch_state_event, request_queue,
                   subscribe_map, sm_list, delay_due, stale, before>>

-----------------------------------------------------------------------------
(***************************************************************************)
(* exosite_api_callback and the callbacks behind it, on the part e of the  *)
(* state that they write.                                                  *)
(***************************************************************************)
Part == [next |-> next_state, event |-> asynch_state_event, map |-> subscribe_map]

\* What response_callback makes of a response: success, success with a payload that
\* is no time or no CIK, ERR_CIK_NOT_VALID, any other error; among these a code of class
\* 2 that it does not know (2.01 to 2.03), which is an error to exosite_api and a success
\* to the machine that observes the resource.
Statuses(r) ==
    {"ok", "not_valid", "failure"}
        \cup (IF r \in {Timestamp, Activate} THEN {"malformed"} ELSE {})
        \cup (IF r \in Observe THEN {"other_2xx"} ELSE {})

\* Faulty: an error leaves the machine waiting.
on_timestamp_Waits(e, status) ==
    IF status = "ok" THEN [e EXCEPT !.next = "AS_INIT"] ELSE e

on_timestamp(e, status) ==
    [e EXCEPT !.next = IF status = "ok" THEN "AS_INIT" ELSE "AS_SEND_GET_TIMESTAMP"]

\* Faulty: the event that old responses raised survives the activation.
on_activate_KeepsEvent(e, status) ==
    [e EXCEPT !.next = IF status = "ok" THEN "AS_ACTIVATED" ELSE "AS_PREPARE_ACTIVATE"]

on_activate(e, status) ==
    IF status = "ok"
    THEN [e EXCEPT !.next = "AS_ACTIVATED", !.event = FALSE]
    ELSE [e EXCEPT !.next = "AS_PREPARE_ACTIVATE"]

\* Faulty: a subscription that failed stays marked as sent.
on_subscribe_KeepsSent(e, a, status) ==
    IF status = "ok" /\ ~Async THEN [e EXCEPT !.map[a] = Unsent] ELSE e

\* An HTTP long poll is over with its response, an observed resource goes on.
on_subscribe(e, a, status) ==
    [e EXCEPT !.map[a] = IF status = "ok" /\ Async
                         THEN [@ EXCEPT !.acknowledged = TRUE]
                         ELSE Unsent]

\* Faulty: a valid response takes the event of an earlier one back.
exosite_api_callback_ClearsEvent(e, r, status) ==
    LET f == [e EXCEPT !.event = status = "not_valid" \/ (@ /\ status # "ok")]
    IN  CASE r = NULL      -> e
          [] r = Timestamp -> on_timestamp(f, status)
          [] r = Activate  -> on_activate(f, status)
          [] r \in Subscriptions -> on_subscribe(f, AliasOf[r], status)
          [] r \in Data    -> f

exosite_api_callback(e, r, status) ==
    LET f == IF status = "not_valid" THEN [e EXCEPT !.event = TRUE] ELSE e
    IN  CASE r = NULL      -> e
          [] r = Timestamp -> on_timestamp(f, status)
          [] r = Activate  -> on_activate(f, status)
          [] r \in Subscriptions -> on_subscribe(f, AliasOf[r], status)
          [] r \in Data    -> f

\* The task of a machine: a response with a status the server chose, then a timeout,
\* then an abort. An observed resource stays exactly when the code of the response is of
\* class 2 and no abort is going on. What a timeout makes the machine forget is its
\* active request, which it took from its queue after the one that timed out.
SmTask(m) ==
    \E p, t, a \in held[m] \cup {NULL} :
    \E status \in Statuses(p) :
        /\ m \in sm_list
        /\ PortTask(m, p, t, a)
        /\ p # NULL =>
            (p \in held'[m] <=> p \in Observe /\ ~abort[m] /\ status \in {"ok", "other_2xx"})
        /\ t # NULL => \A r \in held[m] \ (held'[m] \cup {p, t, a}) : <<t, r>> \in before
        /\ \E e \in {exosite_api_callback(exosite_api_callback(exosite_api_callback(
                        Part, p, status), t, "failure"), a, "failure")} :
            /\ next_state' = e.next
            /\ asynch_state_event' = e.event
            /\ subscribe_map' = e.map
        /\ stale' = AllHeld' \cap (IF p = Activate /\ status = "ok" THEN Req ELSE stale)
        /\ before' = before \cap (AllHeld' \X AllHeld')
    /\ UNCHANGED <<activate_state, request_queue, sm_list, delay_due>>

-----------------------------------------------------------------------------
(***************************************************************************)
(* The user's calls, and time.                                             *)
(***************************************************************************)

\* Faulty: the limit of the queue is off by one.
ReadOrWrite_OffByOne(d) ==
    /\ d \notin AllHeld
    /\ \A i \in DOMAIN request_queue : request_queue[i] # d
    /\ Len(request_queue) <= MaxQueue
    /\ request_queue' = Append(request_queue, d)
    /\ called' = NoCalls
    /\ UNCHANGED <<held, abort, activate_state, next_state, asynch_state_event,
                   subscribe_map, sm_list, delay_due, stale, before>>

\* exosite_read or exosite_write; a full queue refuses the request.
ReadOrWrite(d) ==
    /\ d \notin AllHeld
    /\ \A i \in DOMAIN request_queue : request_queue[i] # d
    /\ Len(request_queue) < MaxQueue
    /\ request_queue' = Append(request_queue, d)
    /\ called' = NoCalls
    /\ UNCHANGED <<held, abort, activate_state, next_state, asynch_state_event,
                   subscribe_map, sm_list, delay_due, stale, before>>

\* exosite_subscribe; an alias that is in the map already is refused.
Subscribe(a) ==
    /\ a \notin DOMAIN subscribe_map
    /\ subscribe_map' = [b \in DOMAIN subscribe_map \cup {a} |->
            IF b = a THEN Unsent ELSE subscribe_map[b]]
    /\ called' = NoCalls
    /\ UNCHANGED <<held, abort, activate_state, next_state, asynch_state_event,
                   request_queue, sm_list, delay_due, stale, before>>

DelayElapse ==
    /\ ~delay_due
    /\ delay_due' = TRUE
    /\ called' = NoCalls
    /\ UNCHANGED <<held, abort, activate_state, next_state, asynch_state_event,
                   request_queue, subscribe_map, sm_list, stale, before>>

Next ==
    \/ SendGetTimestamp
    \/ InitState
    \/ Start
    \/ PrepareActivate
    \/ SendActivate
    \/ Deactivate
    \/ Activated
    \/ Refused
    \/ Idle
    \/ \E m \in SM : SmTask(m)
    \/ \E d \in Data : ReadOrWrite(d)
    \/ \E a \in Alias : Subscribe(a)
    \/ DelayElapse

Spec == Init /\ [][Next]_vars

(***************************************************************************)
(* activate_sm is called periodically, and memory for a request is found   *)
(* in the end.  The machines answer what they hold and finish their clears *)
(* (PcSm: EveryoneAnswered, SentAnswered, ClearEnds).  Nobody promises     *)
(* what the server answers.                                                *)
(***************************************************************************)
Answers(m) == SmTask(m) /\ {called'.response, called'.timeout, called'.aborted} \cap (Req \ Observe) # {}

Aborts(m) == abort[m] /\ SmTask(m) /\ (called'.aborted # NULL \/ ~abort'[m])

Fairness ==
    /\ WF_vars(SendGetTimestamp) /\ WF_vars(InitState) /\ WF_vars(Start)
    /\ WF_vars(PrepareActivate) /\ WF_vars(SendActivate) /\ WF_vars(Deactivate)
    /\ WF_vars(DelayElapse)
    /\ \A m \in SM : WF_vars(Answers(m)) /\ WF_vars(Aborts(m))

FairSpec == Spec /\ Fairness

-----------------------------------------------------------------------------
(***************************************************************************)
(* Properties.                                                             *)
(***************************************************************************)

\* Every variable holds a value of its type; the map only holds aliases.
TypeOK ==
    /\ PortType
    /\ activate_state \in States
    /\ next_state \in States \ {"AS_NONE"}
    /\ asynch_state_event \in BOOLEAN
    /\ request_queue \in Seq(Data) /\ Len(request_queue) <= MaxQueue
    /\ DOMAIN subscribe_map \subseteq Alias
    /\ \A a \in DOMAIN subscribe_map : subscribe_map[a] \in SubscribeItem
    /\ sm_list \subseteq SM
    /\ delay_due \in BOOLEAN
    /\ stale \subseteq AllHeld
    /\ before \subseteq AllHeld \X AllHeld

\* The machine waits for a time or an activation exactly while one such request is
\* held: without one it would wait for ever, with one and another state the late
\* callback would move the machine from wherever it is. While the activation is held
\* nothing else is, so no other answer can be taken for it.
WaitsForOne ==
    /\ next_state = "AS_WAIT_TIMESTAMP" <=> Timestamp \in AllHeld
    /\ next_state = "AS_WAIT_ACTIVATE" <=> Activate \in AllHeld
    /\ Activate \in AllHeld => AllHeld = {Activate}

\* Reads, writes and subscriptions are held only while the device is activated or
\* being cleared, and none carries a CIK that an activation has replaced.
FreshRequests ==
    /\ stale = {}
    /\ AllHeld \cap (Data \cup Subscriptions) # {} =>
        next_state \in {"AS_ACTIVATED", "AS_PREPARE_ACTIVATE", "AS_SEND_ACTIVATE"}

\* A subscription that is marked as sent is held by a machine: otherwise nobody would
\* ever send it again, and the user would never hear of a change.
SubscriptionAlive ==
    \A a \in DOMAIN subscribe_map : subscribe_map[a].sent =>
        \E s \in Subscriptions \cap AllHeld : AliasOf[s] = a

\* A subscription is held once, and only while it is marked as sent: it is not handed
\* over again while a machine holds it, so its arguments belong to one request.
SubscribedOnce ==
    \A s \in Subscriptions \cap AllHeld :
        /\ AliasOf[s] \in DOMAIN subscribe_map
        /\ subscribe_map[AliasOf[s]].sent
        /\ \A q \in Subscriptions \cap AllHeld : AliasOf[q] = AliasOf[s] => q = s

\* A successful activation starts clean: no old request is held, and no response to an
\* old request has left the event behind that would force the next activation.
CleanStart ==
    [][next_state = "AS_WAIT_ACTIVATE" /\ next_state' = "AS_ACTIVATED" =>
        AllHeld' = {} /\ ~asynch_state_event']_vars

\* The device never waits for ever for the time or for its activation.
WaitEnds ==
    /\ next_state = "AS_WAIT_TIMESTAMP" ~> next_state # "AS_WAIT_TIMESTAMP"
    /\ next_state = "AS_WAIT_ACTIVATE" ~> next_state # "AS_WAIT_ACTIVATE"

\* A CIK that the server refuses to an activated device leads to a new activation
\* request, whatever is queued or in flight then.
Reactivates ==
    (next_state = "AS_ACTIVATED" /\ asynch_state_event) ~> (Activate \in AllHeld)

=============================================================================
