----------------------------- MODULE RequestPort -----------------------------
(***************************************************************************)
(* What exosite_api.c relies on when it hands requests to the protocol     *)
(* client state machines: the abstract specification of                    *)
(* src/include/protocol_client_sm.h.                                       *)
(*                                                                         *)
(* A machine holds the requests it was given until it calls them back, on  *)
(* a response, a timeout or an abort.  A subscription that was answered    *)
(* may stay.  A clear sets a flag, which goes down when nothing is held    *)
(* any more.  A request may also be lost without a callback, but only      *)
(* together with the timeout or the abort of another one: protocol_client_ *)
(* sm.c forgets the active request then.                                   *)
(***************************************************************************)
EXTENDS Integers

CONSTANTS
    SM,         \* the state machine instances
    Req,        \* the requests
    NULL,
    Async,      \* several requests may be in flight (CoAP)
    Observe     \* the requests of type REQUEST_SUBSCRIBE_ASYNCH

ASSUME PortAssumption == NULL \notin Req /\ Async \in BOOLEAN /\ Observe \subseteq Req

VARIABLES
    held,       \* the requests every machine holds
    abort,      \* abort_transfers_in_progress of every machine
    called      \* the callbacks made by the last step

NoCalls == [response |-> NULL, timeout |-> NULL, aborted |-> NULL]

PortType ==
    /\ held \in [SM -> SUBSET Req]
    /\ abort \in [SM -> BOOLEAN]
    /\ called \in [response : Req \cup {NULL}, timeout : Req \cup {NULL},
                   aborted : Req \cup {NULL}]

PortInit ==
    /\ held = [m \in SM |-> {}]
    /\ abort = [m \in SM |-> FALSE]
    /\ called = NoCalls

\* protocol_client_sm_transmit accepts a request.
PortTransmit(m, r) ==
    /\ \A x \in SM : r \notin held[x]
    /\ held' = [held EXCEPT ![m] = @ \cup {r}]
    /\ called' = NoCalls
    /\ UNCHANGED abort

\* protocol_client_sm_clear
PortClear(m) ==
    /\ abort' = [abort EXCEPT ![m] = TRUE]
    /\ called' = NoCalls
    /\ UNCHANGED held

\* What is left of the requests h after a callback that may lose another one.
LeftBy(h, r, loses) ==
    {h \ {r}} \cup (IF loses THEN {h \ {r, x} : x \in h} ELSE {})

(***************************************************************************)
(* A call of protocol_client_sm_task: at most one response p, one timeout  *)
(* t and one abort a are called back, in this order.  At the end of an     *)
(* abort nothing is held.                                                  *)
(***************************************************************************)
PortTask(m, p, t, a) ==
    \E h1 \in IF p = NULL THEN {held[m]}
              ELSE {held[m] \ {p}} \cup
                   (IF Async /\ p \in Observe /\ ~abort[m] THEN {held[m]} ELSE {}) :
    \E h2 \in IF t = NULL THEN {h1} ELSE LeftBy(h1, t, Async) :
    \E h3 \in IF a = NULL THEN {h2} ELSE LeftBy(h2, a, TRUE) :
        /\ p # NULL => p \in held[m]
        /\ t # NULL => t \in h1 \ {p}     \* what was answered and stays does not time out
        /\ a # NULL => abort[m] /\ a \in h2
        /\ held' = [held EXCEPT ![m] = h3]
        /\ \/ UNCHANGED abort
           \/ h3 = {} /\ a = NULL /\ abort' = [abort EXCEPT ![m] = FALSE]
        /\ called' = [response |-> p, timeout |-> t, aborted |-> a]

PortNext ==
    \/ \E m \in SM, r \in Req : PortTransmit(m, r)
    \/ \E m \in SM : PortClear(m)
    \/ \E m \in SM : \E p, t, a \in Req \cup {NULL} : PortTask(m, p, t, a)

PortSpec == PortInit /\ [][PortNext]_<<held, abort, called>>

=============================================================================
