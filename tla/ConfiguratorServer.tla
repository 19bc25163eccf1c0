------------------------- MODULE ConfiguratorServer -------------------------
(***************************************************************************)
(* The web server of src/configurator_server.c, through which a browser    *)
(* sets the wireless network.  configurator_server_task is a periodic      *)
(* callback: it opens the listener, accepts one connection and then treats *)
(* its slots one after the other; the browsers act at any time in between. *)
(*                                                                         *)
(* The net device and the browsers are external.  A request is two chunks: *)
(* the first ends after the URL, which has settings ("settings") or not    *)
(* ("head"), and "tail" completes the message; "junk" is what http_parser  *)
(* refuses.  A receive returns any number of the chunks that wait.         *)
(***************************************************************************)
EXTENDS Naturals, Sequences, FiniteSets

CONSTANTS
    Client,         \* the connections of the browsers
    NoClient,
    MaxConnection,  \* MAX_CONFIGURATOR_CONNECTION
    Scripts         \* what a browser may send on each connection: sequences of chunks

Chunk == {"head", "settings", "tail", "junk"}

ASSUME ServerAssumption ==
    /\ NoClient \notin Client
    /\ MaxConnection \in Nat \ {0}
    /\ \A c \in Client : \A script \in Scripts[c] : script \in Seq(Chunk)

VARIABLES
    server_socket,  \* the listener is open
    client_socket,  \* the slots
    connections,
    cfg_changed,
    clb_set,        \* the last start gave a callback
    overdue,        \* history: the change of cfg_changed waited for a start that gives a callback
    registered,     \* configurator_server_task is a periodic callback
    at,             \* the slot configurator_server_task treats next; 0: it is not running
    client          \* external: the browsers' ends of the connections

vars == <<server_socket, client_socket, connections, cfg_changed, clb_set, overdue, registered, at,
          client>>

Slots == 1 .. MaxConnection
Statuses == {"CLOSED", "OPENED", "DISCONNECTED", "RECV_IN_PROGRESS", "MESSAGE_RECVD",
             "SEND_IN_PROGRESS", "RESPONSE_SENT", "HTTP_ERROR", "SOCKET_ERROR"}
NoPage == "none"
Pages == {"MAIN", "ERROR", "SUCCESS"}

\* struct client_socket: parser is where http_parser is, response the page that is to be sent.
Socket == [status : Statuses, socket : Client \cup {NoClient}, parser : {"idle", "message", "error"},
           response : Pages \cup {NoPage}]

Closed == [status |-> "CLOSED", socket |-> NoClient, parser |-> "idle", response |-> NoPage]

\* A browser: the first sent chunks of its script are sent, the first taken of them received.
Browser == [state : {"out", "backlog", "accepted", "unslotted", "left", "closed"},
            script : Seq(Chunk), sent : Nat, taken : Nat, answer : Pages \cup {NoPage}]

Unconnected == [state |-> "out", script |-> <<>>,
                sent |-> 0, taken |-> 0, answer |-> NoPage]

-----------------------------------------------------------------------------
(* The parser and its callbacks.                                           *)

\* message_cleanup
message_cleanup(s) == [s EXCEPT !.status = "OPENED", !.response = NoPage]

\* One chunk: on_message_begin and on_url (which fails without memory), on_message_complete, or an
\* error that stays.
Parsed(s, chunk, oom) ==
    CASE s.parser = "error" -> s
      [] s.parser = "idle" /\ chunk \in {"head", "settings"} ->
            [message_cleanup(s) EXCEPT !.status = IF oom THEN "HTTP_ERROR" ELSE "RECV_IN_PROGRESS",
                                       !.parser = "message"]
      [] s.parser = "message" /\ chunk = "tail" ->
            [s EXCEPT !.status = "MESSAGE_RECVD", !.parser = "idle"]
      [] OTHER -> [s EXCEPT !.parser = "error"]

ParsedAll(s, chunks, oom) ==
    LET after[n \in 0 .. Len(chunks)] ==       \* after the first n chunks
            IF n = 0 THEN s ELSE Parsed(after[n - 1], chunks[n], oom)
    IN after[Len(chunks)]

\* http_parser_execute, and the cleanup when a callback failed or not everything was parsed.
http_parser_execute(s, chunks, oom) ==
    LET parsed == ParsedAll(s, chunks, oom)
    IN IF parsed.parser = "error" \/ parsed.status = "HTTP_ERROR"
       THEN message_cleanup(parsed) ELSE parsed

\* on_url found settings in what was parsed.
FindsSettings(s, chunks) ==
    \E n \in DOMAIN chunks :
        chunks[n] = "settings" /\ ParsedAll(s, SubSeq(chunks, 1, n), FALSE).parser = "message"

-----------------------------------------------------------------------------
(* One call of configurator_server_task.                                   *)

\* Faulty: the loop does not end at the first free slot.
add_client_socket_NoBreak(c) ==
    LET free == {i \in Slots : client_socket[i].status = "CLOSED"}
    IN /\ client_socket' = [i \in Slots |-> IF i \in free
                                            THEN [Closed EXCEPT !.status = "OPENED", !.socket = c]
                                            ELSE client_socket[i]]
       /\ connections' = connections + Cardinality(free)
       /\ client' = [client EXCEPT ![c].state = IF free # {} THEN "accepted" ELSE "unslotted"]

\* add_client_socket: the check of connections never refuses (it is at most MaxConnection);
\* when every slot is taken the connection is neither stored nor closed.
add_client_socket(c) ==
    LET free == {i \in Slots : client_socket[i].status = "CLOSED"}
    IN IF free # {}
       THEN LET idx == CHOOSE i \in free : \A j \in free : i <= j
            IN /\ client_socket' = [client_socket EXCEPT ![idx] =
                                        [Closed EXCEPT !.status = "OPENED", !.socket = c]]
               /\ connections' = connections + 1
               /\ client' = [client EXCEPT ![c].state = "accepted"]
       ELSE /\ client' = [client EXCEPT ![c].state = "unslotted"]
            /\ UNCHANGED <<client_socket, connections>>

\* The call begins: the listener is opened, and one connection accepted.
AcceptTask ==
    /\ registered /\ at = 0
    /\ at' = 1
    /\ \/ \E open \in BOOLEAN :            \* open_server_socket, or nothing to accept
             /\ server_socket' = (server_socket \/ open)
             /\ \A c \in Client : client[c].state # "backlog"
             /\ UNCHANGED <<client_socket, connections, client>>
       \/ \E c \in Client :
             /\ server_socket /\ client[c].state = "backlog"
             /\ add_client_socket(c)
             /\ UNCHANGED server_socket
       \/ /\ server_socket                  \* accept fails: close_server_socket
          /\ server_socket' = FALSE
          /\ client' = [c \in Client |-> IF client[c].state = "backlog"
                                         THEN [Unconnected EXCEPT !.state = "closed"] ELSE client[c]]
          /\ UNCHANGED <<client_socket, connections>>
    /\ UNCHANGED <<cfg_changed, clb_set, overdue, registered>>

\* receive_task: the slot after it, the chunks taken now, and whether settings were found.
receive_task(s) ==
    LET c == client[s.socket]
        Result(slot, taken, found) == [slot |-> slot, taken |-> taken, found |-> found]
        failed == Result([s EXCEPT !.status = "SOCKET_ERROR"], c.taken, FALSE)
        Taken(n, oom) == LET chunks == SubSeq(c.script, c.taken + 1, n)
                         IN Result(http_parser_execute(s, chunks, oom), n,
                                   ~oom /\ FindsSettings(s, chunks))
    IN IF s.status \notin {"OPENED", "RECV_IN_PROGRESS"}
       THEN {Result(s, c.taken, FALSE)}
       ELSE IF c.taken < c.sent
       THEN {failed} \cup {Taken(n, oom) : n \in c.taken + 1 .. c.sent, oom \in BOOLEAN}
       ELSE IF c.state = "left"
       THEN {failed, Result([s EXCEPT !.status = "DISCONNECTED"], c.taken, FALSE)}
       ELSE {failed, Result(s, c.taken, FALSE)}

\* set_response, which may fail for want of memory.
set_response(s, page, ok) ==
    IF s.status = "MESSAGE_RECVD"
    THEN [s EXCEPT !.status = "SEND_IN_PROGRESS", !.response = IF ok THEN page ELSE NoPage]
    ELSE s

\* send_task with the result of the net device.
send_task(s, result) ==
    IF s.status # "SEND_IN_PROGRESS" THEN s
    ELSE IF s.response = NoPage THEN [s EXCEPT !.status = "RESPONSE_SENT"]
    ELSE CASE result = "SUCCESS" -> [s EXCEPT !.status = "RESPONSE_SENT", !.response = NoPage]
           [] result = "WOULD_BLOCK" -> s
           [] OTHER -> [s EXCEPT !.status = "SOCKET_ERROR"]

\* The page for what a slot received: the callback was called for its settings, or it is the form.
PagesFor(changed) == IF changed /\ clb_set THEN {"SUCCESS", "ERROR"} ELSE {"MAIN"}

\* Faulty: cfg_changed is not cleared.
AfterCallback_KeepsChange(changed) == changed

\* The call of the callback clears cfg_changed.
AfterCallback(changed) == changed /\ ~clb_set

\* Faulty: one case of the switch falls through into the next, and closes again.
close_client_socket_Twice(i, answer) ==
    /\ client_socket' = [client_socket EXCEPT ![i] = Closed]
    /\ connections' = connections - 2
    /\ client' = [client EXCEPT ![client_socket[i].socket] =
           [Unconnected EXCEPT !.state = "closed", !.script = client[client_socket[i].socket].script,
                               !.answer = answer]]

\* close_client_socket, for the browser with the answer it got.
close_client_socket(i, answer) ==
    /\ client_socket' = [client_socket EXCEPT ![i] = Closed]
    /\ connections' = connections - 1
    /\ client' = [client EXCEPT ![client_socket[i].socket] =
           [Unconnected EXCEPT !.state = "closed", !.script = client[client_socket[i].socket].script,
                               !.answer = answer]]

\* Faulty: a slot whose browser left is not closed.
ClosingStatuses_NotDisconnected == {"RESPONSE_SENT", "SOCKET_ERROR"}

\* The switch at the end of configurator_server_task closes the slots with these.
ClosingStatuses == {"RESPONSE_SENT", "DISCONNECTED", "SOCKET_ERROR"}

\* The slot at is treated: received from, answered, sent to, and closed when it is done.
SlotTask(result) ==
    LET s == client_socket[at]
    IN /\ at > 0
       /\ at' = (at + 1) % (MaxConnection + 1)
       /\ \/ /\ s.status = "CLOSED" /\ result = "SUCCESS"
             /\ cfg_changed' = AfterCallback(cfg_changed)
             /\ UNCHANGED <<client_socket, connections, client>>
          \/ /\ s.status # "CLOSED"
             /\ \E recv \in receive_task(s), ok \in BOOLEAN :
                \E page \in PagesFor(cfg_changed \/ recv.found) :
                   LET ready == set_response(recv.slot, page, ok)
                       sent == send_task(ready, result)
                   IN /\ cfg_changed' = AfterCallback(cfg_changed \/ recv.found)
                      /\ IF sent.status \in ClosingStatuses
                         THEN close_client_socket(at, IF sent.status = "RESPONSE_SENT"
                                                      THEN ready.response ELSE NoPage)
                         ELSE /\ client_socket' = [client_socket EXCEPT ![at] = sent]
                              /\ client' = [client EXCEPT ![s.socket].taken = recv.taken]
                              /\ UNCHANGED connections
       /\ overdue' = (overdue /\ cfg_changed')
       /\ UNCHANGED <<server_socket, clb_set, registered>>

-----------------------------------------------------------------------------
(* The application.                                                        *)

\* start_configurator_server: the callback of the last start counts, also when memory runs out and the
\* task is not registered.  Every start registers it again, and the second runs after the first in the
\* same thread.  stop_configurator_server only frees the copy of the serial number.
start_configurator_server ==
    /\ clb_set' \in BOOLEAN
    /\ registered' \in {registered, TRUE}
    /\ overdue' = (overdue \/ (cfg_changed /\ ~clb_set /\ clb_set'))
    /\ UNCHANGED <<server_socket, client_socket, connections, cfg_changed, at, client>>

-----------------------------------------------------------------------------
(* The browsers (external).                                                *)

Connect(c) ==
    /\ server_socket /\ client[c].state = "out"
    /\ \E script \in Scripts[c] :
           client' = [client EXCEPT ![c].state = "backlog", ![c].script = script]

Send(c) ==
    /\ client[c].state = "accepted" /\ client[c].sent < Len(client[c].script)
    /\ client' = [client EXCEPT ![c].sent = @ + 1]

Leave(c) ==
    /\ client[c].state = "accepted"
    /\ client' = [client EXCEPT ![c].state = "left"]

Browse ==
    /\ \E c \in Client : Connect(c) \/ Send(c) \/ Leave(c)
    /\ UNCHANGED <<server_socket, client_socket, connections, cfg_changed, clb_set, overdue,
                   registered, at>>

-----------------------------------------------------------------------------
Init ==
    /\ server_socket = FALSE
    /\ client_socket = [i \in Slots |-> Closed]
    /\ connections = 0
    /\ cfg_changed = FALSE
    /\ clb_set = FALSE /\ overdue = FALSE
    /\ registered = FALSE /\ at = 0
    /\ client = [c \in Client |-> Unconnected]

SendResults == {"SUCCESS", "WOULD_BLOCK", "FAILURE"}
TreatSlot == \E result \in SendResults : SlotTask(result)
Task == AcceptTask \/ TreatSlot

Next == Task \/ start_configurator_server \/ Browse

Spec == Init /\ [][Next]_vars

\* The task is called again and again (pclb), and an answer is not blocked for ever.
Unblocked == at > 0 /\ client_socket[at].status = "SEND_IN_PROGRESS"
             /\ (SlotTask("SUCCESS") \/ SlotTask("FAILURE"))

Fairness == WF_vars(Task) /\ SF_vars(Unblocked)

FairSpec == Spec /\ Fairness

-----------------------------------------------------------------------------
\* The variables have their types.
TypeOK ==
    /\ server_socket \in BOOLEAN /\ cfg_changed \in BOOLEAN /\ clb_set \in BOOLEAN
    /\ overdue \in BOOLEAN
    /\ client_socket \in [Slots -> Socket]
    /\ connections \in 0 .. MaxConnection
    /\ registered \in BOOLEAN
    /\ at \in 0 .. MaxConnection
    /\ client \in [Client -> Browser]
    /\ \A c \in Client : client[c].taken <= client[c].sent /\ client[c].sent <= Len(client[c].script)

Requests == {<<"head", "tail">>, <<"settings", "tail">>}
OneRequest(c) == client[c].script \in Requests /\ client[c].sent = 2

InSlot(c) == \E i \in Slots : client_socket[i].socket = c

\* add_client_socket and close_client_socket: connections counts the slots in use, no two of them have
\* the same connection, and only a slot that is sending has a response (the assertions of set_response
\* and close_client_socket).  A connection that was accepted while a slot was free has one until it is
\* closed; one that found none has none, then or later, although it stays open.
SlotsConsistent ==
    /\ connections = Cardinality({i \in Slots : client_socket[i].status # "CLOSED"})
    /\ \A i \in Slots : /\ client_socket[i].status = "CLOSED" <=> client_socket[i].socket = NoClient
                        /\ client_socket[i].response # NoPage => client_socket[i].status = "SEND_IN_PROGRESS"
    /\ \A i, j \in Slots : client_socket[i].socket = client_socket[j].socket
                               => i = j \/ client_socket[i].socket = NoClient
    /\ \A c \in Client : InSlot(c) <=> client[c].state \in {"accepted", "left"}

\* The browser at c has a page, or is being sent one, that says what became of new settings.
Told(c) ==
    \/ client[c].answer \in {"SUCCESS", "ERROR"}
    \/ \E i \in Slots : client_socket[i].socket = c /\ client_socket[i].response \in {"SUCCESS", "ERROR"}

\* The page of configurator_server_task is the slot's own: a browser that sent no settings is told that
\* settings were taken or refused only by the one page for a change that came while there was no
\* callback and that a later start gave one; whatever the other browsers send meanwhile.
PageOwn ==
    [][\A c \in Client : Told(c)' /\ ~Told(c) =>
        overdue \/ \E n \in DOMAIN client[c].script : client[c].script[n] = "settings"]_vars

\* Every slot is given back: a browser that left, or that sent one whole request and nothing more,
\* does not keep its slot, though requests fail and memory runs out.
Served ==
    \A c \in Client : InSlot(c) /\ (client[c].state = "left" \/ OneRequest(c)) ~> ~InSlot(c)

=============================================================================
