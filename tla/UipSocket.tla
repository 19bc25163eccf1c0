----------------------------- MODULE UipSocket -----------------------------
(***************************************************************************)
(* A socket of the uIP port (porting/net/uip): the calls of                *)
(* net_if_uip_tcp.c and uip_port.c by the machines against uip_appcall,    *)
(* which the stack calls from uip_mainloop.  net_dev_init registers        *)
(* uip_mainloop as a periodic callback, so both run in the callback        *)
(* thread, and a call or an event of the stack is one step.                *)
(*                                                                         *)
(* One slot of uip_conns is modelled, which is used for several            *)
(* connections one after the other.  The stack (tcp) and the peer are      *)
(* external and modelled as uIP presents them to uip_appcall: a segment is *)
(* outstanding until it is acknowledged, is sent again from the buffer of  *)
(* the application, data is neither acknowledged nor flagged as new while  *)
(* the connection is stopped, and uip_mss() follows the window the peer    *)
(* announces.  The bytes of each direction are numbered 1, 2, ... within a *)
(* connection.                                                             *)
(***************************************************************************)
EXTENDS Cbuffer, FiniteSetsExt

CONSTANTS
    Builds,     \* the builds: with the ring ("TCPBUF") or with the single buffer ("inbuf")
    Window,     \* UIP_RECEIVE_WINDOW
    Mss,        \* UIP_TCP_MSS: the most uip_mss() may be, and the largest segment of the peer
    OutMax,     \* UIP_CONF_BUFFER_SIZE of outbuf
    MaxIn,      \* bound: bytes the peer sends in a connection
    MaxOut,     \* bound: bytes the application sends in a connection
    MaxConns    \* bound: connections of the slot

\* The peer sends no more at once than the window, and the window is no larger than the ring.
ASSUME UipAssumption ==
    /\ Builds \subseteq {"TCPBUF", "inbuf"}
    /\ {Window, Mss, OutMax, MaxIn, MaxOut, MaxConns} \subseteq Nat \ {0}
    /\ Mss <= Window /\ Window <= RingSize
    /\ Byte = 1 .. MaxIn

VARIABLES
    build,
    pstate,     \* struct uip_state of the slot (its appstate)
    tcp,        \* the stack's connection: tcpstateflags, UIP_STOPPED, uip_mss(), the outstanding segment
    peer,       \* the bytes the peer received
    sock,       \* struct net_socket of the caller: none, open or connected
    conns,      \* connections so far
    accepted,   \* history: bytes of this connection uip_net_send took
    read,       \* history: bytes 1 .. read of the peer's stream reached the caller
    trouble     \* history: what befell this connection that the port is not made for

vars == <<build, pstate, tcp, peer, sock, conns, accepted, read, trouble>>

States == {"IDLE", "SEND", "RECV", "CLOSE"}
NetErrors == {"ABORTED", "TIMEDOUT", "CLOSED"}
Codes == {"SUCCESS", "WOULD_BLOCK", "FAILURE"} \cup NetErrors
\* The peer changed its window under an outstanding segment, or a segment filled the ring.
Troubles == {"resized", "filled"}
Flags == {"CLOSED", "RESERVED", "SYN_SENT", "ESTABLISHED", "CLOSING", "LAST_ACK"}

Prefix(s, n) == SubSeq(s, 1, Min({n, Len(s)}))
Suffix(s, n) == SubSeq(s, n + 1, Len(s))
From(first, n) == [i \in 1 .. n |-> first + i]

\* A byte of a packet that the application did not put there.
Stale == 0

\* The bytes that wait for uip_net_recv.
Buffered == IF build = "TCPBUF" THEN Contents(pstate.ring) ELSE pstate.inbuf

-----------------------------------------------------------------------------
(* The calls of the application.                                           *)

uip_conn_active == tcp.flags \notin {"CLOSED", "RESERVED"}

\* prep_socket_state
prep_socket_state(s, res, state) == [s EXCEPT !.res = res, !.state = state]

\* net_if_socket: the slot is free; its state is the one the last connection left.
net_if_socket ==
    /\ sock = "none" /\ tcp.flags = "CLOSED" /\ ~pstate.inuse
    /\ conns < MaxConns
    /\ pstate' = [pstate EXCEPT !.inuse = TRUE, !.connect_started = FALSE, !.connected = FALSE,
                                !.res = "SUCCESS", !.ring = cbuffer_new, !.inbuf = <<>>,
                                !.outbuf = <<>>]
    /\ tcp' = [flags |-> "RESERVED", stopped |-> FALSE, mss |-> Mss, len |-> <<>>, una |-> 0,
               rcv_nxt |-> 0]
    /\ peer' = <<>>
    /\ sock' = "open"
    /\ conns' = conns + 1
    /\ accepted' = 0 /\ read' = 0 /\ trouble' = {}
    /\ UNCHANGED build

\* net_if_connect: the first call starts the connection, a later one finds it connected.
net_if_connect ==
    LET starts == ~pstate.connect_started
        fails == starts /\ tcp.flags # "RESERVED"
        res == IF ~pstate.connected /\ pstate.res = "SUCCESS" THEN "WOULD_BLOCK" ELSE pstate.res
    IN /\ sock = "open" /\ ~fails
       /\ pstate' = [pstate EXCEPT !.connect_started = ~pstate.connected, !.res = res]
       /\ tcp' = IF starts THEN [tcp EXCEPT !.flags = "SYN_SENT"] ELSE tcp
       /\ sock' = IF res = "SUCCESS" THEN "connected" ELSE sock
       /\ UNCHANGED <<build, peer, conns, accepted, read, trouble>>

\* Faulty: what is left of the last send is overwritten.
net_if_send_Overwrites(len) ==
    LET size_to_send == Min({len, OutMax})
    IN /\ sock = "connected" /\ uip_conn_active
       /\ accepted + size_to_send <= MaxOut
       /\ pstate' = prep_socket_state([pstate EXCEPT !.outbuf = From(accepted, size_to_send)],
                                      "SUCCESS", "SEND")
       /\ accepted' = accepted + size_to_send
       /\ UNCHANGED <<build, tcp, peer, sock, conns, read, trouble>>

\* net_if_send: uip_net_send takes what fits when nothing is left of the last send.
net_if_send(len) ==
    LET size_to_send == Min({len, OutMax})
    IN /\ sock = "connected" /\ uip_conn_active
       /\ accepted + size_to_send <= MaxOut
       /\ IF pstate.outbuf = <<>>
          THEN /\ pstate' = prep_socket_state([pstate EXCEPT !.outbuf = From(accepted, size_to_send)],
                                              "SUCCESS", "SEND")
               /\ accepted' = accepted + size_to_send
          ELSE /\ pstate' = [pstate EXCEPT !.res = IF @ = "SUCCESS" THEN "WOULD_BLOCK" ELSE @]
               /\ UNCHANGED accepted
       /\ UNCHANGED <<build, tcp, peer, sock, conns, read, trouble>>

\* Faulty: an empty buffer does not ask for the restart.
net_if_receive_NoRestart(sz) ==
    LET to_copy == Min({sz, Len(Buffered)})
    IN /\ sock = "connected" /\ uip_conn_active
       /\ IF Buffered = <<>>
          THEN /\ pstate' = [pstate EXCEPT !.res = IF @ = "SUCCESS" THEN "WOULD_BLOCK" ELSE @]
               /\ UNCHANGED read
          ELSE /\ pstate' = IF build = "TCPBUF"
                            THEN [pstate EXCEPT !.ring = cbuffer_pop(@, to_copy)]
                            ELSE [pstate EXCEPT !.inbuf = Suffix(@, to_copy)]
               /\ read' = Max({read, Buffered[to_copy]})
       /\ UNCHANGED <<build, tcp, peer, sock, conns, accepted, trouble>>

\* net_if_receive: uip_net_recv copies what it has, or asks for the connection to be restarted.
net_if_receive(sz) ==
    LET to_copy == Min({sz, Len(Buffered)})
    IN /\ sock = "connected" /\ uip_conn_active
       /\ IF Buffered = <<>>
          THEN /\ pstate' = [pstate EXCEPT !.state = "RECV",
                                           !.res = IF @ = "SUCCESS" THEN "WOULD_BLOCK" ELSE @]
               /\ UNCHANGED read
          ELSE /\ pstate' = IF build = "TCPBUF"
                            THEN [pstate EXCEPT !.ring = cbuffer_pop(@, to_copy)]
                            ELSE [pstate EXCEPT !.inbuf = Suffix(@, to_copy)]
               /\ read' = Max({read, Buffered[to_copy]})
       /\ UNCHANGED <<build, tcp, peer, sock, conns, accepted, trouble>>

\* What net_if_receive returns, from the result of uip_net_recv and uip_net_get_last_err.
net_if_receive_error ==
    IF uip_conn_active /\ Buffered # <<>> THEN "SUCCESS"
    ELSE IF pstate.res = "WOULD_BLOCK" \/ (uip_conn_active /\ pstate.res = "SUCCESS")
    THEN "WOULD_BLOCK" ELSE "FAILURE"

\* net_if_close: a connection that is active is closed by the next uip_appcall.
net_if_close ==
    /\ sock # "none"
    /\ sock' = "none"
    /\ pstate' = [pstate EXCEPT !.inuse = FALSE, !.state = IF uip_conn_active THEN "CLOSE" ELSE @]
    /\ tcp' = [tcp EXCEPT !.flags = IF uip_conn_active THEN @ ELSE "CLOSED"]
    /\ UNCHANGED <<build, peer, conns, accepted, read, trouble>>

-----------------------------------------------------------------------------
(* uip_appcall: t is the connection as the stack has set it, ev the flags  *)
(* and the data of the event.                                              *)

Quiet == [acked |-> FALSE, sends |-> FALSE, newdata |-> FALSE, data |-> <<>>, error |-> "SUCCESS"]

\* Faulty: all that is left of the last send is taken off.
AfterAck_All(t, s, ev) == IF ev.acked THEN [s EXCEPT !.outbuf = <<>>] ELSE s

\* acked: as many bytes are taken off outbuf as uip_mss() is now.
AfterAck(t, s, ev) ==
    IF ev.acked THEN [s EXCEPT !.outbuf = Suffix(@, Min({Len(@), t.mss}))] ELSE s

\* uip_send of as much as uip_mss() is now: the next segment, or again the one that is outstanding,
\* as long as it was; the stack sends what the packet buffer held for the bytes that are missing.
AfterSend(t, s, ev) ==
    LET supplied == Prefix(s.outbuf, t.mss)
        again == [i \in 1 .. Len(t.len) |-> IF i <= Len(supplied) THEN supplied[i] ELSE Stale]
    IN IF ev.sends /\ s.outbuf # <<>>
       THEN [t EXCEPT !.len = IF @ = <<>> THEN supplied ELSE again] ELSE t

\* A segment of exactly the free bytes fills the ring.
Fills(s, data) == build = "TCPBUF" /\ Len(data) = cbuffer_get_free(s.ring)

\* New data is stored; the single buffer has room for one segment, the ring until its window is gone.
Store(s, data) ==
    prep_socket_state(IF build = "TCPBUF" THEN [s EXCEPT !.ring = tcp_buffer_push(@, data)]
                                          ELSE [s EXCEPT !.inbuf = data],
                      "SUCCESS", "IDLE")

\* Faulty: the connection is stopped when the ring is full.
uip_stop_Late(s) == build = "TCPBUF" => cbuffer_get_free(s.ring) < 1

\* uip_stop(), when there may be no room for what the window lets come.
uip_stop(s) == build = "TCPBUF" => cbuffer_get_free(s.ring) < Window

uip_appcall(t, ev) ==
    LET restart == pstate.state = "RECV"
        s == [pstate EXCEPT !.state = IF restart THEN "IDLE" ELSE @]
        c == [t EXCEPT !.stopped = @ /\ ~restart]
        acked == AfterAck(t, s, ev)
        sent == AfterSend(c, acked, ev)
        \* uip_restart() sets the flag of new data as well
        new == (ev.newdata \/ restart) /\ ev.data # <<>>
        stored == Store(acked, ev.data)
    IN  /\ \/ /\ ev.error # "SUCCESS"
              /\ pstate' = [s EXCEPT !.res = ev.error]
              /\ tcp' = c /\ UNCHANGED trouble
           \/ /\ ev.error = "SUCCESS" /\ s.state = "CLOSE"     \* uip_close(): no other flag is left
              /\ pstate' = [s EXCEPT !.state = "IDLE"]
              /\ tcp' = [c EXCEPT !.flags = "CLOSING", !.len = <<>>] /\ UNCHANGED trouble
           \/ /\ ev.error = "SUCCESS" /\ s.state # "CLOSE" /\ ~new
              /\ pstate' = acked
              /\ tcp' = sent /\ UNCHANGED trouble
           \/ /\ ev.error = "SUCCESS" /\ s.state # "CLOSE" /\ new
              /\ pstate' = stored
              /\ tcp' = [sent EXCEPT !.stopped = @ \/ uip_stop(stored)]
              /\ trouble' = trouble \cup (IF Fills(acked, ev.data) THEN {"filled"} ELSE {})
        /\ UNCHANGED <<build, peer, sock, conns, accepted, read>>

-----------------------------------------------------------------------------
(* The events of the stack.                                                *)

Established == tcp.flags = "ESTABLISHED"

\* The next n bytes of the peer.
Segment(n) == From(tcp.rcv_nxt, n)
Segments == 1 .. Min({Mss, MaxIn - tcp.rcv_nxt})

\* uip_connected(): uip_appcall only marks the slot, and stops the connection.
Connected ==
    /\ tcp.flags = "SYN_SENT"
    /\ pstate' = [pstate EXCEPT !.connected = TRUE, !.res = "SUCCESS"]
    /\ tcp' = [tcp EXCEPT !.flags = "ESTABLISHED", !.stopped = TRUE]
    /\ UNCHANGED <<build, peer, sock, conns, accepted, read, trouble>>

\* A segment of the peer announces another window, from which the stack sets uip_mss() anew.
Announces(mss) ==
    /\ Established /\ mss # tcp.mss
    /\ tcp' = [tcp EXCEPT !.mss = mss]
    /\ trouble' = trouble \cup (IF tcp.len = <<>> THEN {} ELSE {"resized"})
    /\ UNCHANGED <<build, pstate, peer, sock, conns, accepted, read>>

\* uip_poll(): only a connection with nothing outstanding is polled.
Poll == Established /\ tcp.len = <<>> /\ uip_appcall(tcp, [Quiet EXCEPT !.sends = TRUE])

\* uip_rexmit()
Rexmit == Established /\ tcp.len # <<>> /\ uip_appcall(tcp, [Quiet EXCEPT !.sends = TRUE])

\* uip_acked(), with a segment of the peer or without.
Acked(data) ==
    /\ Established /\ tcp.len # <<>>
    /\ Len(peer) >= tcp.una + Len(tcp.len)
    /\ uip_appcall([tcp EXCEPT !.una = @ + Len(tcp.len), !.len = <<>>,
                               !.rcv_nxt = IF tcp.stopped THEN @ ELSE @ + Len(data)],
                   [Quiet EXCEPT !.acked = TRUE, !.sends = TRUE,
                                 !.newdata = ~tcp.stopped /\ data # <<>>, !.data = data])

\* uip_newdata() alone: a connection that is stopped drops the segment.
NewData(n) ==
    /\ Established /\ ~tcp.stopped
    /\ uip_appcall([tcp EXCEPT !.rcv_nxt = @ + n],
                   [Quiet EXCEPT !.newdata = TRUE, !.data = Segment(n)])

\* The peer closes, with the last n bytes or none in the same segment.
PeerCloses(n) ==
    /\ Established /\ ~tcp.stopped /\ tcp.len = <<>>
    /\ uip_appcall([tcp EXCEPT !.rcv_nxt = @ + n, !.flags = "LAST_ACK"],
                   [Quiet EXCEPT !.newdata = n > 0, !.data = Segment(n), !.error = "CLOSED"])

\* The connection ends: reset by the peer, given up, or closed by both.
Ends(error) ==
    /\ uip_conn_active
    /\ error = "TIMEDOUT" /\ Established => tcp.len # <<>>
    /\ error = "CLOSED" => tcp.flags \in {"CLOSING", "LAST_ACK"}
    /\ uip_appcall([tcp EXCEPT !.flags = "CLOSED", !.len = <<>>], [Quiet EXCEPT !.error = error])

\* The outstanding segment, or a copy of it, reaches the peer.
PeerReceives ==
    /\ Established
    /\ Len(peer) < tcp.una + Len(tcp.len)
    /\ peer' = peer \o Suffix(tcp.len, Len(peer) - tcp.una)
    /\ UNCHANGED <<build, pstate, tcp, sock, conns, accepted, read, trouble>>

-----------------------------------------------------------------------------
Init ==
    /\ build \in Builds
    /\ pstate = [inuse |-> FALSE, connect_started |-> FALSE, connected |-> FALSE, state |-> "IDLE",
                 res |-> "SUCCESS", ring |-> cbuffer_new, inbuf |-> <<>>, outbuf |-> <<>>]
    /\ tcp = [flags |-> "CLOSED", stopped |-> FALSE, mss |-> Mss, len |-> <<>>, una |-> 0,
              rcv_nxt |-> 0]
    /\ peer = <<>> /\ sock = "none"
    /\ conns = 0 /\ accepted = 0 /\ read = 0 /\ trouble = {}

Receive == \E n \in 1 .. Mss : net_if_receive(n)
Resizes == \E mss \in 1 .. Mss : Announces(mss)
Arrives == \E n \in Segments : NewData(n)
Acknowledged == \E n \in {0} \cup Segments : Acked(Segment(n))
Closes == \E n \in {0} \cup Segments : PeerCloses(n)
Sends == \E n \in 1 .. OutMax + 1 : net_if_send(n)
Dies == \E error \in NetErrors : Ends(error)

Next ==
    \/ net_if_socket \/ net_if_connect \/ Sends \/ Receive \/ net_if_close
    \/ Connected \/ Resizes \/ Poll \/ Rexmit \/ Acknowledged \/ Arrives \/ Closes \/ Dies
    \/ PeerReceives

Spec == Init /\ [][Next]_vars

\* The machine goes on receiving, uip_mainloop goes on polling, the network and the peer deliver,
\* and the stack gives up a connection that is being closed.
Fairness ==
    /\ WF_vars(Receive) /\ WF_vars(Poll) /\ WF_vars(Acknowledged) /\ WF_vars(Arrives)
    /\ WF_vars(PeerReceives) /\ WF_vars(Ends("CLOSED"))

FairSpec == Spec /\ Fairness

-----------------------------------------------------------------------------
\* The variables of the slot, of the stack and of the caller have their types.
TypeOK ==
    /\ build \in Builds
    /\ pstate \in [inuse : BOOLEAN, connect_started : BOOLEAN, connected : BOOLEAN, state : States,
                   res : Codes, ring : Cbuffer, inbuf : Seq(Byte), outbuf : Seq(1 .. MaxOut)]
    /\ tcp \in [flags : Flags, stopped : BOOLEAN, mss : 1 .. Mss, len : Seq(0 .. MaxOut), una : Nat,
                rcv_nxt : 0 .. MaxIn]
    /\ peer \in Seq(0 .. MaxOut)
    /\ sock \in {"none", "open", "connected"}
    /\ conns \in 0 .. MaxConns
    /\ accepted \in 0 .. MaxOut
    /\ read \in 0 .. MaxIn
    /\ trouble \subseteq Troubles

\* net_if_send, and the acknowledgements in uip_appcall, which goes by uip_mss() of the moment: as long
\* as a connection lives, outbuf is the last of what was accepted and the outstanding segment its
\* front (or a byte nobody put there), all the peer acknowledged it has, and no close that an earlier
\* connection of the slot asked for is left.  Unless the peer changed its window under a segment, it
\* receives the accepted bytes in order and once, and outbuf has exactly the others.
OutStream ==
    /\ Established =>
        /\ pstate.outbuf = From(accepted - Len(pstate.outbuf), Len(pstate.outbuf))
        /\ Len(tcp.len) <= Len(pstate.outbuf)
        /\ \A i \in 1 .. Len(tcp.len) : tcp.len[i] \in {pstate.outbuf[i], Stale}
        /\ tcp.una <= Len(peer)
        /\ sock = "connected" /\ accepted > 0 => pstate.state # "CLOSE"
    /\ "resized" \notin trouble =>
        /\ peer = From(0, Len(peer)) /\ Len(peer) <= accepted
        /\ Established => accepted - Len(pstate.outbuf) = tcp.una

\* uip_net_send and uip_appcall keep the only copy of a segment in outbuf: until it is acknowledged,
\* what uip_rexmit makes the application send has the same length and the same bytes, never others nor
\* what was accepted since; only when the peer changed its window meanwhile, bytes beyond uip_mss()
\* may be missing, until they are sent again.
SentAgain ==
    [][Established /\ Established' /\ tcp.len # <<>> /\ tcp'.una = tcp.una =>
        /\ Len(tcp'.len) = Len(tcp.len)
        /\ \A i \in 1 .. Len(tcp.len) :
              \/ tcp'.len[i] = tcp.len[i] \/ tcp.len[i] = Stale
              \/ tcp'.len[i] = Stale /\ i > tcp.mss
        /\ "resized" \notin trouble => tcp'.len = tcp.len]_vars

\* Receiving (uip_appcall, the buffers, net_recv_internal): no byte is skipped, and none that the
\* stack has acknowledged to the peer is lost while the connection lives (a segment may come twice),
\* until a segment fills the ring, which then reads as empty.  It takes a segment as long as
\* UIP_RECEIVE_WINDOW to do that.
InStream ==
    /\ "filled" \in trouble => Mss = Window
    /\ "filled" \notin trouble =>
        /\ \A i \in DOMAIN Buffered :
               Buffered[i] <= 1 + Max({read} \cup {Buffered[j] : j \in 1 .. i - 1})
        /\ Established /\ sock # "none"
               => tcp.rcv_nxt <= Max({read} \cup {Buffered[i] : i \in DOMAIN Buffered})

\* Stopping and restarting never leave a receiver waiting: whoever goes on receiving gets the whole
\* stream of the peer, or is told that the connection failed, unless it closes the socket first or a
\* segment filled the ring.
Delivered ==
    sock = "connected" ~>
        \/ read = MaxIn \/ net_if_receive_error = "FAILURE" \/ sock # "connected"
        \/ "filled" \in trouble

=============================================================================
