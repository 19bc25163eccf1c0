------------------------------ MODULE PcSmPort ------------------------------
(***************************************************************************)
(* Theorems about what a machine of PcSm holds: at most one request is in  *)
(* flight over HTTP, none is lost there, a clear leaves nothing behind,    *)
(* and the machines implement RequestPort.                                 *)
(***************************************************************************)
EXTENDS PcSmOwnership

-----------------------------------------------------------------------------
(***************************************************************************)
(* The parts of the invariant about one machine.                           *)
(***************************************************************************)

\* One request in flight, which sent_num counts.  While transfers are aborted the count
\* may be too low, because a request that was only queued is subtracted as well; it is
\* zero again when the sent list is empty, hence when the abort ends.
Limited(s) ==
    Limit = 1 =>
        /\ Len(s.sent) <= 1
        /\ s.active # NULL => s.sent = <<>>
        /\ s.sent_num <= Len(s.sent)
        /\ ~s.abort => s.sent_num = Len(s.sent)

\* Without a socket the server has nothing to answer, and it answers only requests
\* that the machine was given.
WireOK(s) ==
    /\ ~s.socket => s.wire = <<>>
    /\ ToSet(s.wire) \subseteq s.issued

LEMMA NothingOnWire ==
    ASSUME NEW s, s.wire = <<>>
    PROVE  WireOK(s)
BY DEF WireOK, ToSet

\* What is sent was handed over, and a response takes its request off the wire.
LEMMA SendWire ==
    ASSUME NEW s, SmOK(s), Owns(s), ToSet(s.wire) \subseteq s.issued, NEW net
    PROVE  LET t == st_send_request(s, net) IN ToSet(t.wire) \subseteq t.issued
<1> DEFINE t == st_send_request(s, net)
<1> SUFFICES ToSet(t.wire) \subseteq t.issued
  OBVIOUS
<1>1. s.wire \in Seq(Req) /\ s.active \in Req \cup {NULL}
  BY DEF SmOK, SmType
<1>2. /\ t.issued = s.issued
      /\ t.wire = s.wire \/ (s.active # NULL /\ t.wire = Append(s.wire, s.active))
  BY ZenonT(60) DEF st_send_request, SmOK, SmType
<1> HIDE DEF t
<1>3. CASE t.wire = s.wire
  BY <1>2, <1>3
<1>4. CASE s.active # NULL /\ t.wire = Append(s.wire, s.active)
  <2>1. s.active \in Req /\ s.active \in s.issued
    BY <1>1, <1>4 DEF Owns, Held
  <2>2. ToSet(t.wire) = ToSet(s.wire) \cup {s.active}
    BY <1>1, <1>4, <2>1, AppendElements
  <2> QED  BY <1>2, <2>1, <2>2
<1> QED  BY <1>2, <1>3, <1>4

LEMMA RecvWire ==
    ASSUME NEW s, SmOK(s), ToSet(s.wire) \subseteq s.issued, NEW net,
           net.recv = "ok" /\ ~Async => s.wire # <<>>
    PROVE  LET t == st_recv_response(s, net) IN ToSet(t.wire) \subseteq t.issued
<1> DEFINE t == st_recv_response(s, net)
<1> SUFFICES ToSet(t.wire) \subseteq t.issued
  OBVIOUS
<1>1. s.wire \in Seq(Req)
  BY DEF SmOK, SmType
<1>2. t.issued = s.issued /\ (t.wire = s.wire \/ (s.wire # <<>> /\ t.wire = Tail(s.wire)))
  BY ZenonT(60) DEF st_recv_response, SmOK, SmType
<1> HIDE DEF t
<1>3. s.wire # <<>> => ToSet(Tail(s.wire)) \subseteq ToSet(s.wire)
  BY <1>1, TailElements
<1> QED  BY <1>2, <1>3

\* A stage that neither takes a request over nor lets one go.
SameHeld(s, t) ==
    /\ Held(t) = Held(s)
    /\ t.issued = s.issued /\ t.freed = s.freed /\ t.abort = s.abort

LEMMA EmptyLength ==
    ASSUME NEW q \in Seq(Req)
    PROVE  Len(q) \in Nat /\ (Len(q) = 0 <=> q = <<>>)
BY EmptySeq

\* The elements of a list are its head and those of its tail.
LEMMA HeadTailElements ==
    ASSUME NEW q \in Seq(Req), q # <<>>
    PROVE  Head(q) \in Req /\ ToSet(q) = ToSet(Tail(q)) \cup {Head(q)}
<1>1. /\ Len(q) \in Nat /\ Len(q) >= 1
      /\ Head(q) = q[1]
      /\ Tail(q) \in Seq(Req)
      /\ Len(Tail(q)) = Len(q) - 1
      /\ \A i \in 1 .. Len(Tail(q)) : Tail(q)[i] = q[i + 1]
  BY HeadTailProperties, EmptySeq
<1>2. DOMAIN q = 1 .. Len(q) /\ DOMAIN Tail(q) = 1 .. Len(q) - 1
  BY <1>1
<1>3. Head(q) \in Req
  BY <1>1
<1>4. ASSUME NEW i \in 1 .. Len(q) PROVE q[i] \in ToSet(Tail(q)) \cup {Head(q)}
  <2>1. CASE i = 1
    BY <1>1, <2>1
  <2>2. CASE i # 1
    <3>1. i - 1 \in 1 .. Len(q) - 1 /\ Tail(q)[i - 1] = q[i]
      BY <1>1, <2>2
    <3> QED  BY <1>2, <3>1 DEF ToSet
  <2> QED  BY <2>1, <2>2
<1>5. ToSet(q) \subseteq ToSet(Tail(q)) \cup {Head(q)}
  BY <1>2, <1>4, Zenon DEF ToSet
<1> QED  BY <1>3, <1>5, TailElements

\* A request that is taken from the queue is the only one in flight.
LEMMA NewTransmitKeeps ==
    ASSUME NEW s, SmOK(s), Owns(s), Limited(s)
    PROVE  LET t == st_new_transmit(s) IN
           SameHeld(s, t) /\ Limited(t) /\ t.wire = s.wire /\ t.socket = s.socket
<1> DEFINE t == st_new_transmit(s)
           u == [s EXCEPT !.active = Head(s.queue), !.queue = Tail(s.queue)]
<1> SUFFICES SameHeld(s, t) /\ Limited(t) /\ t.wire = s.wire /\ t.socket = s.socket
  OBVIOUS
<1>1. /\ s.queue \in Seq(Req) /\ s.sent \in Seq(Req) /\ s.sent_num \in Int /\ s.sent_num >= 0
  BY DEF SmOK, SmType
<1>2. /\ u.queue = Tail(s.queue) /\ u.active = Head(s.queue) /\ u.sent = s.sent
      /\ u.issued = s.issued /\ u.freed = s.freed /\ u.abort = s.abort
      /\ u.sent_num = s.sent_num /\ u.wire = s.wire /\ u.socket = s.socket
  BY ZenonT(30) DEF SmOK, SmType
<1>3. \/ t = s
      \/ t = u /\ s.queue # <<>> /\ s.active = NULL /\ ~s.abort /\ (Limit = 0 \/ Limit > s.sent_num)
  BY ZenonT(30) DEF st_new_transmit
<1> HIDE DEF t, u
<1>4. CASE t = s
  BY <1>4 DEF SameHeld
<1>5. CASE t = u /\ s.queue # <<>> /\ s.active = NULL /\ ~s.abort /\ (Limit = 0 \/ Limit > s.sent_num)
  <2>1. Limited(u)
    BY <1>1, <1>2, <1>5, EmptyLength DEF Limited
  <2>2. ToSet(s.queue) = ToSet(Tail(s.queue)) \cup {Head(s.queue)} /\ Head(s.queue) \in Req
    BY <1>1, <1>5, HeadTailElements
  <2>3. Head(s.queue) # NULL
    BY <2>2, ConstantsAssumption
  <2>4. Held(u) = Held(s)
    BY <1>2, <1>5, <2>2, <2>3 DEF Held
  <2> QED  BY <1>2, <1>5, <2>1, <2>4 DEF SameHeld
<1> QED  BY <1>3, <1>4, <1>5

\* The connect stage touches the connection alone.
LEMMA ConnectKeeps ==
    ASSUME NEW s, SmOK(s), SocketOK(s), Limited(s), NEW m, NEW net
    PROVE  LET c == st_connect(m, s, net) IN
           /\ SameHeld(s, c.sm) /\ Limited(c.sm) /\ c.sm.wire = s.wire
           /\ s.socket => c.sm.socket
           /\ c.next = "SM_TRANSMIT" => c.sm.socket
<1> DEFINE c == st_connect(m, s, net)
<1> SUFFICES /\ SameHeld(s, c.sm) /\ Limited(c.sm) /\ c.sm.wire = s.wire
             /\ s.socket => c.sm.socket
             /\ c.next = "SM_TRANSMIT" => c.sm.socket
  OBVIOUS
<1>1. ConnectWays(m, s, c)
  BY ConnectCases
<1>2. SameRequests(s, c.sm)
  BY ConnectSame
<1> HIDE DEF c
<1>3. 1 \in Int
  OBVIOUS
<1>4. /\ Opened(s) \in SmType /\ Opened(s).socket = TRUE
      /\ Opened(s).sent_num = s.sent_num /\ Opened(s).abort = s.abort /\ Opened(s).wire = s.wire
  BY <1>3, ZenonT(30) DEF SmOK, SmType, Opened
<1>5. /\ Connected(s).socket = Opened(s).socket /\ Connected(s).sent_num = Opened(s).sent_num
      /\ Connected(s).abort = Opened(s).abort /\ Connected(s).wire = Opened(s).wire
  BY <1>4, ZenonT(30) DEF SmType, Connected
<1>6. /\ c.sm.sent_num = s.sent_num /\ c.sm.abort = s.abort /\ c.sm.wire = s.wire
      /\ c.sm.socket = s.socket \/ c.sm.socket = TRUE
      /\ c.next = "SM_TRANSMIT" => s.connected \/ c.sm.socket
  BY <1>1, <1>4, <1>5 DEF ConnectWays
<1>7. c.sm = s \/ c.sm.socket
  BY <1>1, <1>4, <1>5 DEF ConnectWays
<1> QED  BY <1>2, <1>6, <1>7 DEF SameRequests, SameHeld, Held, Limited, SocketOK

\* A request that was sent is counted.
LEMMA SendKeeps ==
    ASSUME NEW s, SmOK(s), Owns(s), Limited(s), NEW net
    PROVE  LET t == st_send_request(s, net) IN
           SameHeld(s, t) /\ Limited(t)
<1> DEFINE t == st_send_request(s, net)
<1> SUFFICES SameHeld(s, t) /\ Limited(t)
  OBVIOUS
<1>1. /\ s.sent \in Seq(Req) /\ s.sent_num \in Int /\ s.active \in Req \cup {NULL}
      /\ NULL \in Req \cup {NULL}
  BY DEF SmOK, SmType
<1>2. /\ t.queue = s.queue /\ t.issued = s.issued /\ t.freed = s.freed /\ t.abort = s.abort
      /\ \/ t.active = s.active /\ t.sent = s.sent /\ t.sent_num = s.sent_num
         \/ /\ s.active # NULL /\ t.active = NULL
            /\ t.sent = <<s.active>> \o s.sent /\ t.sent_num = s.sent_num + 1
  BY <1>1, ZenonT(60) DEF st_send_request, SmOK, SmType
<1> HIDE DEF t
<1>3. CASE t.active = s.active /\ t.sent = s.sent /\ t.sent_num = s.sent_num
  BY <1>2, <1>3 DEF SameHeld, Held, Limited
<1>4. CASE /\ s.active # NULL /\ t.active = NULL
           /\ t.sent = <<s.active>> \o s.sent /\ t.sent_num = s.sent_num + 1
  <2>1. s.active \in Req
    BY <1>1, <1>4
  <2>2. ToSet(t.sent) = ToSet(s.sent) \cup {s.active}
    BY <1>1, <1>4, <2>1, PrependElements
  <2>3. Held(t) = Held(s)
    BY <1>2, <1>4, <2>2 DEF Held
  <2>4. <<s.active>> \in Seq(Req) /\ Len(<<s.active>>) = 1
    BY <2>1
  <2>5. Len(t.sent) = Len(s.sent) + 1
    BY <1>1, <1>4, <2>4, ConcatProperties
  <2>6. Limited(t)
    BY <1>1, <1>2, <1>4, <2>5, EmptyLength DEF Limited
  <2> QED  BY <1>2, <2>3, <2>6 DEF SameHeld
<1> QED  BY <1>2, <1>3, <1>4

LEMMA RecvKeeps ==
    ASSUME NEW s, SmOK(s), Limited(s), NEW net
    PROVE  LET t == st_recv_response(s, net) IN
           SameHeld(s, t) /\ Limited(t)
<1> DEFINE t == st_recv_response(s, net)
<1> SUFFICES SameHeld(s, t) /\ Limited(t)
  OBVIOUS
<1>1. SameRequests(s, t)
  BY RecvSame
<1>2. t.sent_num = s.sent_num /\ t.abort = s.abort
  BY ZenonT(60) DEF st_recv_response, SmOK, SmType
<1> HIDE DEF t
<1> QED  BY <1>1, <1>2 DEF SameRequests, SameHeld, Held, Limited

\* The stages up to the reception of a response.
LEMMA ExchangeKeeps ==
    ASSUME TypeOK, NEW m \in SM, Owns(sm[m]), SocketOK(sm[m]), Limited(sm[m]),
           NEW net \in Net(sm[m])
    PROVE  LET c == Exchange(m, sm[m], net) IN
           /\ SameHeld(sm[m], c.sm) /\ Limited(c.sm)
           /\ WireOK(sm[m]) => WireOK(c.sm)
<1> DEFINE s == st_new_transmit(sm[m])
           c == st_connect(m, s, net)
           d == st_send_request(c.sm, net)
           e == st_recv_response(d, net)
           f == [c EXCEPT !.sm = e]
<1>1. SmOK(sm[m]) /\ connecting_sm \in SM \cup {NULL} /\ start_time \in StartType
  BY TypeOKBySm
<1>2. SmOK(s) /\ Owns(s) /\ Linked(sm[m], s)
  BY <1>1, NewTransmitType, NewTransmitOwns, NewTransmitLink DEF Completes
<1>3. SameHeld(sm[m], s) /\ Limited(s) /\ s.wire = sm[m].wire /\ s.socket = sm[m].socket
  BY <1>1, NewTransmitKeeps
<1>4. Exchange(m, sm[m], net) = IF c.next = "SM_TRANSMIT" THEN f ELSE c
  BY ZenonT(30) DEF Exchange
<1> HIDE DEF s
<1>5. SocketOK(s)
  BY <1>2 DEF Linked, SocketOK
<1>6. ConnectOK(c) /\ SameRequests(s, c.sm)
  BY <1>1, <1>2, ConnectType, ConnectSame
<1>7. /\ SameHeld(s, c.sm) /\ Limited(c.sm) /\ c.sm.wire = s.wire
      /\ s.socket => c.sm.socket
      /\ c.next = "SM_TRANSMIT" => c.sm.socket
  BY <1>2, <1>3, <1>5, ConnectKeeps
<1>8. c = [sm |-> c.sm, next |-> c.next, token |-> c.token, start |-> c.start]
  BY ZenonT(30) DEF st_connect
<1> HIDE DEF c
<1>9. SmOK(c.sm) /\ Owns(c.sm)
  BY <1>2, <1>6, SameCompletes DEF ConnectOK, Completes
<1>10. /\ SmOK(d) /\ SameHeld(c.sm, d) /\ Limited(d) /\ Linked(c.sm, d)
       /\ c.sm.wire # <<>> => d.wire # <<>>
  BY <1>7, <1>9, SendType, SendKeeps, SendLink
<1> HIDE DEF d
<1>11. SameHeld(d, e) /\ Limited(e) /\ Linked(d, e)
  BY <1>10, RecvKeeps, RecvLink
<1> HIDE DEF e
<1>12. f.sm = e
  BY <1>8, ZenonT(30)
<1> HIDE DEF f
<1>13. CASE c.next = "SM_TRANSMIT"
  <2>1. SameHeld(sm[m], e)
    BY <1>3, <1>7, <1>10, <1>11 DEF SameHeld
  <2>2. ASSUME WireOK(sm[m]) PROVE WireOK(e)
    <3>1. ToSet(c.sm.wire) \subseteq c.sm.issued
      BY <1>3, <1>7, <2>2 DEF WireOK, SameHeld
    <3>2. ToSet(d.wire) \subseteq d.issued
      BY <1>9, <3>1, SendWire DEF d
    <3>3. net.recv = "ok" /\ ~Async => d.wire # <<>>
      BY <1>1, <1>3, <1>7, <1>10, NetType
    <3>4. ToSet(e.wire) \subseteq e.issued
      BY <1>10, <3>2, <3>3, RecvWire DEF e
    <3> QED  BY <1>7, <1>10, <1>11, <1>13, <3>4 DEF WireOK, Linked
  <2> QED  BY <1>4, <1>11, <1>12, <1>13, <2>1, <2>2
<1>14. CASE c.next # "SM_TRANSMIT"
  <2>1. SameHeld(sm[m], c.sm)
    BY <1>3, <1>7 DEF SameHeld
  <2>2. WireOK(sm[m]) => WireOK(c.sm)
    BY <1>3, <1>7 DEF WireOK, SameHeld
  <2> QED  BY <1>4, <1>7, <1>14, <2>1, <2>2
<1> QED  BY <1>13, <1>14

\* A completion lets the request go, unless it is a subscription that stays.  The
\* count follows the sent list because a limited machine completes what it sent.
LEMMA CompleteLeaves ==
    ASSUME NEW s, SmOK(s), Owns(s), Limited(s), NEW r \in Req,
           r \notin ToSet(s.queue), r # s.active,
           Limit = 1 => s.abort \/ s.sent = <<>> \/ r \in ToSet(s.sent)
    PROVE  LET t == st_transmit_complete(s, r) IN
           /\ Limited(t) /\ t.abort = s.abort /\ t.issued = s.issued
           /\ \/ Held(t) = Held(s) \ {r} /\ t.freed = s.freed \cup {r}
              \/ t = s /\ Async /\ r \in Observe /\ ~s.abort
<1> DEFINE t == st_transmit_complete(s, r)
           n == IF s.sent_num # 0 THEN s.sent_num - 1 ELSE 0
           u == [s EXCEPT !.sent = RemoveFirst(s.sent, r), !.freed = s.freed \cup {r},
                          !.late = s.late \ {r}, !.sent_num = n]
<1> SUFFICES /\ Limited(t) /\ t.abort = s.abort /\ t.issued = s.issued
             /\ \/ Held(t) = Held(s) \ {r} /\ t.freed = s.freed \cup {r}
                \/ t = s /\ Async /\ r \in Observe /\ ~s.abort
  OBVIOUS
<1>1. /\ s.sent \in Seq(Req) /\ s.sent_num \in Int /\ s.sent_num >= 0
      /\ n \in Int /\ n >= 0 /\ n <= s.sent_num /\ (s.sent_num <= 1 => n = 0)
  BY DEF SmOK, SmType
<1>2. t = u \/ (t = s /\ Async /\ r \in Observe /\ ~s.abort)
  BY ZenonT(30) DEF st_transmit_complete
<1>3. /\ u.queue = s.queue /\ u.active = s.active /\ u.abort = s.abort /\ u.issued = s.issued
      /\ u.sent = RemoveFirst(s.sent, r) /\ u.freed = s.freed \cup {r} /\ u.sent_num = n
  BY ZenonT(30) DEF SmOK, SmType
<1> HIDE DEF t, u, n
<1>4. ToSet(u.sent) = ToSet(s.sent) \ {r} /\ u.sent \in Seq(Req)
  BY <1>1, <1>3, RemoveElements, RemoveFirstProperties DEF Owns
<1>5. Held(u) = Held(s) \ {r}
  BY <1>3, <1>4 DEF Held
<1>6. Limited(u)
  <2> SUFFICES ASSUME Limit = 1
               PROVE  /\ Len(u.sent) <= 1
                      /\ u.active # NULL => u.sent = <<>>
                      /\ u.sent_num <= Len(u.sent)
                      /\ ~u.abort => u.sent_num = Len(u.sent)
    BY DEF Limited
  <2>1. DOMAIN s.sent = 1 .. Len(s.sent) /\ Len(s.sent) \in Nat /\ Len(s.sent) <= 1
        /\ s.sent_num <= Len(s.sent)
    BY <1>1 DEF Limited
  <2>2. CASE r \in ToSet(s.sent)
    <3>1. Len(u.sent) = Len(s.sent) - 1 /\ Len(s.sent) = 1
      <4>1. \E i \in 1 .. Len(s.sent) : s.sent[i] = r
        BY <2>1, <2>2 DEF ToSet
      <4>2. \E k \in 1 .. Len(s.sent) : Len(u.sent) = Len(s.sent) - 1
        BY <1>1, <1>3, <4>1, RemoveFirstProperties
      <4>3. Len(u.sent) = Len(s.sent) - 1
        BY <4>2
      <4>4. Len(s.sent) >= 1
        <5>1. PICK i \in 1 .. Len(s.sent) : s.sent[i] = r
          BY <4>1
        <5>2. i \in Int /\ 1 <= i /\ i <= Len(s.sent)
          BY <2>1, <5>1
        <5> QED  BY <2>1, <5>2
      <4>5. Len(s.sent) \in Nat /\ Len(s.sent) <= 1
        BY <2>1
      <4>6. Len(s.sent) = 1
        <5> DEFINE l == Len(s.sent)
        <5>1. l \in Nat /\ l <= 1 /\ l >= 1
          BY <4>4, <4>5
        <5> HIDE DEF l
        <5>2. l = 1
          BY <5>1
        <5> QED  BY <5>2 DEF l
      <4> QED  BY <4>3, <4>6
    <3>2. u.sent = <<>> /\ Len(u.sent) = 0
      <4>1. Len(u.sent) = 0
        BY <3>1
      <4> QED  BY <1>4, <4>1, EmptyLength
    <3>3. n = 0
      BY <1>1, <2>1
    <3> QED  BY <1>3, <3>2, <3>3
  <2>3. CASE r \notin ToSet(s.sent)
    <3>1. u.sent = s.sent
      <4>1. ~ (\E i \in 1 .. Len(s.sent) : s.sent[i] = r)
        BY <2>1, <2>3 DEF ToSet
      <4> QED  BY <1>1, <1>3, <4>1, RemoveFirstProperties
    <3>2. CASE s.abort
      BY <1>1, <1>3, <2>1, <3>1, <3>2 DEF Limited
    <3>3. CASE s.sent = <<>>
      BY <1>1, <1>3, <2>1, <3>1, <3>3, EmptyLength DEF Limited
    <3> QED  BY <2>3, <3>2, <3>3
  <2> QED  BY <2>2, <2>3
<1> QED  BY <1>2, <1>3, <1>5, <1>6

LEMMA AfterPairingLeaves ==
    ASSUME NEW s, SmOK(s), Owns(s), Limited(s), NEW r \in Req \cup {NULL},
           r = NULL \/ r \in ToSet(s.sent)
    PROVE  LET t == AfterPairing(s, r) IN
           /\ Limited(t) /\ t.abort = s.abort /\ t.issued = s.issued
           /\ r = NULL => t = s
           /\ r # NULL =>
                /\ r \in Held(s)
                /\ \/ Held(t) = Held(s) \ {r} /\ t.freed = s.freed \cup {r}
                   \/ t = s /\ Async /\ r \in Observe /\ ~s.abort
<1>1. CASE r = NULL
  BY <1>1 DEF AfterPairing
<1>2. CASE r # NULL
  <2>1. r \in Req /\ r \in ToSet(s.sent) /\ r \notin ToSet(s.queue) /\ r # s.active
    BY <1>2 DEF Owns
  <2>2. AfterPairing(s, r) = st_transmit_complete(s, r)
    BY <1>2 DEF AfterPairing
  <2>3. r \in Held(s)
    BY <2>1 DEF Held
  <2> QED  BY <1>2, <2>1, <2>2, <2>3, CompleteLeaves
<1> QED  BY <1>1, <1>2

\* The first request FirstOf finds lies in the set.
LEMMA FirstOfIn ==
    ASSUME NEW q \in Seq(Req), NEW S
    PROVE  FirstOf(q, S) = NULL \/ FirstOf(q, S) \in S
BY FirstOfProperties

\* What check_timeout picks is active or was sent; a subscription of an asynchronous
\* machine that was sent is exempt.
LEMMA CheckTimeoutPicks ==
    ASSUME NEW s, SmOK(s)
    PROVE  LET r == check_timeout(s) IN
           \/ r = NULL
           \/ r \in ToSet(s.sent) /\ (Async => r \notin Observe)
           \/ r = s.active
<1>1. s.sent \in Seq(Req)
  BY DEF SmOK, SmType
<1>2. Async => \A r \in TimesOut(s) : r \notin Observe
  BY DEF TimesOut
<1> QED  BY <1>1, <1>2, FirstOfMember, FirstOfIn DEF check_timeout

\* A timeout lets the request go, and forgets the active one: over HTTP there is none
\* besides.
LEMMA AfterTimeoutLeaves ==
    ASSUME NEW s, SmOK(s), Owns(s), Limited(s)
    PROVE  LET r == check_timeout(s)
               t == AfterTimeout(s, r)
           IN  /\ Limited(t) /\ t.abort = s.abort /\ t.issued = s.issued
               /\ r = NULL => t = s
               /\ r # NULL =>
                    /\ r \in Held(s)
                    /\ Held(t) \in Port!LeftBy(Held(s), r, Async)
                    /\ ~Async => Held(t) = Held(s) \ {r} /\ t.freed = s.freed \cup {r}
                    /\ r \in t.freed \/ (Async /\ r \in Observe /\ ~s.abort)
<1> DEFINE r == check_timeout(s)
           t == AfterTimeout(s, r)
           u == [s EXCEPT !.active = NULL, !.timeouts = @ + 1]
<1> SUFFICES /\ Limited(t) /\ t.abort = s.abort /\ t.issued = s.issued
             /\ r = NULL => t = s
             /\ r # NULL =>
                  /\ r \in Held(s)
                  /\ Held(t) \in Port!LeftBy(Held(s), r, Async)
                  /\ ~Async => Held(t) = Held(s) \ {r} /\ t.freed = s.freed \cup {r}
                  /\ r \in t.freed \/ (Async /\ r \in Observe /\ ~s.abort)
  OBVIOUS
<1>1. /\ s.timeouts + 1 \in Int /\ NULL \in Req \cup {NULL}
      /\ s.queue \in Seq(Req) /\ s.sent \in Seq(Req)
  BY DEF SmOK, SmType
<1>2. \/ r = NULL
      \/ r \in ToSet(s.sent) /\ (Async => r \notin Observe)
      \/ r = s.active
  BY CheckTimeoutPicks
<1>3. r \in Req \cup {NULL}
  BY CheckTimeoutType
<1>4. t = IF r = NULL THEN s ELSE st_transmit_complete(u, r)
  BY ZenonT(30) DEF AfterTimeout
<1> HIDE DEF r, t
<1>5. /\ u \in SmType /\ u.sent_num = s.sent_num /\ u.state = s.state /\ u.abort = s.abort
      /\ u.queue = s.queue /\ u.active = NULL /\ u.sent = s.sent
      /\ u.issued = s.issued /\ u.freed = s.freed
  BY <1>1, ZenonT(30) DEF SmOK, SmType
<1> HIDE DEF u
<1>6. CASE r = NULL
  BY <1>4, <1>6
<1>7. CASE r # NULL
  <2>1. ToSet(s.queue) \subseteq Req /\ ToSet(s.sent) \subseteq Req
    BY <1>1 DEF ToSet
  <2>2. SmOK(u) /\ Owns(u)
    BY <1>5, <2>1, ConstantsAssumption DEF SmOK, Owns, Held
  <2>3. Limited(u)
    BY <1>5 DEF Limited
  <2>4. r \in Req /\ r \notin ToSet(u.queue) /\ r # u.active
    BY <1>2, <1>3, <1>5, <1>7 DEF Owns
  <2>5. Limit = 1 => u.sent = <<>> \/ r \in ToSet(u.sent)
    BY <1>2, <1>5, <1>7 DEF Limited
  <2>6. /\ Limited(t) /\ t.abort = u.abort /\ t.issued = u.issued
        /\ \/ Held(t) = Held(u) \ {r} /\ t.freed = u.freed \cup {r}
           \/ t = u /\ Async /\ r \in Observe /\ ~u.abort
    BY <1>4, <1>7, <2>2, <2>3, <2>4, <2>5, CompleteLeaves
  <2>7. r \in Held(s)
    BY <1>2, <1>7 DEF Held
  <2>8. Held(u) = Held(s) \ {s.active}
    BY <1>5, <2>1, ConstantsAssumption DEF Held, Owns
  <2>9. Held(t) = Held(s) \ {r, s.active}
    <3>1. t = u /\ Async /\ r \in Observe => r = s.active
      BY <1>2, <1>7
    <3> QED  BY <2>6, <2>8, <3>1
  <2>10. ~Async => s.active = NULL \/ s.active = r
    <3> SUFFICES ASSUME ~Async, r # s.active PROVE s.active = NULL
      OBVIOUS
    <3>1. Limit = 1 /\ r \in ToSet(s.sent)
      BY <1>2, <1>7, ConstantsAssumption
    <3>2. s.sent # <<>>
      BY <3>1 DEF ToSet
    <3> QED  BY <3>1, <3>2 DEF Limited
  <2>11. NULL \notin Held(s) /\ (s.active # NULL => s.active \in Held(s))
    BY <2>1, ConstantsAssumption DEF Held
  <2>12. Held(t) \in Port!LeftBy(Held(s), r, Async)
    <3>1. CASE s.active = NULL \/ s.active = r
      <4>1. Held(t) = Held(s) \ {r}
        BY <2>9, <2>11, <3>1
      <4> QED  BY <4>1 DEF Port!LeftBy
    <3>2. CASE s.active # NULL /\ s.active # r
      BY <2>9, <2>10, <2>11, <3>2 DEF Port!LeftBy
    <3> QED  BY <3>1, <3>2
  <2>13. ~Async => Held(t) = Held(s) \ {r} /\ t.freed = s.freed \cup {r}
    BY <1>5, <2>6, <2>9, <2>10, <2>11
  <2>14. r \in t.freed \/ (Async /\ r \in Observe /\ ~s.abort)
    BY <1>5, <2>6
  <2> QED  BY <1>5, <1>7, <2>6, <2>7, <2>12, <2>13, <2>14
<1> QED  BY <1>6, <1>7

\* An abort lets a request go that it held, and forgets the active one; it is over
\* only when nothing is held.
LEMMA AfterAbortLeaves ==
    ASSUME NEW s, SmOK(s), Owns(s), Limited(s)
    PROVE  LET r == abort_transfers(s)
               t == AfterAbort(s, r)
           IN  /\ Limited(t) /\ t.issued = s.issued
               /\ r = NULL => SameRequests(s, t) /\ ~t.abort /\ (s.abort => Empty(s))
               /\ r # NULL =>
                    /\ s.abort /\ t.abort
                    /\ r \in Held(s) /\ r \in t.freed
                    /\ Held(t) \in Port!LeftBy(Held(s), r, TRUE)
<1> DEFINE r == abort_transfers(s)
           t == AfterAbort(s, r)
           u == [s EXCEPT !.active = NULL, !.queue = IF @ = <<>> THEN @ ELSE Tail(@)]
           v == [s EXCEPT !.abort = FALSE]
<1> SUFFICES /\ Limited(t) /\ t.issued = s.issued
             /\ r = NULL => SameRequests(s, t) /\ ~t.abort /\ (s.abort => Empty(s))
             /\ r # NULL =>
                  /\ s.abort /\ t.abort
                  /\ r \in Held(s) /\ r \in t.freed
                  /\ Held(t) \in Port!LeftBy(Held(s), r, TRUE)
  OBVIOUS
<1>1. /\ s.queue \in Seq(Req) /\ s.sent \in Seq(Req) /\ NULL \in Req \cup {NULL}
      /\ s.queue # <<>> => Tail(s.queue) \in Seq(Req)
      /\ s.sent_num \in Int /\ s.sent_num >= 0
  BY HeadTailProperties DEF SmOK, SmType
<1>2. \/ r = NULL
      \/ s.queue # <<>> /\ r = Head(s.queue)
      \/ s.queue = <<>> /\ s.sent # <<>> /\ r = Head(s.sent)
      \/ s.queue = <<>> /\ s.sent = <<>> /\ r = s.active
  BY DEF abort_transfers
<1>3. r \in Req \cup {NULL} /\ (r # NULL => s.abort)
  BY AbortTransfersType DEF abort_transfers
<1>4. t = IF r = NULL THEN v ELSE st_transmit_complete(u, r)
  BY ZenonT(30) DEF AfterAbort
<1>5. /\ s.queue # <<>> => Head(s.queue) \in Req
      /\ s.sent # <<>> => Head(s.sent) \in Req
  BY <1>1, HeadTailElements
<1>6. r = NULL => (s.abort => Empty(s))
  BY <1>5, ConstantsAssumption DEF abort_transfers, Empty
<1> HIDE DEF r, t
<1>7. /\ u \in SmType /\ u.sent_num = s.sent_num /\ u.state = s.state /\ u.abort = s.abort
      /\ u.queue = IF s.queue = <<>> THEN <<>> ELSE Tail(s.queue)
      /\ u.active = NULL /\ u.sent = s.sent
      /\ u.issued = s.issued /\ u.freed = s.freed
  BY <1>1, ZenonT(30) DEF SmOK, SmType
<1>8. SameRequests(s, v) /\ v.sent_num = s.sent_num /\ v.abort = FALSE
  BY ZenonT(30) DEF SmOK, SmType, SameRequests
<1> HIDE DEF u, v
<1>9. CASE r = NULL
  <2>1. s.abort => Len(s.sent) = 0
    BY <1>1, <1>6, <1>9, EmptyLength DEF Empty
  <2>2. Limited(v)
    BY <1>1, <1>8, <2>1, EmptyLength DEF Limited, SameRequests
  <2> QED  BY <1>4, <1>6, <1>8, <1>9, <2>2 DEF SameRequests
<1>10. CASE r # NULL
  <2>1. ToSet(s.queue) \subseteq Req /\ ToSet(s.sent) \subseteq Req
    BY <1>1 DEF ToSet
  <2>2. s.queue # <<>> =>
           /\ ToSet(s.queue) = ToSet(Tail(s.queue)) \cup {Head(s.queue)}
           /\ Distinct(Tail(s.queue)) /\ Head(s.queue) \notin ToSet(Tail(s.queue))
    BY <1>1, HeadTailElements, TailElements DEF Owns
  <2>3. s.sent # <<>> => Head(s.sent) \in ToSet(s.sent)
    BY <1>1, TailElements
  <2>4. /\ Distinct(u.queue)
        /\ s.queue # <<>> => ToSet(s.queue) = ToSet(u.queue) \cup {r} /\ r \notin ToSet(u.queue)
        /\ s.queue = <<>> => u.queue = <<>> /\ ToSet(u.queue) = {}
    <3>1. CASE s.queue = <<>>
      <4>1. Distinct(<<>>) /\ ToSet(<<>>) = {}
        BY DEF Distinct, ToSet
      <4> QED  BY <1>7, <3>1, <4>1
    <3>2. CASE s.queue # <<>>
      BY <1>2, <1>7, <1>10, <2>2, <3>2
    <3> QED  BY <3>1, <3>2
  <2>5. ToSet(u.queue) \subseteq ToSet(s.queue)
    BY <2>4
  <2>6. SmOK(u) /\ Owns(u)
    BY <1>7, <2>1, <2>4, <2>5, ConstantsAssumption DEF SmOK, Owns, Held
  <2>7. Limited(u)
    BY <1>7 DEF Limited
  <2>8. r \in Req /\ r \notin ToSet(u.queue) /\ r # u.active /\ u.abort
    BY <1>3, <1>7, <1>10, <2>4
  <2>9. /\ Limited(t) /\ t.abort = u.abort /\ t.issued = u.issued
        /\ Held(t) = Held(u) \ {r} /\ r \in t.freed
    <3>1. t = st_transmit_complete(u, r)
      BY <1>4, <1>10
    <3>2. Limit = 1 => u.abort \/ u.sent = <<>> \/ r \in ToSet(u.sent)
      BY <2>8
    <3>3. /\ Limited(t) /\ t.abort = u.abort /\ t.issued = u.issued
          /\ \/ Held(t) = Held(u) \ {r} /\ t.freed = u.freed \cup {r}
             \/ t = u /\ Async /\ r \in Observe /\ ~u.abort
      BY <2>6, <2>7, <2>8, <3>1, <3>2, CompleteLeaves
    <3>4. r \in {r}
      OBVIOUS
    <3> QED  BY <2>8, <3>3, <3>4
  <2>10. r \in Held(s)
    BY <1>2, <1>10, <2>3, <2>4 DEF Held
  <2>11. Held(t) = Held(s) \ {r, s.active}
    <3>1. ToSet(u.queue) \ {r} = ToSet(s.queue) \ {r}
      BY <2>4 DEF ToSet
    <3>2. s.active \notin ToSet(s.queue) \cup ToSet(s.sent)
      BY DEF Owns
    <3> QED  BY <1>7, <2>9, <3>1, <3>2 DEF Held
  <2>12. NULL \notin Held(s) /\ (s.active # NULL => s.active \in Held(s))
    BY <2>1, ConstantsAssumption DEF Held
  <2>13. Held(t) \in Port!LeftBy(Held(s), r, TRUE)
    <3>1. CASE s.active = NULL
      <4>1. Held(t) = Held(s) \ {r}
        BY <2>11, <2>12, <3>1
      <4> QED  BY <4>1 DEF Port!LeftBy
    <3>2. CASE s.active # NULL
      BY <2>11, <2>12, <3>2 DEF Port!LeftBy
    <3> QED  BY <3>1, <3>2
  <2> QED  BY <1>3, <1>7, <1>10, <2>9, <2>10, <2>13
<1> QED  BY <1>9, <1>10

\* The end of a tick leaves the requests alone; after an abort it closes the socket.
LEMMA SettleKeeps ==
    ASSUME NEW s, SmOK(s), Limited(s), WireOK(s), NEW next \in SmState, NEW done \in BOOLEAN
    PROVE  LET t == CheckFailures(Settle(s, next, done)) IN
           /\ SameHeld(s, t) /\ SameRequests(s, t) /\ Limited(t) /\ WireOK(t)
           /\ done => ~t.socket
<1> DEFINE worn == s.timeouts > MaxTimeouts
           n == IF worn \/ done THEN "SM_RESET"
                ELSE IF next = "SM_CONNECT" THEN "SM_TRANSMIT" ELSE next
           k == IF worn THEN 0 ELSE s.timeouts
           u == [s EXCEPT !.timeouts = k, !.state = n]
           v == Settle(s, next, done)
           t == CheckFailures(v)
<1> SUFFICES /\ SameHeld(s, t) /\ SameRequests(s, t) /\ Limited(t) /\ WireOK(t)
             /\ done => ~t.socket
  OBVIOUS
<1>1. n \in SmState /\ (done => n = "SM_RESET")
  BY DEF SmState
<1>2. k \in Int
  BY DEF SmOK, SmType
<1>3. v = IF n = "SM_RESET" THEN close_socket(u) ELSE u
  BY ZenonT(30) DEF Settle
<1>4. SmOK(v) /\ SameRequests(s, v)
  BY SettleType, SettleSame
<1> HIDE DEF n, k, v
<1>5. /\ u \in SmType /\ u.sent_num = s.sent_num /\ u.abort = s.abort
      /\ u.wire = s.wire /\ u.socket = s.socket
  BY <1>1, <1>2, ZenonT(30) DEF SmOK, SmType
<1> HIDE DEF u
<1>6. /\ close_socket(u).sent_num = u.sent_num /\ close_socket(u).abort = u.abort
      /\ ~close_socket(u).socket /\ (close_socket(u).wire = <<>> \/ close_socket(u) = u)
  <2> DEFINE w == [u EXCEPT !.socket = FALSE, !.connected = FALSE, !.retry_cnt = 0, !.wire = <<>>]
  <2>1. close_socket(u) = IF u.socket THEN w ELSE u
    BY DEF close_socket
  <2>2. /\ w.sent_num = u.sent_num /\ w.abort = u.abort /\ w.socket = FALSE /\ w.wire = <<>>
    BY <1>5, ZenonT(30) DEF SmType
  <2> HIDE DEF w
  <2> QED  BY <2>1, <2>2
<1>7. v.sent_num = s.sent_num /\ v.abort = s.abort /\ WireOK(v) /\ (done => ~v.socket)
  <2>1. v.sent_num = s.sent_num /\ v.abort = s.abort /\ (done => ~v.socket)
    BY <1>1, <1>3, <1>5, <1>6
  <2>2. CASE v = u
    BY <1>4, <1>5, <2>1, <2>2 DEF WireOK, SameRequests
  <2>3. CASE v.wire = <<>>
    BY <2>1, <2>3, NothingOnWire
  <2> QED  BY <1>3, <1>6, <2>1, <2>2, <2>3
<1>8. /\ SameRequests(v, t)
      /\ t.sent_num = v.sent_num /\ t.abort = v.abort /\ t.wire = v.wire /\ t.socket = v.socket
  <2>1. SameRequests(v, t)
    BY <1>4, CheckFailuresSame
  <2>2. t.sent_num = v.sent_num /\ t.abort = v.abort /\ t.wire = v.wire /\ t.socket = v.socket
    BY <1>4, ZenonT(30) DEF CheckFailures, SmOK, SmType
  <2> QED  BY <2>1, <2>2
<1> HIDE DEF t
<1>9. SameRequests(s, t)
  BY <1>4, <1>8 DEF SameRequests
<1> QED  BY <1>7, <1>8, <1>9 DEF SameRequests, SameHeld, Held, Limited, WireOK

\* A timeout and an abort send nothing.
LEMMA TimeoutWire ==
    ASSUME NEW s, SmOK(s), NEW r
    PROVE  AfterTimeout(s, r).wire = s.wire
<1> DEFINE u == [s EXCEPT !.active = NULL, !.timeouts = @ + 1]
<1>1. s.timeouts + 1 \in Int /\ NULL \in Req \cup {NULL}
  BY DEF SmOK, SmType
<1>2. u \in SmType /\ u.wire = s.wire
  BY <1>1, ZenonT(30) DEF SmOK, SmType
<1>3. AfterTimeout(s, r) = IF r = NULL THEN s ELSE st_transmit_complete(u, r)
  BY ZenonT(30) DEF AfterTimeout
<1> HIDE DEF u
<1>4. st_transmit_complete(u, r).wire = u.wire
  BY <1>2, ZenonT(30) DEF st_transmit_complete, SmType
<1> QED  BY <1>2, <1>3, <1>4

LEMMA AbortWire ==
    ASSUME NEW s, SmOK(s), NEW r
    PROVE  AfterAbort(s, r).wire = s.wire
<1> DEFINE u == [s EXCEPT !.active = NULL, !.queue = IF @ = <<>> THEN @ ELSE Tail(@)]
           v == [s EXCEPT !.abort = FALSE]
<1>1. /\ s.queue # <<>> => Tail(s.queue) \in Seq(Req)
      /\ NULL \in Req \cup {NULL}
  BY HeadTailProperties DEF SmOK, SmType
<1>2. u \in SmType /\ u.wire = s.wire /\ v.wire = s.wire
  BY <1>1, ZenonT(30) DEF SmOK, SmType
<1>3. AfterAbort(s, r) = IF r = NULL THEN v ELSE st_transmit_complete(u, r)
  BY ZenonT(30) DEF AfterAbort
<1> HIDE DEF u, v
<1>4. st_transmit_complete(u, r).wire = u.wire
  BY <1>2, ZenonT(30) DEF st_transmit_complete, SmType
<1> QED  BY <1>2, <1>3, <1>4

-----------------------------------------------------------------------------
(***************************************************************************)
(* A call of the task, seen from the requests it holds.                    *)
(***************************************************************************)

\* A machine s becomes u and calls back p, t and a: the requests leave one after the
\* other as RequestPort says.
Ticked(s, u, p, t, a) ==
    \E h1 \in IF p = NULL THEN {Held(s)}
              ELSE {Held(s) \ {p}} \cup
                   (IF Async /\ p \in Observe /\ ~s.abort THEN {Held(s)} ELSE {}) :
    \E h2 \in IF t = NULL THEN {h1} ELSE Port!LeftBy(h1, t, Async) :
    \E h3 \in IF a = NULL THEN {h2} ELSE Port!LeftBy(h2, a, TRUE) :
        /\ p # NULL => p \in Held(s)
        /\ t # NULL => t \in h1 \ {p}
        /\ a # NULL => s.abort /\ a \in h2
        /\ Held(u) = h3
        /\ u.abort = s.abort \/ (h3 = {} /\ a = NULL /\ u.abort = FALSE)

\* The end of an abort leaves nothing behind, not even an answer under way.
Drained(s, u) == s.abort /\ ~u.abort => Empty(u) /\ ~u.socket /\ u.wire = <<>>

\* A machine that is not being cleared forgets no request.
Forgets(s, u) == ~Async /\ ~s.abort => Held(u) \cup u.freed = Held(s) \cup s.freed

\* What is called back was handed over before, and is deleted unless it stays.
Completed(s, u, p, t, a) ==
    \A r \in {p, t, a} \ {NULL} :
        r \in s.issued /\ (r \in u.freed \/ (Async /\ r \in Observe /\ ~s.abort))

\* The three callbacks are for three requests: each stage takes its own away before the
\* next one looks, and what an answer leaves neither times out nor is aborted.
LEMMA TickedApart ==
    ASSUME NEW s, NEW u, NEW p, NEW t, NEW a, Ticked(s, u, p, t, a)
    PROVE  /\ p # NULL => p # t /\ p # a
           /\ t # NULL => t # a
<1>1. PICK h1 \in IF p = NULL THEN {Held(s)}
              ELSE {Held(s) \ {p}} \cup
                   (IF Async /\ p \in Observe /\ ~s.abort THEN {Held(s)} ELSE {}) :
      \E h2 \in IF t = NULL THEN {h1} ELSE Port!LeftBy(h1, t, Async) :
        /\ t # NULL => t \in h1 \ {p}
        /\ a # NULL => s.abort /\ a \in h2
  BY DEF Ticked
<1>2. PICK h2 \in IF t = NULL THEN {h1} ELSE Port!LeftBy(h1, t, Async) :
        /\ t # NULL => t \in h1 \ {p}
        /\ a # NULL => s.abort /\ a \in h2
  BY <1>1
<1>3. h2 \subseteq h1 /\ (t # NULL => t \notin h2)
  <2>1. CASE t = NULL
    BY <1>2, <2>1
  <2>2. CASE t # NULL
    BY <1>2, <2>2 DEF Port!LeftBy
  <2> QED  BY <2>1, <2>2
<1>4. p # NULL /\ s.abort => p \notin h1
  BY <1>1
<1> QED  BY <1>2, <1>3, <1>4

LEMMA TickLeaves ==
    ASSUME TypeOK, NEW m \in SM, NEW net \in Net(sm[m]), TransmitTask(m, net),
           Owns(sm[m]), SocketOK(sm[m]), Limited(sm[m]), WireOK(sm[m])
    PROVE  \E u :
             /\ sm' = [sm EXCEPT ![m] = u]
             /\ Limited(u) /\ WireOK(u)
             /\ u.issued = sm[m].issued
             /\ Drained(sm[m], u)
             /\ Forgets(sm[m], u)
             /\ \E p, t, a \in Req \cup {NULL} :
                  /\ Ticked(sm[m], u, p, t, a) /\ Completed(sm[m], u, p, t, a)
                  /\ called'.response = p /\ called'.timeout = t /\ called'.aborted = a
<1> DEFINE s == sm[m]
           c == Exchange(m, sm[m], net)
           p == Paired(c, net)
           s1 == AfterPairing(c.sm, p)
           t == check_timeout(s1)
           s2 == AfterTimeout(s1, t)
           a == abort_transfers(s2)
           s3 == AfterAbort(s2, a)
           done == s2.abort /\ a = NULL
           u == CheckFailures(Settle(s3, c.next, done))
<1>1. /\ sm' = [sm EXCEPT ![m] = u]
      /\ called'.response = p /\ called'.timeout = t /\ called'.aborted = a
  BY DEF TransmitTask
<1>2. ConnectOK(c) /\ Owns(c.sm)
  BY ExchangeType, ExchangeOwns DEF Completes
<1>3. SameHeld(s, c.sm) /\ Limited(c.sm) /\ WireOK(c.sm)
  BY ExchangeKeeps
<1> DEFINE q == pair_request_to_response(c.sm, net.answers)
<1>4. p = IF c.next = "SM_TRANSMIT" /\ net.recv = "ok" THEN q ELSE NULL
  BY DEF Paired
<1>5. q \in Req \cup {NULL} /\ (q = NULL \/ q \in ToSet(c.sm.sent))
  <2>1. c.sm.sent \in Seq(Req) /\ SmOK(c.sm)
    BY <1>2 DEF ConnectOK, SmOK, SmType
  <2>2. q \in Req \cup {NULL}
    BY <2>1, PairType
  <2>3. q = NULL \/ q \in ToSet(c.sm.sent)
    BY <2>1, FirstOfMember DEF pair_request_to_response
  <2> QED  BY <2>2, <2>3
<1>6. q = NULL \/ Completes(c.sm, AfterPairing(c.sm, q), q)
  BY <1>2, AfterPairingOwns DEF ConnectOK
<1> HIDE DEF c, q, p
<1>7. p \in Req \cup {NULL} /\ (p = NULL \/ p \in ToSet(c.sm.sent))
  BY <1>4, <1>5
<1>8. SmOK(s1) /\ Linked(c.sm, s1)
  BY <1>2, <1>7, AfterPairingType, AfterPairingLink DEF ConnectOK
<1>9. /\ Limited(s1) /\ s1.abort = c.sm.abort /\ s1.issued = c.sm.issued
      /\ p = NULL => s1 = c.sm
      /\ p # NULL =>
           /\ p \in Held(c.sm)
           /\ \/ Held(s1) = Held(c.sm) \ {p} /\ s1.freed = c.sm.freed \cup {p}
              \/ s1 = c.sm /\ Async /\ p \in Observe /\ ~c.sm.abort
  BY <1>2, <1>3, <1>7, AfterPairingLeaves DEF ConnectOK
<1>10. Owns(s1)
  <2>1. CASE p = NULL
    BY <1>2, <1>9, <2>1
  <2>2. CASE p # NULL
    <3>1. p = q /\ q # NULL
      BY <1>4, <2>2
    <3> QED  BY <1>6, <3>1 DEF Completes
  <2> QED  BY <2>1, <2>2
<1>11. s1.wire = c.sm.wire
  BY <1>2, <1>9, ZenonT(30) DEF AfterPairing, st_transmit_complete, ConnectOK, SmOK, SmType
<1> HIDE DEF s1
<1>12. t \in Req \cup {NULL}
  BY <1>8, CheckTimeoutType
<1>13. SmOK(s2) /\ Linked(s1, s2) /\ Owns(s2) /\ s1.freed \subseteq s2.freed
  BY <1>8, <1>10, <1>12, AfterTimeoutType, AfterTimeoutLink, AfterTimeoutOwns DEF Completes
<1>14. /\ Limited(s2) /\ s2.abort = s1.abort /\ s2.issued = s1.issued
       /\ t = NULL => s2 = s1
       /\ t # NULL =>
            /\ t \in Held(s1)
            /\ Held(s2) \in Port!LeftBy(Held(s1), t, Async)
            /\ ~Async => Held(s2) = Held(s1) \ {t} /\ s2.freed = s1.freed \cup {t}
            /\ t \in s2.freed \/ (Async /\ t \in Observe /\ ~s1.abort)
  BY <1>8, <1>9, <1>10, AfterTimeoutLeaves
<1>15. t # NULL => t # p
  <2> SUFFICES ASSUME t # NULL, t = p PROVE FALSE
    OBVIOUS
  <2>1. s1 = c.sm /\ Async /\ p \in Observe
    BY <1>9, <1>14 DEF Held
  <2>2. p \in ToSet(s1.sent)
    BY <1>7, <2>1
  <2>3. t = s1.active
    BY <1>8, <2>1, CheckTimeoutPicks
  <2> QED  BY <1>10, <2>2, <2>3 DEF Owns
<1> HIDE DEF t
<1>16. s2.wire = s1.wire
  BY <1>8, <1>12, TimeoutWire
<1> HIDE DEF s2
<1>17. a \in Req \cup {NULL}
  BY <1>13, AbortTransfersType
<1>18. SmOK(s3) /\ Linked(s2, s3) /\ s2.freed \subseteq s3.freed
  BY <1>13, <1>17, AfterAbortType, AfterAbortLink, AfterAbortOwns DEF Completes
<1>19. /\ Limited(s3) /\ s3.issued = s2.issued
       /\ a = NULL => SameRequests(s2, s3) /\ ~s3.abort /\ (s2.abort => Empty(s2))
       /\ a # NULL =>
            /\ s2.abort /\ s3.abort
            /\ a \in Held(s2) /\ a \in s3.freed
            /\ Held(s3) \in Port!LeftBy(Held(s2), a, TRUE)
  BY <1>13, <1>14, AfterAbortLeaves
<1>20. s3.wire = s2.wire
  BY <1>13, AbortWire
<1> HIDE DEF a, s3
<1>21. WireOK(s3)
  BY <1>3, <1>8, <1>9, <1>11, <1>13, <1>14, <1>16, <1>18, <1>19, <1>20 DEF WireOK, Linked
<1>22. s2.abort \in BOOLEAN /\ done \in BOOLEAN
  BY <1>13 DEF SmOK, SmType
<1>23. c.next \in SmState
  BY <1>2 DEF ConnectOK
<1> HIDE DEF done
<1>24. /\ SameHeld(s3, u) /\ SameRequests(s3, u) /\ Limited(u) /\ WireOK(u)
       /\ done => ~u.socket
  BY <1>18, <1>19, <1>21, <1>22, <1>23, SettleKeeps
<1> HIDE DEF u
<1>25. s2.abort = s.abort /\ u.issued = s.issued
  BY <1>3, <1>9, <1>14, <1>19, <1>24 DEF SameHeld
<1>26. Drained(s, u)
  <2> SUFFICES ASSUME s.abort, ~u.abort PROVE Empty(u) /\ ~u.socket /\ u.wire = <<>>
    BY DEF Drained
  <2>1. a = NULL /\ Empty(s2)
    BY <1>19, <1>24, <1>25 DEF SameHeld
  <2>2. Empty(u)
    BY <1>19, <1>24, <2>1 DEF SameRequests, Empty
  <2>3. ~u.socket
    BY <1>24, <1>25, <2>1 DEF done
  <2> QED  BY <1>24, <2>2, <2>3 DEF WireOK
<1>27. Forgets(s, u)
  <2> SUFFICES ASSUME ~Async, ~s.abort PROVE Held(u) \cup u.freed = Held(s) \cup s.freed
    BY DEF Forgets
  <2>1. Held(c.sm) \cup c.sm.freed = Held(s) \cup s.freed
    BY <1>3 DEF SameHeld
  <2>2. Held(s1) \cup s1.freed = Held(c.sm) \cup c.sm.freed
    BY <1>9
  <2>3. Held(s2) \cup s2.freed = Held(s1) \cup s1.freed
    BY <1>14
  <2>4. SameRequests(s2, s3)
    BY <1>19, <1>25
  <2> QED  BY <1>24, <2>1, <2>2, <2>3, <2>4 DEF SameRequests, Held
<1>28. Ticked(s, u, p, t, a)
  <2>1. Held(s1) \in IF p = NULL THEN {Held(s)}
                     ELSE {Held(s) \ {p}} \cup
                          (IF Async /\ p \in Observe /\ ~s.abort THEN {Held(s)} ELSE {})
    BY <1>3, <1>9 DEF SameHeld
  <2>2. Held(s2) \in IF t = NULL THEN {Held(s1)} ELSE Port!LeftBy(Held(s1), t, Async)
    BY <1>14
  <2>3. Held(u) \in IF a = NULL THEN {Held(s2)} ELSE Port!LeftBy(Held(s2), a, TRUE)
    BY <1>19, <1>24 DEF SameRequests, Held
  <2>4. /\ p # NULL => p \in Held(s)
        /\ t # NULL => t \in Held(s1) \ {p}
        /\ a # NULL => s.abort /\ a \in Held(s2)
    BY <1>3, <1>9, <1>14, <1>15, <1>19, <1>25 DEF SameHeld
  <2>5. u.abort = s.abort \/ (Held(u) = {} /\ a = NULL /\ u.abort = FALSE)
    <3>1. s.abort \in BOOLEAN /\ u.abort = s3.abort /\ s3.abort \in BOOLEAN
      BY <1>18, <1>24, TypeOKBySm DEF SameHeld, SmOK, SmType
    <3>2. ASSUME u.abort # s.abort PROVE Held(u) = {} /\ a = NULL /\ u.abort = FALSE
      <4>1. s.abort /\ ~u.abort
        BY <1>19, <1>25, <3>1, <3>2
      <4>2. Empty(u)
        BY <1>26, <4>1 DEF Drained
      <4>3. ToSet(<<>>) = {}
        BY DEF ToSet
      <4> QED  BY <1>19, <1>24, <3>1, <4>1, <4>2, <4>3 DEF Empty, Held, SameHeld
    <3> QED  BY <3>2
  <2> QED  BY <2>1, <2>2, <2>3, <2>4, <2>5 DEF Ticked
<1>29. Completed(s, u, p, t, a)
  <2>1. /\ s1.freed \subseteq u.freed /\ s2.freed \subseteq u.freed /\ s3.freed = u.freed
        /\ s1.abort = s.abort /\ c.sm.abort = s.abort
    BY <1>3, <1>9, <1>13, <1>18, <1>24 DEF SameHeld, SameRequests
  <2>2. /\ Held(s) \subseteq s.issued /\ Held(s1) \subseteq s1.issued /\ s1.issued = s.issued
        /\ Held(s2) \subseteq s2.issued /\ s2.issued = s.issued
    BY <1>3, <1>9, <1>10, <1>13, <1>14 DEF SameHeld, Owns
  <2>3. p # NULL => p \in s.issued /\ (p \in u.freed \/ (Async /\ p \in Observe /\ ~s.abort))
    BY <1>3, <1>9, <2>1, <2>2 DEF SameHeld
  <2>4. t # NULL => t \in s.issued /\ (t \in u.freed \/ (Async /\ t \in Observe /\ ~s.abort))
    BY <1>14, <2>1, <2>2
  <2>5. a # NULL => a \in s.issued /\ a \in u.freed
    BY <1>19, <2>1, <2>2
  <2> QED  BY <2>3, <2>4, <2>5 DEF Completed
<1> QED  BY <1>1, <1>7, <1>12, <1>17, <1>24, <1>25, <1>26, <1>27, <1>28, <1>29

-----------------------------------------------------------------------------
(***************************************************************************)
(* The invariant.  A machine that was never cleared does not abort, which  *)
(* is why it loses nothing.                                                *)
(***************************************************************************)
PortInv ==
    /\ \A m \in SM : Limited(sm[m]) /\ WireOK(sm[m])
    /\ \A m \in SM : clears[m] = 0 => ~sm[m].abort
    /\ \A m \in SM : Limit = 1 /\ clears[m] = 0 =>
          sm[m].issued \subseteq Held(sm[m]) \cup sm[m].freed

\* What a step does to a clear: the body of ClearDrains.
Drains ==
    \A m \in SM : sm[m].abort /\ ~sm'[m].abort =>
        /\ Empty(sm'[m])
        /\ ~sm'[m].socket
        /\ sm'[m].wire = <<>>

\* One machine is replaced.
LEMMA PortKept ==
    ASSUME PortInv, TypeOK, NEW m \in SM, NEW u, sm' = [sm EXCEPT ![m] = u],
           Limited(u), WireOK(u), Drained(sm[m], u),
           clears'[m] = 0 => ~u.abort,
           \A x \in SM : x # m => clears'[x] = clears[x],
           Limit = 1 /\ clears'[m] = 0 => u.issued \subseteq Held(u) \cup u.freed
    PROVE  PortInv' /\ Drains
<1>1. \A x \in SM : sm'[x] = IF x = m THEN u ELSE sm[x]
  BY DEF TypeOK
<1>2. ASSUME NEW x \in SM
      PROVE  /\ Limited(sm'[x]) /\ WireOK(sm'[x])
             /\ clears'[x] = 0 => ~sm'[x].abort
             /\ Limit = 1 /\ clears'[x] = 0 =>
                   sm'[x].issued \subseteq Held(sm'[x]) \cup sm'[x].freed
  BY <1>1 DEF PortInv
<1>3. PortInv'
  BY <1>2 DEF PortInv, Limited, WireOK, Held
<1>4. Drains
  BY <1>1 DEF Drains, Drained
<1> QED  BY <1>3, <1>4

\* A step that takes no request over and lets none go.
LEMMA PortQuiet ==
    ASSUME PortInv, TypeOK, NEW m \in SM, NEW u, sm' = [sm EXCEPT ![m] = u],
           SameHeld(sm[m], u), Limited(u), WireOK(u), clears' = clears
    PROVE  PortInv' /\ Drains
<1>1. Drained(sm[m], u)
  BY DEF SameHeld, Drained
<1>2. /\ clears'[m] = 0 => ~u.abort
      /\ Limit = 1 /\ clears'[m] = 0 => u.issued \subseteq Held(u) \cup u.freed
  BY DEF PortInv, SameHeld
<1> QED  BY <1>1, <1>2, PortKept

\* What the quiet steps of a machine keep: the request lists, the count and the flag.
LEMMA SameKeeps ==
    ASSUME NEW s, NEW u, SameRequests(s, u), u.sent_num = s.sent_num, u.abort = s.abort,
           Limited(s)
    PROVE  SameHeld(s, u) /\ Limited(u)
BY DEF SameRequests, SameHeld, Held, Limited

\* The steps besides a call of the task in SM_TRANSMIT, protocol_client_sm_transmit and
\* protocol_client_sm_clear.
Quiet(m) == ResetTask(m) \/ FailureTask(m) \/ RequestElapse(m) \/ ResetElapse(m)

LEMMA QuietKeeps ==
    ASSUME PortInv, TypeOK, NEW m \in SM, Quiet(m)
    PROVE  /\ called' = NoCalls /\ clears' = clears
           /\ \E u : /\ sm' = [sm EXCEPT ![m] = u]
                     /\ SameHeld(sm[m], u) /\ Limited(u) /\ WireOK(u)
<1> DEFINE s == sm[m]
<1>1. SmOK(s) /\ Limited(s) /\ WireOK(s)
  BY TypeOKBySm DEF PortInv
<1>2. CASE ResetTask(m)
  <2> DEFINE k == close_socket(s)
             w == [k EXCEPT !.reset_due = FALSE, !.state = "SM_TRANSMIT"]
             r == st_reset(s)
             u == CheckFailures(r)
             l == [s EXCEPT !.socket = FALSE, !.connected = FALSE, !.retry_cnt = 0, !.wire = <<>>]
  <2>1. SmOK(k) /\ SameRequests(s, k)
    BY <1>1, CloseSocketType, CloseSocketSame DEF SmOK
  <2>2. k = l \/ k = s
    BY ZenonT(30) DEF close_socket
  <2>3. /\ l.sent_num = s.sent_num /\ l.abort = s.abort /\ l.wire = <<>>
    BY <1>1, ZenonT(30) DEF SmOK, SmType
  <2> HIDE DEF l
  <2>4. k.sent_num = s.sent_num /\ k.abort = s.abort /\ WireOK(k)
    BY <1>1, <2>2, <2>3, NothingOnWire
  <2>5. r = IF s.reset_due THEN w ELSE s
    BY ZenonT(30) DEF st_reset
  <2> HIDE DEF k
  <2>6. /\ SameRequests(k, w) /\ w.sent_num = k.sent_num /\ w.abort = k.abort
        /\ w.wire = k.wire /\ w.socket = k.socket
    BY <2>1, ZenonT(30) DEF SameRequests, SmOK, SmType
  <2> HIDE DEF w
  <2>7. SmOK(r)
    BY <1>1, ResetType
  <2> HIDE DEF r
  <2>8. SameRequests(s, r) /\ r.sent_num = s.sent_num /\ r.abort = s.abort /\ WireOK(r)
    BY <1>1, <2>1, <2>4, <2>5, <2>6 DEF SameRequests, WireOK
  <2>9. /\ u.sent_num = r.sent_num /\ u.abort = r.abort
        /\ u.wire = r.wire /\ u.socket = r.socket
    BY <2>7, ZenonT(30) DEF CheckFailures, SmOK, SmType
  <2>10. SameRequests(r, u)
    BY <2>7, CheckFailuresSame
  <2>11. sm' = [sm EXCEPT ![m] = u] /\ called' = NoCalls /\ clears' = clears
    BY <1>2 DEF ResetTask, r
  <2> HIDE DEF u
  <2>12. SameRequests(s, u) /\ WireOK(u)
    BY <2>8, <2>9, <2>10 DEF SameRequests, WireOK
  <2>13. SameHeld(s, u) /\ Limited(u)
    BY <1>1, <2>8, <2>9, <2>12, SameKeeps
  <2> QED  BY <2>11, <2>12, <2>13
<1>3. ASSUME NEW u, sm' = [sm EXCEPT ![m] = u], called' = NoCalls, clears' = clears,
             SameRequests(s, u), u.sent_num = s.sent_num, u.abort = s.abort,
             u.wire = s.wire, u.socket = s.socket
      PROVE  /\ called' = NoCalls /\ clears' = clears
             /\ \E v : /\ sm' = [sm EXCEPT ![m] = v]
                       /\ SameHeld(s, v) /\ Limited(v) /\ WireOK(v)
  <2>1. SameHeld(s, u) /\ Limited(u)
    BY <1>1, <1>3, SameKeeps
  <2>2. WireOK(u)
    BY <1>1, <1>3 DEF WireOK, SameRequests
  <2> QED  BY <1>3, <2>1, <2>2
<1>4. CASE FailureTask(m)
  <2> DEFINE r == st_failure(s)
             u == CheckFailures(r)
  <2>1. SmOK(r)
    BY <1>1, FailureType
  <2>2. /\ SameRequests(s, r) /\ r.sent_num = s.sent_num /\ r.abort = s.abort
        /\ r.wire = s.wire /\ r.socket = s.socket
    BY <1>1, ZenonT(30) DEF SameRequests, st_failure, SmOK, SmType
  <2>3. sm' = [sm EXCEPT ![m] = u] /\ called' = NoCalls /\ clears' = clears
    BY <1>4 DEF FailureTask
  <2> HIDE DEF r
  <2>4. SameRequests(r, u)
    BY <2>1, CheckFailuresSame
  <2>5. /\ u.sent_num = r.sent_num /\ u.abort = r.abort
        /\ u.wire = r.wire /\ u.socket = r.socket
    BY <2>1, ZenonT(30) DEF CheckFailures, SmOK, SmType
  <2> HIDE DEF u
  <2>6. SameRequests(s, u)
    BY <2>2, <2>4 DEF SameRequests
  <2> QED  BY <1>3, <2>2, <2>3, <2>5, <2>6
<1>5. CASE RequestElapse(m)
  <2>1. PICK i \in DOMAIN InFlight(sm[m]) :
          sm' = [sm EXCEPT ![m].late = @ \cup {InFlight(sm[m])[i]}]
    BY <1>5, ZenonT(30) DEF RequestElapse
  <2> DEFINE r == InFlight(sm[m])[i]
             u == [sm[m] EXCEPT !.late = @ \cup {r}]
  <2>2. sm' = [sm EXCEPT ![m] = u] /\ called' = NoCalls /\ clears' = clears
    BY <1>5, <2>1 DEF RequestElapse
  <2> HIDE DEF r
  <2>3. /\ SameRequests(s, u) /\ u.sent_num = s.sent_num /\ u.abort = s.abort
        /\ u.wire = s.wire /\ u.socket = s.socket
    BY <1>1, ZenonT(30) DEF SameRequests, SmOK, SmType
  <2> HIDE DEF u
  <2> QED  BY <1>3, <2>2, <2>3
<1>6. CASE ResetElapse(m)
  <2> DEFINE u == [sm[m] EXCEPT !.reset_due = TRUE]
  <2>1. sm' = [sm EXCEPT ![m] = u] /\ called' = NoCalls /\ clears' = clears
    BY <1>6 DEF ResetElapse
  <2>2. /\ SameRequests(s, u) /\ u.sent_num = s.sent_num /\ u.abort = s.abort
        /\ u.wire = s.wire /\ u.socket = s.socket
    BY <1>1, ZenonT(30) DEF SameRequests, SmOK, SmType
  <2> HIDE DEF u
  <2> QED  BY <1>3, <2>1, <2>2
<1> QED  BY <1>2, <1>4, <1>5, <1>6 DEF Quiet

\* protocol_client_sm_transmit only adds to the queue.
LEMMA TransmitKeeps ==
    ASSUME PortInv, TypeOK, NEW m \in SM, NEW r \in Req, Transmit(m, r)
    PROVE  /\ called' = NoCalls /\ clears' = clears
           /\ \A x \in SM : r \notin sm[x].issued
           /\ \E u : /\ sm' = [sm EXCEPT ![m] = u]
                     /\ Limited(u) /\ WireOK(u) /\ u.abort = sm[m].abort
                     /\ Held(u) = Held(sm[m]) \cup {r}
                     /\ u.issued = sm[m].issued \cup {r} /\ u.freed = sm[m].freed
<1> DEFINE s == sm[m]
           u == [s EXCEPT !.queue = Append(@, r), !.issued = @ \cup {r}]
<1>1. SmOK(s) /\ Limited(s) /\ WireOK(s)
  BY TypeOKBySm DEF PortInv
<1>2. /\ sm' = [sm EXCEPT ![m] = u] /\ called' = NoCalls /\ clears' = clears
      /\ \A x \in SM : r \notin sm[x].issued
  BY DEF Transmit
<1>3. /\ u.queue = Append(s.queue, r) /\ u.issued = s.issued \cup {r}
      /\ u.active = s.active /\ u.sent = s.sent /\ u.freed = s.freed
      /\ u.abort = s.abort /\ u.sent_num = s.sent_num /\ u.wire = s.wire /\ u.socket = s.socket
  BY <1>1, ZenonT(30) DEF SmOK, SmType
<1> HIDE DEF u
<1>4. s.queue \in Seq(Req)
  BY <1>1 DEF SmOK, SmType
<1>5. ToSet(u.queue) = ToSet(s.queue) \cup {r}
  BY <1>3, <1>4, AppendElements
<1>6. Held(u) = Held(s) \cup {r}
  BY <1>3, <1>5 DEF Held
<1>7. Limited(u) /\ WireOK(u)
  BY <1>1, <1>3 DEF Limited, WireOK
<1> QED  BY <1>2, <1>3, <1>6, <1>7

\* protocol_client_sm_clear only raises the flag.
LEMMA ClearKeeps ==
    ASSUME PortInv, TypeOK, NEW m \in SM, Clear(m)
    PROVE  /\ called' = NoCalls
           /\ \A x \in SM : x # m => clears'[x] = clears[x]
           /\ clears'[m] # 0
           /\ \E u : /\ sm' = [sm EXCEPT ![m] = u]
                     /\ Limited(u) /\ WireOK(u) /\ u.abort = TRUE
                     /\ Held(u) = Held(sm[m])
<1> DEFINE s == sm[m]
           u == [s EXCEPT !.abort = TRUE]
<1>1. SmOK(s) /\ Limited(s) /\ WireOK(s)
  BY TypeOKBySm DEF PortInv
<1>2. sm' = [sm EXCEPT ![m] = u] /\ called' = NoCalls
  BY DEF Clear
<1>3. SameRequests(s, u) /\ u.abort = TRUE /\ u.sent_num = s.sent_num
      /\ u.wire = s.wire /\ u.socket = s.socket
  BY <1>1, ZenonT(30) DEF SameRequests, SmOK, SmType
<1> HIDE DEF u
<1>4. clears' = [clears EXCEPT ![m] = @ + 1] /\ clears \in [SM -> 0 .. MaxClears]
  BY DEF Clear, TypeOK
<1>5. /\ \A x \in SM : x # m => clears'[x] = clears[x]
      /\ clears'[m] # 0
  BY <1>4, ConstantsAssumption
<1> QED  BY <1>1, <1>2, <1>3, <1>5 DEF SameRequests, Held, Limited, WireOK

LEMMA PortInit_PortInv ==
    ASSUME Init
    PROVE  PortInv
<1>1. ASSUME NEW m \in SM
      PROVE  /\ Limited(sm[m]) /\ WireOK(sm[m]) /\ ~sm[m].abort
             /\ sm[m].issued = {}
  <2>1. PICK status \in Status : sm[m] = SmNew(status)
    BY DEF Init
  <2>2. /\ sm[m].sent = <<>> /\ sm[m].active = NULL /\ sm[m].sent_num = 0
        /\ sm[m].abort = FALSE /\ sm[m].wire = <<>> /\ sm[m].issued = {}
    BY <2>1 DEF SmNew
  <2>3. Len(sm[m].sent) = 0
    BY <2>2
  <2>4. Limited(sm[m])
    BY <2>2, <2>3 DEF Limited
  <2> QED  BY <2>2, <2>4, NothingOnWire
<1> QED  BY <1>1 DEF PortInv

LEMMA PortNext_PortInv ==
    ASSUME PortInv, OwnInv, TokenInv, [Next]_vars
    PROVE  PortInv' /\ (Drains \/ UNCHANGED vars)
<1>1. TypeOK
  BY DEF OwnInv
<1>2. ASSUME NEW m \in SM, Quiet(m) PROVE PortInv' /\ Drains
  BY <1>1, <1>2, QuietKeeps, PortQuiet
<1>3. ASSUME NEW m \in SM, NEW net \in Net(sm[m]), TransmitTask(m, net)
      PROVE  PortInv' /\ Drains
  <2>1. PICK u : /\ sm' = [sm EXCEPT ![m] = u]
                 /\ Limited(u) /\ WireOK(u)
                 /\ u.issued = sm[m].issued
                 /\ Drained(sm[m], u)
                 /\ Forgets(sm[m], u)
                 /\ \E p, t, a \in Req \cup {NULL} : Ticked(sm[m], u, p, t, a)
    <3>1. Owns(sm[m]) /\ SocketOK(sm[m]) /\ Limited(sm[m]) /\ WireOK(sm[m])
      BY DEF OwnInv, TokenInv, PortInv
    <3> QED  BY <1>1, <1>3, <3>1, TickLeaves
  <2>2. clears' = clears
    BY <1>3 DEF TransmitTask
  <2>3. ~sm[m].abort => ~u.abort
    <3>1. u.abort = sm[m].abort \/ u.abort = FALSE
      BY <2>1 DEF Ticked
    <3> QED  BY <3>1
  <2>4. Limit = 1 /\ clears'[m] = 0 => u.issued \subseteq Held(u) \cup u.freed
    <3>1. Limit = 1 => ~Async
      BY ConstantsAssumption
    <3> QED  BY <2>1, <2>2, <3>1 DEF PortInv, Forgets
  <2> QED  BY <1>1, <2>1, <2>2, <2>3, <2>4, PortKept DEF PortInv
<1>4. ASSUME NEW m \in SM, NEW r \in Req, Transmit(m, r) PROVE PortInv' /\ Drains
  <2>1. clears' = clears
    BY <1>1, <1>4, TransmitKeeps
  <2>2. PICK u : /\ sm' = [sm EXCEPT ![m] = u]
                 /\ Limited(u) /\ WireOK(u) /\ u.abort = sm[m].abort
                 /\ Held(u) = Held(sm[m]) \cup {r}
                 /\ u.issued = sm[m].issued \cup {r} /\ u.freed = sm[m].freed
    BY <1>1, <1>4, TransmitKeeps
  <2>3. Drained(sm[m], u)
    BY <2>2 DEF Drained
  <2>4. /\ clears'[m] = 0 => ~u.abort
        /\ Limit = 1 /\ clears'[m] = 0 => u.issued \subseteq Held(u) \cup u.freed
    BY <2>1, <2>2 DEF PortInv
  <2> QED  BY <1>1, <2>1, <2>2, <2>3, <2>4, PortKept
<1>5. ASSUME NEW m \in SM, Clear(m) PROVE PortInv' /\ Drains
  <2>1. PICK u : /\ sm' = [sm EXCEPT ![m] = u]
                 /\ Limited(u) /\ WireOK(u) /\ u.abort = TRUE
    BY <1>1, <1>5, ClearKeeps
  <2>2. /\ \A x \in SM : x # m => clears'[x] = clears[x]
        /\ clears'[m] # 0
    BY <1>1, <1>5, ClearKeeps
  <2>3. Drained(sm[m], u)
    BY <2>1 DEF Drained
  <2> QED  BY <1>1, <2>1, <2>2, <2>3, PortKept
<1>6. CASE ConnectElapse
  <2>1. sm' = sm /\ clears' = clears
    BY <1>6 DEF ConnectElapse
  <2> QED  BY <2>1 DEF PortInv, Limited, WireOK, Held, Drains
<1>7. CASE UNCHANGED vars
  BY <1>7 DEF vars, PortInv, Limited, WireOK, Held
<1> QED  BY <1>2, <1>3, <1>4, <1>5, <1>6, <1>7 DEF Next, Quiet

\* Every execution keeps the invariant.
LEMMA PortAlways == Spec => []PortInv
<1>1. Init => PortInv
  BY PortInit_PortInv
<1>2. PortInv /\ OwnInv /\ TokenInv /\ [Next]_vars => PortInv'
  BY PortNext_PortInv
<1> QED  BY <1>1, <1>2, OwnAlways, TokenAlways, PTL DEF Spec

\* Over HTTP at most one request is active or sent, and outside an abort
\* sent_request_num is the length of the sent list, so that st_new_transmit neither
\* stops for good nor lets a second request on the connection.
THEOREM OneInFlight == Spec => []ParallelLimit
<1>1. PortInv /\ TypeOK => ParallelLimit
  <2> SUFFICES ASSUME PortInv, TypeOK, NEW m \in SM, Limit = 1
               PROVE  /\ Len(InFlight(sm[m])) <= 1
                      /\ ~sm[m].abort => sm[m].sent_num = Len(sm[m].sent)
    BY DEF ParallelLimit
  <2> DEFINE s == sm[m]
  <2>1. s.sent \in Seq(Req) /\ s.active \in Req \cup {NULL}
    BY TypeOKBySm DEF SmOK, SmType
  <2>2. /\ Len(s.sent) <= 1
        /\ s.active # NULL => s.sent = <<>>
        /\ ~s.abort => s.sent_num = Len(s.sent)
    BY DEF PortInv, Limited
  <2>3. CASE s.active = NULL
    <3>1. InFlight(s) = s.sent
      BY <2>1, <2>3 DEF InFlight
    <3> QED  BY <2>2, <3>1
  <2>4. CASE s.active # NULL
    <3>1. InFlight(s) = <<s.active>> \o <<>>
      BY <2>2, <2>4 DEF InFlight
    <3>2. s.active \in Req
      BY <2>1, <2>4
    <3>3. Len(InFlight(s)) = 1
      BY <3>1, <3>2
    <3> QED  BY <2>2, <3>3
  <2> QED  BY <2>3, <2>4
<1> QED  BY <1>1, PortAlways, TypeCorrect, PTL

\* An HTTP machine that is never cleared forgets no request: what it was given it
\* holds until it deletes it with the callback.
THEOREM NothingLost == Spec => []NoneLost
<1>1. PortInv /\ OwnInv => NoneLost
  BY DEF PortInv, OwnInv, Owns, NoneLost
<1> QED  BY <1>1, PortAlways, OwnAlways, PTL

\* The end of a clear finds the machine without requests, without a socket and without
\* an answer under way that could reach a later request.
THEOREM ClearIsComplete == Spec => ClearDrains
<1>1. PortInv /\ OwnInv /\ TokenInv /\ [Next]_vars => [Drains]_vars
  BY PortNext_PortInv
<1>2. Spec => [][Drains]_vars
  BY <1>1, PortAlways, OwnAlways, TokenAlways, PTL DEF Spec
<1> QED  BY <1>2 DEF Drains, ClearDrains

-----------------------------------------------------------------------------
(***************************************************************************)
(* Answers.                                                                *)
(***************************************************************************)

\* The answers of the network are answers to requests that the server was sent.
LEMMA AnswersToRequests ==
    ASSUME NEW s, SmOK(s), NEW net \in Net(s), net.recv = "ok"
    PROVE  net.answers \in ToSet(s.wire) /\ ToSet(s.wire) \subseteq Req
<1>1. s.wire \in Seq(Req)
  BY DEF SmOK, SmType
<1>2. s.wire # <<>> => Head(s.wire) \in ToSet(s.wire)
  BY <1>1, TailElements
<1>3. ToSet(s.wire) \subseteq Req
  BY <1>1 DEF ToSet
<1>4. Answerable(s) \subseteq ToSet(s.wire)
  BY <1>2 DEF Answerable
<1> DEFINE socket == IF s.socket THEN {"ok"} ELSE Result
           connect == IF s.connected THEN {"ok"} ELSE Result
           send == IF s.active = NULL /\ s.queue = <<>> THEN {"ok"} ELSE Result
<1>5. \/ net \in [socket : socket, connect : connect, send : send,
                  recv : {"block", "fail"}, answers : {NULL}, status : {FALSE}]
      \/ net \in [socket : socket, connect : connect, send : send,
                  recv : {"ok"}, answers : Answerable(s), status : Status]
  BY DEF Net
<1> HIDE DEF socket, connect, send
<1>6. net.recv = "ok" => net.answers \in Answerable(s)
  BY <1>5
<1> QED  BY <1>3, <1>4, <1>6

\* What a call of the task pairs with an answer has the message id of the request that
\* was answered, and that request was on the wire.
LEMMA PairedAnswer ==
    ASSUME TypeOK, NEW m \in SM, NEW net \in Net(sm[m]), TransmitTask(m, net),
           called'.response # NULL
    PROVE  /\ called'.answers \in ToSet(sm[m].wire)
           /\ called'.answers \in Req
           /\ MessageId[called'.response] = MessageId[called'.answers]
<1> DEFINE c == Exchange(m, sm[m], net)
           p == Paired(c, net)
<1>1. called'.response = p /\ called'.answers = IF p = NULL THEN NULL ELSE net.answers
  BY DEF TransmitTask
<1>2. net.recv = "ok" /\ p = pair_request_to_response(c.sm, net.answers)
  BY <1>1 DEF Paired
<1>3. net.answers \in ToSet(sm[m].wire) /\ net.answers \in Req
  BY <1>2, TypeOKBySm, AnswersToRequests
<1>4. ConnectOK(c)
  BY ExchangeType
<1> HIDE DEF c
<1>5. c.sm.sent \in Seq(Req)
  BY <1>4 DEF ConnectOK, SmOK, SmType
<1> HIDE DEF p
<1>6. p \in {r \in Req : MessageId[r] = MessageId[net.answers]}
  BY <1>1, <1>2, <1>5, FirstOfIn DEF pair_request_to_response
<1> QED  BY <1>1, <1>3, <1>6

\* Only a call of the task in its transmit state calls back.
LEMMA CallsInTask ==
    ASSUME [Next]_vars
    PROVE  \/ UNCHANGED vars
           \/ called' = NoCalls
           \/ \E m \in SM : \E net \in Net(sm[m]) : TransmitTask(m, net)
BY DEF Next, ResetTask, FailureTask, Transmit, Clear, RequestElapse, ResetElapse, ConnectElapse

\* What a call of the task knows of the three requests it calls back.
LEMMA TaskCompletes ==
    ASSUME PortInv, OwnInv, TokenInv, NEW m \in SM, NEW net \in Net(sm[m]), TransmitTask(m, net)
    PROVE  /\ \A x \in SM : sm'[x].issued = sm[x].issued
           /\ \A x \in SM : x # m => sm'[x] = sm[x]
           /\ \A c \in {"response", "timeout", "aborted"} : called'[c] # NULL =>
                 /\ called'[c] \in sm[m].issued
                 /\ called'[c] \in sm'[m].freed
                    \/ (Async /\ called'[c] \in Observe /\ ~sm[m].abort)
           /\ called'.response # NULL => /\ called'.response # called'.timeout
                                         /\ called'.response # called'.aborted
           /\ called'.timeout # NULL => called'.timeout # called'.aborted
<1>1. TypeOK /\ Owns(sm[m]) /\ SocketOK(sm[m]) /\ Limited(sm[m]) /\ WireOK(sm[m])
  BY DEF OwnInv, TokenInv, PortInv
<1>2. PICK u : /\ sm' = [sm EXCEPT ![m] = u]
               /\ u.issued = sm[m].issued
               /\ \E p, t, a \in Req \cup {NULL} :
                    /\ Ticked(sm[m], u, p, t, a) /\ Completed(sm[m], u, p, t, a)
                    /\ called'.response = p /\ called'.timeout = t /\ called'.aborted = a
  BY <1>1, TickLeaves
<1>3. PICK p, t, a \in Req \cup {NULL} :
           /\ Ticked(sm[m], u, p, t, a) /\ Completed(sm[m], u, p, t, a)
           /\ called'.response = p /\ called'.timeout = t /\ called'.aborted = a
  BY <1>2
<1>4. /\ sm'[m] = u
      /\ \A x \in SM : x # m => sm'[x] = sm[x]
  BY <1>1, <1>2 DEF TypeOK
<1>5. /\ p # NULL => p # t /\ p # a
      /\ t # NULL => t # a
  BY <1>3, TickedApart
<1>6. \A r \in {p, t, a} \ {NULL} :
         r \in sm[m].issued /\ (r \in u.freed \/ (Async /\ r \in Observe /\ ~sm[m].abort))
  BY <1>3 DEF Completed
<1>7. \A c \in {"response", "timeout", "aborted"} : called'[c] \in {p, t, a}
  BY <1>3
<1> QED  BY <1>2, <1>3, <1>4, <1>5, <1>6, <1>7

\* A response is given to the request the server answered, however late it is and
\* whatever was sent or forgotten in between, if no other request that its machine was
\* given has the same message id. exo_request_args_new gives reads, writes and
\* subscriptions over CoAP an id of their own; the time, the activation and every HTTP
\* request have id 1, and the run pcsm_late_answer shows the wrong request called back.
THEOREM AnswersMatch == Spec => []OwnAnswer
<1>1. Init => OwnAnswer
  <2> SUFFICES ASSUME Init, NEW m \in SM PROVE sm[m].issued = {}
    BY DEF OwnAnswer
  <2> QED  BY DEF Init, SmNew
<1>2. ASSUME PortInv, OwnInv, TokenInv, OwnAnswer, TypeOK', [Next]_vars PROVE OwnAnswer'
  <2>1. CASE called' = NoCalls
    <3> SUFFICES ASSUME NEW m \in SM, NEW r \in sm'[m].issued PROVE called'.response # r
      BY DEF OwnAnswer
    <3>1. sm'[m].issued \subseteq Req
      BY <1>2 DEF TypeOK, SmType
    <3> QED  BY <2>1, <3>1, ConstantsAssumption DEF NoCalls
  <2>2. CASE UNCHANGED vars
    BY <1>2, <2>2 DEF OwnAnswer, vars
  <2>3. ASSUME NEW m \in SM, NEW net \in Net(sm[m]), TransmitTask(m, net)
        PROVE  OwnAnswer'
    <3> SUFFICES ASSUME NEW n \in SM, NEW r \in sm'[n].issued, called'.response = r,
                        \A x \in sm'[n].issued : MessageId[x] = MessageId[r] => x = r
                 PROVE  called'.answers = r
      BY DEF OwnAnswer
    <3>1. sm'[n].issued = sm[n].issued
      BY <1>2, <2>3, TaskCompletes
    <3>2. r \in Req /\ r # NULL /\ TypeOK
      <4>1. SmOK(sm[n]) /\ TypeOK
        BY <1>2, TypeOKBySm DEF OwnInv
      <4> QED  BY <3>1, <4>1, ConstantsAssumption DEF SmOK, SmType
    <3>3. r \in sm[m].issued
      BY <1>2, <2>3, <3>2, TaskCompletes
    <3>4. n = m
      BY <1>2, <3>1, <3>3 DEF OwnInv
    <3>5. /\ called'.answers \in ToSet(sm[m].wire)
          /\ MessageId[r] = MessageId[called'.answers]
      BY <2>3, <3>2, PairedAnswer
    <3>6. called'.answers \in sm[m].issued
      BY <1>2, <3>5 DEF PortInv, WireOK
    <3> QED  BY <3>1, <3>4, <3>5, <3>6
  <2> QED  BY <1>2, <2>1, <2>2, <2>3, CallsInTask
<1> QED  BY <1>1, <1>2, PortAlways, OwnAlways, TokenAlways, TypeCorrect, PTL DEF Spec

\* A request is completed once: what a call of the task calls back was not deleted
\* before, is another request for the response, the timeout and the abort of the call,
\* and is deleted unless it is an observed resource that stays; and nothing is deleted
\* without its callback. So protocol_client_sm never hands exosite_api arguments back
\* that it still uses, or uses any that it handed back.
THEOREM CallbacksInTime == Spec => CompletedOnce
<1> DEFINE Apart ==
             /\ \A c, d \in {"response", "timeout", "aborted"} :
                  c # d /\ called'[c] # NULL => called'[c] # called'[d]
             /\ \A r \in CalledBack' : \E m \in SM :
                  /\ r \in sm[m].issued
                  /\ r \in sm'[m].freed \/ (Async /\ r \in Observe /\ ~sm[m].abort)
<1>1. ASSUME PortInv, OwnInv, TokenInv, [Next]_vars PROVE [Apart]_vars
  <2>1. CASE called' = NoCalls
    BY <2>1 DEF NoCalls, CalledBack
  <2>2. ASSUME NEW m \in SM, NEW net \in Net(sm[m]), TransmitTask(m, net) PROVE Apart
    <3>1. /\ \A c \in {"response", "timeout", "aborted"} : called'[c] # NULL =>
               /\ called'[c] \in sm[m].issued
               /\ called'[c] \in sm'[m].freed
                  \/ (Async /\ called'[c] \in Observe /\ ~sm[m].abort)
          /\ called'.response # NULL => /\ called'.response # called'.timeout
                                        /\ called'.response # called'.aborted
          /\ called'.timeout # NULL => called'.timeout # called'.aborted
      BY <1>1, <2>2, TaskCompletes
    <3>2. \A r \in CalledBack' : \E c \in {"response", "timeout", "aborted"} :
             r = called'[c] /\ called'[c] # NULL
      BY DEF CalledBack
    <3> QED  BY <3>1, <3>2
  <2> QED  BY <1>1, <2>1, <2>2, CallsInTask
<1>2. PortInv /\ OwnInv /\ TokenInv /\ [Next]_vars => [Apart]_vars
  BY <1>1
<1>3. CallsOwned /\ Apart <=>
        (/\ \A m \in SM :
              /\ CalledBack' \cap sm[m].freed = {}
              /\ sm'[m].freed \ sm[m].freed \subseteq CalledBack'
         /\ \A c, d \in {"response", "timeout", "aborted"} :
              c # d /\ called'[c] # NULL => called'[c] # called'[d]
         /\ \A r \in CalledBack' : \E m \in SM :
              /\ r \in sm[m].issued
              /\ r \in sm'[m].freed \/ (Async /\ r \in Observe /\ ~sm[m].abort))
  BY DEF CallsOwned
<1> HIDE DEF Apart
<1> QED  BY <1>2, <1>3, PortAlways, OwnAlways, TokenAlways, CallsOwnedAlways, PTL DEF Spec, CompletedOnce

-----------------------------------------------------------------------------
(***************************************************************************)
(* The machines implement RequestPort.                                     *)
(***************************************************************************)

\* What RequestPort sees of the machines.
PortHeld == [m \in SM |-> Held(sm[m])]
PortAbort == [m \in SM |-> sm[m].abort]
PortCalled == [response |-> called.response, timeout |-> called.timeout,
               aborted |-> called.aborted]

\* The same when one machine was replaced.
LEMMA PortView ==
    ASSUME TypeOK, NEW m \in SM, NEW u, sm' = [sm EXCEPT ![m] = u]
    PROVE  /\ PortHeld' = [PortHeld EXCEPT ![m] = Held(u)]
           /\ PortAbort' = [PortAbort EXCEPT ![m] = u.abort]
<1>1. \A x \in SM : sm'[x] = IF x = m THEN u ELSE sm[x]
  BY DEF TypeOK
<1>2. PortHeld' = [x \in SM |-> Held(sm'[x])] /\ PortAbort' = [x \in SM |-> sm'[x].abort]
  BY DEF PortHeld, PortAbort, Held
<1>3. /\ [PortHeld EXCEPT ![m] = Held(u)] = [x \in SM |-> IF x = m THEN Held(u) ELSE Held(sm[x])]
      /\ [PortAbort EXCEPT ![m] = u.abort] = [x \in SM |-> IF x = m THEN u.abort ELSE sm[x].abort]
  BY DEF PortHeld, PortAbort
<1> HIDE DEF PortHeld, PortAbort
<1>4. /\ \A x \in SM : Held(sm'[x]) = IF x = m THEN Held(u) ELSE Held(sm[x])
      /\ \A x \in SM : sm'[x].abort = IF x = m THEN u.abort ELSE sm[x].abort
  BY <1>1
<1> QED  BY <1>2, <1>3, <1>4

\* A call of the task is a PortTask of the requests it calls back.
LEMMA TickedTask ==
    ASSUME TypeOK, NEW m \in SM, NEW u, sm' = [sm EXCEPT ![m] = u],
           NEW p \in Req \cup {NULL}, NEW t \in Req \cup {NULL}, NEW a \in Req \cup {NULL},
           Ticked(sm[m], u, p, t, a),
           called'.response = p, called'.timeout = t, called'.aborted = a
    PROVE  Port!PortTask(m, p, t, a)
<1>1. PortHeld[m] = Held(sm[m]) /\ PortAbort[m] = sm[m].abort
  BY DEF PortHeld, PortAbort
<1>2. /\ PortHeld' = [PortHeld EXCEPT ![m] = Held(u)]
      /\ PortAbort' = [PortAbort EXCEPT ![m] = u.abort]
  BY PortView
<1>3. u.abort = sm[m].abort => PortAbort' = PortAbort
  BY <1>1, <1>2 DEF PortAbort
<1>4. PortCalled' = [response |-> p, timeout |-> t, aborted |-> a]
  BY DEF PortCalled
<1>5. PICK h1 \in IF p = NULL THEN {PortHeld[m]}
                  ELSE {PortHeld[m] \ {p}} \cup
                       (IF Async /\ p \in Observe /\ ~PortAbort[m] THEN {PortHeld[m]} ELSE {}) :
           \E h2 \in IF t = NULL THEN {h1} ELSE Port!LeftBy(h1, t, Async) :
           \E h3 \in IF a = NULL THEN {h2} ELSE Port!LeftBy(h2, a, TRUE) :
              /\ p # NULL => p \in PortHeld[m]
              /\ t # NULL => t \in h1 \ {p}
              /\ a # NULL => PortAbort[m] /\ a \in h2
              /\ Held(u) = h3
              /\ u.abort = sm[m].abort \/ (h3 = {} /\ a = NULL /\ u.abort = FALSE)
  BY <1>1 DEF Ticked
<1>6. \E h2 \in IF t = NULL THEN {h1} ELSE Port!LeftBy(h1, t, Async) :
      \E h3 \in IF a = NULL THEN {h2} ELSE Port!LeftBy(h2, a, TRUE) :
              /\ p # NULL => p \in PortHeld[m]
              /\ t # NULL => t \in h1 \ {p}
              /\ a # NULL => PortAbort[m] /\ a \in h2
              /\ PortHeld' = [PortHeld EXCEPT ![m] = h3]
              /\ \/ PortAbort' = PortAbort
                 \/ h3 = {} /\ a = NULL /\ PortAbort' = [PortAbort EXCEPT ![m] = FALSE]
              /\ PortCalled' = [response |-> p, timeout |-> t, aborted |-> a]
  BY <1>2, <1>3, <1>4, <1>5
<1> QED  BY <1>5, <1>6 DEF Port!PortTask, PortHeld, PortAbort, PortCalled

\* A step in which a machine keeps its requests and its flag is a PortTask too.
LEMMA QuietTask ==
    ASSUME TypeOK, NEW m \in SM, NEW u, sm' = [sm EXCEPT ![m] = u],
           Held(u) = Held(sm[m]), u.abort = sm[m].abort, called' = NoCalls
    PROVE  Port!PortTask(m, NULL, NULL, NULL)
<1>1. Ticked(sm[m], u, NULL, NULL, NULL)
  BY DEF Ticked
<1>2. called'.response = NULL /\ called'.timeout = NULL /\ called'.aborted = NULL
  BY DEF NoCalls
<1> QED  BY <1>1, <1>2, TickedTask

LEMMA PortSteps ==
    ASSUME PortInv, OwnInv, TokenInv, [Next]_vars
    PROVE  Port!PortNext \/ UNCHANGED <<PortHeld, PortAbort, PortCalled>>
<1>1. TypeOK
  BY DEF OwnInv
<1>2. ASSUME NEW m \in SM, Quiet(m) PROVE Port!PortNext
  <2>1. PICK u : sm' = [sm EXCEPT ![m] = u] /\ SameHeld(sm[m], u)
    BY <1>1, <1>2, QuietKeeps
  <2>2. called' = NoCalls
    BY <1>1, <1>2, QuietKeeps
  <2>3. Port!PortTask(m, NULL, NULL, NULL)
    BY <1>1, <2>1, <2>2, QuietTask DEF SameHeld
  <2> QED  BY <2>3 DEF Port!PortNext
<1>3. ASSUME NEW m \in SM, NEW net \in Net(sm[m]), TransmitTask(m, net)
      PROVE  Port!PortNext
  <2>1. Owns(sm[m]) /\ SocketOK(sm[m]) /\ Limited(sm[m]) /\ WireOK(sm[m])
    BY DEF OwnInv, TokenInv, PortInv
  <2>2. PICK u : /\ sm' = [sm EXCEPT ![m] = u]
                 /\ \E p, t, a \in Req \cup {NULL} :
                      /\ Ticked(sm[m], u, p, t, a)
                      /\ called'.response = p /\ called'.timeout = t /\ called'.aborted = a
    BY <1>1, <1>3, <2>1, TickLeaves
  <2>3. PICK p \in Req \cup {NULL}, t \in Req \cup {NULL}, a \in Req \cup {NULL} :
           Port!PortTask(m, p, t, a)
    BY <1>1, <2>2, TickedTask
  <2> QED  BY <2>3 DEF Port!PortNext
<1>4. ASSUME NEW m \in SM, NEW r \in Req, Transmit(m, r) PROVE Port!PortNext
  <2>1. PICK u : /\ sm' = [sm EXCEPT ![m] = u]
                 /\ u.abort = sm[m].abort
                 /\ Held(u) = Held(sm[m]) \cup {r}
    BY <1>1, <1>4, TransmitKeeps
  <2>2. called' = NoCalls /\ \A x \in SM : r \notin sm[x].issued
    BY <1>1, <1>4, TransmitKeeps
  <2>3. \A x \in SM : r \notin PortHeld[x]
    BY <2>2 DEF OwnInv, Owns, PortHeld
  <2>4. /\ PortHeld' = [PortHeld EXCEPT ![m] = @ \cup {r}]
        /\ PortAbort' = PortAbort
    <3>1. PortHeld[m] = Held(sm[m])
      BY DEF PortHeld
    <3>2. [PortAbort EXCEPT ![m] = sm[m].abort] = PortAbort
      BY DEF PortAbort
    <3>3. /\ PortHeld' = [PortHeld EXCEPT ![m] = Held(u)]
          /\ PortAbort' = [PortAbort EXCEPT ![m] = u.abort]
      BY <1>1, <2>1, PortView
    <3>4. PortAbort' = PortAbort
      BY <2>1, <3>2, <3>3
    <3>5. PortHeld' = [PortHeld EXCEPT ![m] = PortHeld[m] \cup {r}]
      BY <2>1, <3>1, <3>3
    <3> QED  BY <3>4, <3>5
  <2>5. PortCalled' = Port!NoCalls
    BY <2>2 DEF PortCalled, NoCalls, Port!NoCalls
  <2>6. Port!PortTransmit(m, r)
    BY <2>3, <2>4, <2>5 DEF Port!PortTransmit, PortHeld, PortAbort, PortCalled
  <2> QED  BY <2>6 DEF Port!PortNext
<1>5. ASSUME NEW m \in SM, Clear(m) PROVE Port!PortNext
  <2>1. PICK u : /\ sm' = [sm EXCEPT ![m] = u]
                 /\ u.abort = TRUE
                 /\ Held(u) = Held(sm[m])
    BY <1>1, <1>5, ClearKeeps
  <2>2. called' = NoCalls
    BY <1>1, <1>5, ClearKeeps
  <2>3. /\ PortHeld' = PortHeld
        /\ PortAbort' = [PortAbort EXCEPT ![m] = TRUE]
    <3>1. PortHeld = [PortHeld EXCEPT ![m] = Held(sm[m])]
      BY DEF PortHeld
    <3> QED  BY <1>1, <2>1, <3>1, PortView
  <2>4. PortCalled' = Port!NoCalls
    BY <2>2 DEF PortCalled, NoCalls, Port!NoCalls
  <2>5. Port!PortClear(m)
    BY <2>3, <2>4 DEF Port!PortClear, PortHeld, PortAbort, PortCalled
  <2> QED  BY <2>5 DEF Port!PortNext
<1>6. CASE ConnectElapse
  <2>1. start_time.by \in SM /\ sm' = sm /\ called' = NoCalls
    BY <1>1, <1>6 DEF ConnectElapse, TypeOK
  <2>2. PICK m \in SM : TRUE
    BY <2>1
  <2>3. sm' = [sm EXCEPT ![m] = sm[m]]
    BY <1>1, <2>1 DEF TypeOK
  <2>4. Port!PortTask(m, NULL, NULL, NULL)
    BY <1>1, <2>1, <2>3, QuietTask
  <2> QED  BY <2>4 DEF Port!PortNext
<1>7. CASE UNCHANGED vars
  BY <1>7 DEF vars, PortHeld, PortAbort, PortCalled, Held
<1> QED  BY <1>2, <1>3, <1>4, <1>5, <1>6, <1>7 DEF Next, Quiet

\* The machines do what exosite_api.c relies on (RequestPort): every request leaves by
\* a callback or is lost with the timeout or the abort of another one, and a clear
\* ends only when nothing is held.
THEOREM MachinesImplementPort == Spec => ImplementsPort
<1>1. Init => Port!PortInit
  <2> SUFFICES ASSUME Init PROVE Port!PortInit
    OBVIOUS
  <2>1. ASSUME NEW m \in SM PROVE Held(sm[m]) = {} /\ sm[m].abort = FALSE
    <3>1. PICK status \in Status : sm[m] = SmNew(status)
      BY DEF Init
    <3>2. /\ sm[m].queue = <<>> /\ sm[m].sent = <<>> /\ sm[m].active = NULL
          /\ sm[m].abort = FALSE
      BY <3>1 DEF SmNew
    <3> QED  BY <3>2 DEF Held, ToSet
  <2>2. PortHeld = [m \in SM |-> {}] /\ PortAbort = [m \in SM |-> FALSE]
    BY <2>1 DEF PortHeld, PortAbort
  <2>3. PortCalled = Port!NoCalls
    BY DEF Init, NoCalls, PortCalled, Port!NoCalls
  <2> QED  BY <2>2, <2>3 DEF Port!PortInit, PortHeld, PortAbort, PortCalled
<1>2. PortInv /\ OwnInv /\ TokenInv /\ [Next]_vars
         => [Port!PortNext]_<<[m \in SM |-> Held(sm[m])], [m \in SM |-> sm[m].abort],
                              [response |-> called.response, timeout |-> called.timeout,
                               aborted |-> called.aborted]>>
  BY PortSteps DEF PortHeld, PortAbort, PortCalled
<1> QED
  BY <1>1, <1>2, PortAlways, OwnAlways, TokenAlways, PTL DEF Spec, ImplementsPort, Port!PortSpec

=============================================================================
