----------------------------- MODULE PcSmProofs -----------------------------
(***************************************************************************)
(* Theorems about the protocol client state machines of PcSm, for every    *)
(* number of instances and requests and every configuration.               *)
(***************************************************************************)
EXTENDS PcSm, TLAPS, WellFoundedInduction, SequenceTheorems

-----------------------------------------------------------------------------
(***************************************************************************)
(* Sequences: what the list helpers return.                                *)
(***************************************************************************)

\* A non-empty set of natural numbers has a least element.
LEMMA LeastExists ==
    ASSUME NEW S \in SUBSET Nat, S # {}
    PROVE  \E x \in S : \A y \in S : x <= y
<1> DEFINE R == {ss \in Nat \X Nat : ss[1] < ss[2]}
<1>1. OpToRel(<, Nat) = R
  BY DEF OpToRel
<1>2. IsWellFoundedOn(R, Nat)
  BY <1>1, NatLessThanWellFounded
<1> HIDE DEF R
<1>3. PICK x \in S : \A y \in S : ~ (<<y, x>> \in R)
  BY <1>2, WFMin
<1>4. ASSUME NEW y \in S PROVE x <= y
  <2>1. ~ (<<y, x>> \in R)
    BY <1>3
  <2>2. x \in Nat /\ y \in Nat
    OBVIOUS
  <2>3. ~ (y < x)
    BY <2>1, <2>2 DEF R
  <2> QED  BY <2>2, <2>3
<1> QED  BY <1>4

\* FirstOf returns the first request of the sequence that lies in the set.
LEMMA FirstOfProperties ==
    ASSUME NEW q \in Seq(Req), NEW S
    PROVE  \/ FirstOf(q, S) = NULL
           \/ \E i \in 1 .. Len(q) : q[i] = FirstOf(q, S) /\ q[i] \in S
<1> DEFINE I == {i \in 1 .. Len(q) : q[i] \in S}
<1>1. CASE I = {}
  BY <1>1 DEF FirstOf, SelectInSeq
<1>2. CASE I # {}
  <2>1. PICK x \in I : \A y \in I : x <= y
    <3>1. I \in SUBSET Nat
      OBVIOUS
    <3> HIDE DEF I
    <3> QED  BY <1>2, <3>1, LeastExists
  <2>2. Min(I) \in I
    BY <2>1 DEF Min
  <2>3. FirstOf(q, S) = q[Min(I)]
    BY <1>2, <2>2 DEF FirstOf, SelectInSeq
  <2> QED  BY <2>2, <2>3
<1> QED  BY <1>1, <1>2

\* RemoveFirst drops one occurrence of an element and keeps the order of the others.
LEMMA RemoveFirstProperties ==
    ASSUME NEW q \in Seq(Req), NEW r
    PROVE  /\ RemoveFirst(q, r) \in Seq(Req)
           /\ ~ (\E i \in 1 .. Len(q) : q[i] = r) => RemoveFirst(q, r) = q
           /\ (\E i \in 1 .. Len(q) : q[i] = r) =>
                \E k \in 1 .. Len(q) :
                   /\ q[k] = r
                   /\ Len(RemoveFirst(q, r)) = Len(q) - 1
                   /\ \A i \in 1 .. Len(q) - 1 :
                        RemoveFirst(q, r)[i] = IF i < k THEN q[i] ELSE q[i + 1]
<1> DEFINE I == {i \in 1 .. Len(q) : q[i] = r}
<1>1. CASE I = {}
  BY <1>1 DEF RemoveFirst
<1>2. CASE I # {}
  <2> DEFINE k == Min(I)
             a == SubSeq(q, 1, k - 1)
             b == SubSeq(q, k + 1, Len(q))
  <2>1. PICK x \in I : \A y \in I : x <= y
    <3>1. I \in SUBSET Nat
      OBVIOUS
    <3> HIDE DEF I
    <3> QED  BY <1>2, <3>1, LeastExists
  <2>2. k \in I
    BY <2>1 DEF Min
  <2>3. RemoveFirst(q, r) = a \o b
    BY <1>2 DEF RemoveFirst, SelectInSeq, RemoveAt
  <2> HIDE DEF k
  <2>4. /\ k \in 1 .. Len(q)
        /\ q[k] = r
    BY <2>2
  <2>5. \A i \in 1 .. Len(q) : q[i] \in Req
    OBVIOUS
  <2>6. /\ a \in Seq(Req)
        /\ Len(a) = k - 1
        /\ \A i \in 1 .. k - 1 : a[i] = q[i]
    <3>1. \A i \in 1 .. k - 1 : q[i] \in Req
      BY <2>4, <2>5
    <3> QED  BY <2>4, <3>1, SubSeqProperties
  <2>7. /\ b \in Seq(Req)
        /\ Len(b) = Len(q) - k
        /\ \A i \in 1 .. Len(q) - k : b[i] = q[k + i]
    <3>1. \A i \in k + 1 .. Len(q) : q[i] \in Req
      BY <2>4, <2>5
    <3>2. /\ k + 1 \in Int
          /\ Len(q) \in Int
      BY <2>4
    <3>3. /\ b \in Seq(Req)
          /\ Len(b) = IF k + 1 <= Len(q) THEN Len(q) - (k + 1) + 1 ELSE 0
          /\ \A i \in 1 .. Len(q) - (k + 1) + 1 : b[i] = q[k + 1 + i - 1]
      BY <3>1, <3>2, SubSeqProperties
    <3> QED  BY <2>4, <3>3
  <2> HIDE DEF a, b
  <2>8. /\ a \o b \in Seq(Req)
        /\ Len(a \o b) = Len(q) - 1
        /\ \A i \in 1 .. Len(q) - 1 : (a \o b)[i] = IF i < k THEN q[i] ELSE q[i + 1]
    <3>1. /\ a \o b \in Seq(Req)
          /\ Len(a \o b) = Len(a) + Len(b)
          /\ \A i \in 1 .. Len(a) + Len(b) :
                (a \o b)[i] = IF i <= Len(a) THEN a[i] ELSE b[i - Len(a)]
      BY <2>6, <2>7, ConcatProperties
    <3> QED  BY <2>4, <2>6, <2>7, <3>1
  <2> QED  BY <1>2, <2>3, <2>4, <2>8
<1> QED  BY <1>1, <1>2

-----------------------------------------------------------------------------
(***************************************************************************)
(* Types: every function of the tick maps a well-typed instance to one.    *)
(***************************************************************************)
SmOK(s) == s \in SmType /\ s.sent_num >= 0 /\ s.state # "SM_CONNECT"

NetOK(net) ==
    /\ net.socket \in Result /\ net.connect \in Result
    /\ net.send \in Result /\ net.recv \in Result
    /\ net.answers \in Req \cup {NULL}
    /\ net.status \in BOOLEAN

LEMMA CloseSocketType ==
    ASSUME NEW s, SmOK(s)
    PROVE  SmOK(close_socket(s))
<1>1. <<>> \in Seq(Req) /\ 0 \in Int
  BY EmptySeq
<1>2. close_socket(s) \in SmType
  BY <1>1, ZenonT(30) DEF SmOK, SmType, close_socket
<1>3. close_socket(s).sent_num = s.sent_num /\ close_socket(s).state = s.state
  BY ZenonT(30) DEF SmOK, SmType, close_socket
<1> QED  BY <1>2, <1>3 DEF SmOK

LEMMA ResetType ==
    ASSUME NEW s, SmOK(s)
    PROVE  SmOK(st_reset(s))
<1>1. SmOK(close_socket(s))
  BY CloseSocketType
<1> DEFINE t == close_socket(s)
<1> HIDE DEF t
<1>2. CASE s.reset_due
  <2>1. st_reset(s) = [t EXCEPT !.reset_due = FALSE, !.state = "SM_TRANSMIT"]
    BY <1>2, ZenonT(30) DEF st_reset, t
  <2>2. "SM_TRANSMIT" \in SmState
    BY DEF SmState
  <2>3. [t EXCEPT !.reset_due = FALSE, !.state = "SM_TRANSMIT"] \in SmType
    BY <1>1, <2>2, ZenonT(30) DEF SmOK, SmType, t
  <2>4. /\ [t EXCEPT !.reset_due = FALSE, !.state = "SM_TRANSMIT"].sent_num = t.sent_num
        /\ [t EXCEPT !.reset_due = FALSE, !.state = "SM_TRANSMIT"].state = "SM_TRANSMIT"
    BY <1>1, ZenonT(30) DEF SmOK, SmType, t
  <2> QED  BY <1>1, <2>1, <2>3, <2>4 DEF SmOK, t
<1>3. CASE ~s.reset_due
  BY <1>3 DEF st_reset
<1> QED  BY <1>2, <1>3

LEMMA FailureType ==
    ASSUME NEW s, SmOK(s)
    PROVE  SmOK(st_failure(s))
<1>1. "SM_RESET" \in SmState /\ 0 \in Int
  BY DEF SmState
<1>2. st_failure(s) \in SmType
  BY <1>1, ZenonT(30) DEF SmOK, SmType, st_failure
<1>3. st_failure(s).sent_num = s.sent_num /\ st_failure(s).state = "SM_RESET"
  BY ZenonT(30) DEF SmOK, SmType, st_failure
<1> QED  BY <1>2, <1>3 DEF SmOK

LEMMA CheckFailuresType ==
    ASSUME NEW s, SmOK(s)
    PROVE  SmOK(CheckFailures(s))
<1>1. "SM_FAILURE" \in SmState
  BY DEF SmState
<1>2. CheckFailures(s) \in SmType
  BY <1>1, ZenonT(30) DEF SmOK, SmType, CheckFailures
<1>3. /\ CheckFailures(s).sent_num = s.sent_num
      /\ CheckFailures(s).state \in {s.state, "SM_FAILURE"}
  BY ZenonT(30) DEF SmOK, SmType, CheckFailures
<1> QED  BY <1>2, <1>3 DEF SmOK

LEMMA NewTransmitType ==
    ASSUME NEW s, SmOK(s)
    PROVE  /\ SmOK(st_new_transmit(s))
           /\ st_new_transmit(s).wire = s.wire
<1>1. s.queue # <<>> => Head(s.queue) \in Req \cup {NULL} /\ Tail(s.queue) \in Seq(Req)
  BY HeadTailProperties DEF SmOK, SmType
<1>2. st_new_transmit(s) \in SmType
  BY <1>1, ZenonT(30) DEF SmOK, SmType, st_new_transmit
<1>3. /\ st_new_transmit(s).sent_num = s.sent_num
      /\ st_new_transmit(s).state = s.state
      /\ st_new_transmit(s).wire = s.wire
  BY ZenonT(30) DEF SmOK, SmType, st_new_transmit
<1> QED  BY <1>2, <1>3 DEF SmOK

StartType == [by : SM \cup {NULL}, late : BOOLEAN]

\* What the connect stage hands on.
ConnectOK(c) ==
    /\ SmOK(c.sm)
    /\ c.next \in SmState
    /\ c.token \in SM \cup {NULL}
    /\ c.start \in StartType

\* The instance once its socket is open and its first attempt counted, the same
\* when the connect succeeded, and the start_time of the attempt.
Opened(s) == [s EXCEPT !.socket = TRUE, !.retry_cnt = IF @ = 0 THEN 1 ELSE @]
Connected(s) == [Opened(s) EXCEPT !.connected = TRUE]
Dated(m, s) == IF s.retry_cnt = 0 THEN [by |-> m, late |-> FALSE] ELSE start_time

LEMMA OpenedType ==
    ASSUME NEW s, SmOK(s)
    PROVE  /\ SmOK(Opened(s)) /\ Opened(s).wire = s.wire
           /\ SmOK(Connected(s)) /\ Connected(s).wire = s.wire
<1> DEFINE t == Opened(s)
           u == [t EXCEPT !.connected = TRUE]
<1>1. 1 \in Int
  OBVIOUS
<1>2. t \in SmType
  BY <1>1, ZenonT(30) DEF SmOK, SmType, Opened
<1>3. t.sent_num = s.sent_num /\ t.state = s.state /\ t.wire = s.wire
  BY ZenonT(30) DEF SmOK, SmType, Opened
<1> HIDE DEF t
<1>4. u \in SmType
  BY <1>2, ZenonT(30) DEF SmType
<1>5. u.sent_num = t.sent_num /\ u.state = t.state /\ u.wire = t.wire
  BY <1>2, ZenonT(30) DEF SmType
<1> QED  BY <1>2, <1>3, <1>4, <1>5 DEF SmOK, t, Connected

\* The ways out of the connect stage.
ConnectWays(m, s, c) ==
    \/ /\ ~connect_wait(m)
       /\ c.sm = s /\ c.next = "SM_CONNECT"
       /\ c.token = connecting_sm /\ c.start = start_time
    \/ /\ connect_wait(m) /\ ~s.socket
       /\ c.sm = s /\ c.next \in {"SM_CONNECT", "SM_RESET"}
       /\ c.token = m /\ c.start = start_time
    \/ /\ connect_wait(m) /\ s.connected
       /\ c.sm = s /\ c.next = "SM_TRANSMIT"
       /\ c.token = NULL /\ c.start = start_time
    \/ /\ connect_wait(m) /\ ~s.connected
       /\ c.sm = Connected(s) /\ c.next = "SM_TRANSMIT"
       /\ c.token = NULL /\ c.start = Dated(m, s)
    \/ /\ connect_wait(m) /\ ~s.connected
       /\ c.sm = Opened(s) /\ c.next = "SM_RESET"
       /\ c.token = NULL /\ c.start = Dated(m, s)
    \/ /\ connect_wait(m) /\ ~s.connected
       /\ c.sm = Opened(s) /\ c.next \in {"SM_CONNECT", "SM_RESET", "SM_FAILURE"}
       /\ c.token = m /\ c.start = Dated(m, s)

LEMMA ConnectCases ==
    ASSUME NEW m, NEW s, NEW net
    PROVE  ConnectWays(m, s, st_connect(m, s, net))
<1> DEFINE c == st_connect(m, s, net)
           next == IF ~Dated(m, s).late THEN "SM_CONNECT"
                   ELSE IF Opened(s).retry_cnt >= ConnectRetries THEN "SM_FAILURE" ELSE "SM_RESET"
<1>1. \/ /\ ~connect_wait(m)
         /\ c = [sm |-> s, next |-> "SM_CONNECT", token |-> connecting_sm, start |-> start_time]
      \/ /\ connect_wait(m) /\ ~s.socket
         /\ \E n \in {"SM_CONNECT", "SM_RESET"} :
               c = [sm |-> s, next |-> n, token |-> m, start |-> start_time]
      \/ /\ connect_wait(m) /\ s.connected
         /\ c = [sm |-> s, next |-> "SM_TRANSMIT", token |-> NULL, start |-> start_time]
      \/ /\ connect_wait(m) /\ ~s.connected
         /\ c = [sm |-> Connected(s), next |-> "SM_TRANSMIT",
                 token |-> NULL, start |-> Dated(m, s)]
      \/ /\ connect_wait(m) /\ ~s.connected
         /\ c = [sm |-> Opened(s), next |-> "SM_RESET", token |-> NULL, start |-> Dated(m, s)]
      \/ /\ connect_wait(m) /\ ~s.connected
         /\ c = [sm |-> Opened(s), token |-> m, start |-> Dated(m, s), next |-> next]
  BY ZenonT(60) DEF st_connect, Opened, Connected, Dated
<1>2. next \in {"SM_CONNECT", "SM_FAILURE", "SM_RESET"}
  OBVIOUS
<1> HIDE DEF next, c
<1>3. ConnectWays(m, s, c)
  BY <1>1, <1>2 DEF ConnectWays
<1> QED  BY <1>3 DEF c

LEMMA ConnectType ==
    ASSUME NEW m \in SM, NEW s, NEW net, SmOK(s),
           connecting_sm \in SM \cup {NULL}, start_time \in StartType
    PROVE  /\ ConnectOK(st_connect(m, s, net))
           /\ st_connect(m, s, net).sm.wire = s.wire
<1> DEFINE c == st_connect(m, s, net)
<1>1. ConnectWays(m, s, c)
  BY ConnectCases
<1> HIDE DEF c
<1>2. SmOK(c.sm) /\ c.sm.wire = s.wire
  BY <1>1, OpenedType DEF ConnectWays
<1>3. c.next \in SmState
  BY <1>1 DEF ConnectWays, SmState
<1>4. Dated(m, s) \in StartType
  BY ZenonT(30) DEF StartType, Dated
<1>5. c.token \in SM \cup {NULL} /\ c.start \in StartType
  BY <1>1, <1>4 DEF ConnectWays
<1> QED  BY <1>2, <1>3, <1>5 DEF ConnectOK, c

LEMMA SendType ==
    ASSUME NEW s, NEW net, SmOK(s)
    PROVE  /\ SmOK(st_send_request(s, net))
           /\ s.wire # <<>> => st_send_request(s, net).wire # <<>>
<1>1. /\ s.sent_num \in Int /\ s.failures \in Int /\ s.sent \in Seq(Req) /\ s.wire \in Seq(Req)
      /\ s.active \in Req \cup {NULL} /\ s.sent_num >= 0
  BY DEF SmOK, SmType
<1>2. /\ s.sent_num + 1 \in Int /\ s.sent_num + 1 >= 0
      /\ s.failures + 1 \in Int
      /\ NULL \in Req \cup {NULL}
  BY <1>1
<1>3. s.active # NULL => /\ <<s.active>> \o s.sent \in Seq(Req)
                         /\ Append(s.wire, s.active) \in Seq(Req)
                         /\ Append(s.wire, s.active) # <<>>
  BY <1>1, ConcatProperties, AppendProperties
<1> DEFINE t == st_send_request(s, net)
<1>4. t \in SmType
  BY <1>2, <1>3, ZenonT(60) DEF SmOK, SmType, st_send_request
<1>5. /\ t.sent_num \in {s.sent_num, s.sent_num + 1}
      /\ t.state = s.state
      /\ t.wire = s.wire \/ (s.active # NULL /\ t.wire = Append(s.wire, s.active))
  BY ZenonT(60) DEF SmOK, SmType, st_send_request
<1> HIDE DEF t
<1>6. t.sent_num >= 0 /\ t.state # "SM_CONNECT"
  BY <1>1, <1>2, <1>5 DEF SmOK
<1>7. s.wire # <<>> => t.wire # <<>>
  BY <1>3, <1>5
<1> QED  BY <1>4, <1>6, <1>7 DEF SmOK, t

LEMMA RecvType ==
    ASSUME NEW s, NEW net, SmOK(s), NetOK(net),
           net.recv = "ok" /\ ~Async => s.wire # <<>>
    PROVE  SmOK(st_recv_response(s, net))
<1>1. /\ s.failures + 1 \in Int
      /\ net.recv = "ok" /\ ~Async => Tail(s.wire) \in Seq(Req)
  BY HeadTailProperties DEF SmOK, SmType
<1>2. Async \in BOOLEAN /\ net.status \in BOOLEAN
  BY ConstantsAssumption DEF NetOK
<1> DEFINE t == st_recv_response(s, net)
<1>3. t \in SmType
  BY <1>1, <1>2, ZenonT(60) DEF SmOK, SmType, st_recv_response
<1>4. t.sent_num = s.sent_num /\ t.state = s.state
  BY ZenonT(60) DEF SmOK, SmType, st_recv_response
<1> QED  BY <1>3, <1>4 DEF SmOK

LEMMA CompleteType ==
    ASSUME NEW s, SmOK(s), NEW r \in Req
    PROVE  SmOK(st_transmit_complete(s, r))
<1>1. /\ s.sent \in Seq(Req) /\ s.sent_num \in Int /\ s.sent_num >= 0
      /\ s.late \in SUBSET Req /\ s.freed \in SUBSET Req
  BY DEF SmOK, SmType
<1> DEFINE n == IF s.sent_num # 0 THEN s.sent_num - 1 ELSE 0
           t == st_transmit_complete(s, r)
<1>2. n \in Int /\ n >= 0
  BY <1>1
<1>3. /\ RemoveFirst(s.sent, r) \in Seq(Req)
      /\ s.late \ {r} \in SUBSET Req
      /\ s.freed \cup {r} \in SUBSET Req
  BY <1>1, RemoveFirstProperties
<1>4. \/ t = s
      \/ t = [s EXCEPT !.sent = RemoveFirst(s.sent, r), !.freed = s.freed \cup {r},
                       !.late = s.late \ {r}, !.sent_num = n]
  BY ZenonT(30) DEF st_transmit_complete
<1> HIDE DEF n, t
<1>5. t \in SmType
  BY <1>2, <1>3, <1>4, ZenonT(60) DEF SmOK, SmType
<1>6. t.sent_num \in {s.sent_num, n} /\ t.state = s.state
  BY <1>4, ZenonT(60) DEF SmOK, SmType
<1> QED  BY <1>2, <1>5, <1>6 DEF SmOK, t

LEMMA PairType ==
    ASSUME NEW s, SmOK(s), NEW a
    PROVE  pair_request_to_response(s, a) \in Req \cup {NULL}
BY FirstOfProperties DEF pair_request_to_response, SmOK, SmType

LEMMA CheckTimeoutType ==
    ASSUME NEW s, SmOK(s)
    PROVE  check_timeout(s) \in Req \cup {NULL}
BY FirstOfProperties DEF check_timeout, SmOK, SmType

LEMMA AbortTransfersType ==
    ASSUME NEW s, SmOK(s)
    PROVE  abort_transfers(s) \in Req \cup {NULL}
BY HeadTailProperties DEF abort_transfers, SmOK, SmType

LEMMA AfterPairingType ==
    ASSUME NEW s, SmOK(s), NEW r \in Req \cup {NULL}
    PROVE  SmOK(AfterPairing(s, r))
BY CompleteType DEF AfterPairing

LEMMA AfterTimeoutType ==
    ASSUME NEW s, SmOK(s), NEW r \in Req \cup {NULL}
    PROVE  SmOK(AfterTimeout(s, r))
<1> DEFINE t == [s EXCEPT !.active = NULL, !.timeouts = @ + 1]
<1>1. s.timeouts + 1 \in Int /\ NULL \in Req \cup {NULL}
  BY DEF SmOK, SmType
<1>2. t \in SmType
  BY <1>1, ZenonT(30) DEF SmOK, SmType
<1>3. t.sent_num = s.sent_num /\ t.state = s.state
  BY ZenonT(30) DEF SmOK, SmType
<1>4. AfterTimeout(s, r) = IF r = NULL THEN s ELSE st_transmit_complete(t, r)
  BY ZenonT(30) DEF AfterTimeout
<1> HIDE DEF t
<1> QED  BY <1>2, <1>3, <1>4, CompleteType DEF SmOK

LEMMA AfterAbortType ==
    ASSUME NEW s, SmOK(s), NEW r \in Req \cup {NULL}
    PROVE  SmOK(AfterAbort(s, r))
<1> DEFINE t == [s EXCEPT !.active = NULL, !.queue = IF @ = <<>> THEN @ ELSE Tail(@)]
           u == [s EXCEPT !.abort = FALSE]
<1>1. /\ s.queue # <<>> => Tail(s.queue) \in Seq(Req)
      /\ NULL \in Req \cup {NULL}
  BY HeadTailProperties DEF SmOK, SmType
<1>2. t \in SmType /\ u \in SmType
  BY <1>1, ZenonT(30) DEF SmOK, SmType
<1>3. /\ t.sent_num = s.sent_num /\ t.state = s.state
      /\ u.sent_num = s.sent_num /\ u.state = s.state
  BY ZenonT(30) DEF SmOK, SmType
<1>4. AfterAbort(s, r) = IF r = NULL THEN u ELSE st_transmit_complete(t, r)
  BY ZenonT(30) DEF AfterAbort
<1> HIDE DEF t, u
<1> QED  BY <1>2, <1>3, <1>4, CompleteType DEF SmOK

LEMMA SettleType ==
    ASSUME NEW s, SmOK(s), NEW next \in SmState, NEW done
    PROVE  SmOK(Settle(s, next, done))
<1> DEFINE worn == s.timeouts > MaxTimeouts
           n == IF worn \/ done THEN "SM_RESET"
                ELSE IF next = "SM_CONNECT" THEN "SM_TRANSMIT" ELSE next
           k == IF worn THEN 0 ELSE s.timeouts
           t == [s EXCEPT !.timeouts = k, !.state = n]
<1>1. n \in SmState /\ n # "SM_CONNECT"
  BY DEF SmState
<1>2. k \in Int
  BY DEF SmOK, SmType
<1> HIDE DEF n, k
<1>3. t \in SmType
  BY <1>1, <1>2, ZenonT(30) DEF SmOK, SmType
<1>4. t.sent_num = s.sent_num /\ t.state = n
  BY ZenonT(30) DEF SmOK, SmType
<1>5. Settle(s, next, done) \in {t, close_socket(t)}
  BY ZenonT(30) DEF Settle, n, k
<1> HIDE DEF t
<1>6. SmOK(t)
  BY <1>1, <1>3, <1>4 DEF SmOK
<1> QED  BY <1>5, <1>6, CloseSocketType

-----------------------------------------------------------------------------
(***************************************************************************)
(* Type correctness.                                                       *)
(***************************************************************************)

\* The members of TypeOK with the instances stated by SmOK.
LEMMA TypeOKBySm ==
    TypeOK <=> /\ sm \in [SM -> SmType]
               /\ \A m \in SM : SmOK(sm[m])
               /\ connecting_sm \in SM \cup {NULL}
               /\ start_time \in StartType
               /\ called \in [response : Req \cup {NULL}, answers : Req \cup {NULL},
                              timeout : Req \cup {NULL}, aborted : Req \cup {NULL}]
               /\ clears \in [SM -> 0 .. MaxClears]
BY DEF TypeOK, SmOK, StartType

\* The same of the next state, whose instances are well-typed.
LEMMA TypeOKNext ==
    ASSUME sm' \in [SM -> SmType], \A m \in SM : SmOK(sm'[m]),
           connecting_sm' \in SM \cup {NULL}, start_time' \in StartType,
           called' \in [response : Req \cup {NULL}, answers : Req \cup {NULL},
                        timeout : Req \cup {NULL}, aborted : Req \cup {NULL}],
           clears' \in [SM -> 0 .. MaxClears]
    PROVE  TypeOK'
BY DEF TypeOK, SmOK, StartType

\* A step that leaves the token, start_time and clears alone and calls nobody back.
LEMMA TypeOKQuiet ==
    ASSUME TypeOK, NEW m \in SM, NEW s, SmOK(s), sm' = [sm EXCEPT ![m] = s],
           called' = NoCalls, UNCHANGED <<connecting_sm, start_time, clears>>
    PROVE  TypeOK'
<1>1. /\ sm' \in [SM -> SmType]
      /\ \A x \in SM : SmOK(sm'[x])
  BY TypeOKBySm DEF SmOK
<1>2. called' \in [response : Req \cup {NULL}, answers : Req \cup {NULL},
                   timeout : Req \cup {NULL}, aborted : Req \cup {NULL}]
  BY DEF NoCalls
<1> QED  BY <1>1, <1>2, TypeOKBySm, TypeOKNext

\* One instance is replaced by a well-typed one.
LEMMA UpdateType ==
    ASSUME TypeOK, NEW m \in SM, NEW s, SmOK(s), sm' = [sm EXCEPT ![m] = s]
    PROVE  /\ sm' \in [SM -> SmType]
           /\ \A x \in SM : SmOK(sm'[x])
BY TypeOKBySm DEF SmOK

LEMMA NetType ==
    ASSUME NEW s, SmOK(s), NEW net \in Net(s)
    PROVE  /\ NetOK(net)
           /\ net.recv = "ok" /\ ~Async => s.wire # <<>>
<1>1. \A q \in Seq(Req) : q # <<>> => Head(q) \in Req
  BY HeadTailProperties
<1>2. ToSet(s.wire) \subseteq Req
  BY DEF ToSet, SmOK, SmType
<1>3. Answerable(s) \subseteq Req
  BY <1>1, <1>2 DEF Answerable, SmOK, SmType
<1>4. Status \subseteq BOOLEAN
  BY DEF Status
<1> DEFINE socket == IF s.socket THEN {"ok"} ELSE Result
           connect == IF s.connected THEN {"ok"} ELSE Result
           send == IF s.active = NULL /\ s.queue = <<>> THEN {"ok"} ELSE Result
<1>5. socket \subseteq Result /\ connect \subseteq Result /\ send \subseteq Result
  BY DEF Result
<1>6. \/ net \in [socket : socket, connect : connect, send : send,
                  recv : {"block", "fail"}, answers : {NULL}, status : {FALSE}]
      \/ net \in [socket : socket, connect : connect, send : send,
                  recv : {"ok"}, answers : Answerable(s), status : Status]
  BY DEF Net
<1> HIDE DEF socket, connect, send
<1>7. /\ net.socket \in Result /\ net.connect \in Result
      /\ net.send \in Result /\ net.recv \in Result
  BY <1>5, <1>6 DEF Result
<1>8. net.answers \in Req \cup {NULL} /\ net.status \in BOOLEAN
  BY <1>3, <1>4, <1>6
<1>9. net.recv = "ok" /\ ~Async => s.wire # <<>>
  BY <1>6 DEF Answerable
<1> QED  BY <1>7, <1>8, <1>9 DEF NetOK

LEMMA ExchangeType ==
    ASSUME TypeOK, NEW m \in SM, NEW net \in Net(sm[m])
    PROVE  ConnectOK(Exchange(m, sm[m], net))
<1> DEFINE s == st_new_transmit(sm[m])
           c == st_connect(m, s, net)
           d == st_send_request(c.sm, net)
           e == st_recv_response(d, net)
<1>1. SmOK(sm[m]) /\ connecting_sm \in SM \cup {NULL} /\ start_time \in StartType
  BY TypeOKBySm
<1>2. NetOK(net) /\ (net.recv = "ok" /\ ~Async => sm[m].wire # <<>>)
  BY <1>1, NetType
<1>3. SmOK(s) /\ s.wire = sm[m].wire
  BY <1>1, NewTransmitType
<1> HIDE DEF s
<1>4. ConnectOK(c) /\ c.sm.wire = s.wire
  BY <1>1, <1>3, ConnectType
<1>5. Exchange(m, sm[m], net) = IF c.next = "SM_TRANSMIT" THEN [c EXCEPT !.sm = e] ELSE c
  BY ZenonT(30) DEF Exchange, s
<1>6. c = [sm |-> c.sm, next |-> c.next, token |-> c.token, start |-> c.start]
  BY ZenonT(30) DEF st_connect
<1> HIDE DEF c
<1>7. SmOK(d) /\ (c.sm.wire # <<>> => d.wire # <<>>)
  BY <1>4, SendType DEF ConnectOK
<1> HIDE DEF d
<1>8. SmOK(e)
  BY <1>2, <1>3, <1>4, <1>7, RecvType
<1> HIDE DEF e
<1> DEFINE f == [c EXCEPT !.sm = e]
<1>9. f.sm = e /\ f.next = c.next /\ f.token = c.token /\ f.start = c.start
  BY <1>6, ZenonT(30)
<1> HIDE DEF f
<1>10. ConnectOK(f)
  BY <1>4, <1>8, <1>9 DEF ConnectOK
<1> QED  BY <1>4, <1>5, <1>10 DEF f

LEMMA TypeInit ==
    ASSUME Init
    PROVE  TypeOK
<1>1. ASSUME NEW status \in Status PROVE SmOK(SmNew(status))
  <2>1. <<>> \in Seq(Req) /\ 0 \in Int /\ "SM_RESET" \in SmState /\ {} \in SUBSET Req
    BY EmptySeq DEF SmState
  <2>2. status \in BOOLEAN
    BY DEF Status
  <2>3. SmNew(status) \in SmType
    BY <2>1, <2>2, ZenonT(30) DEF SmNew, SmType
  <2>4. SmNew(status).sent_num = 0 /\ SmNew(status).state = "SM_RESET"
    BY DEF SmNew
  <2> QED  BY <2>3, <2>4 DEF SmOK
<1>2. \A m \in SM : SmOK(sm[m])
  BY <1>1 DEF Init
<1>3. sm \in [SM -> SmType]
  BY <1>1 DEF Init, SmOK
<1>4. start_time \in StartType
  BY DEF Init, StartType
<1>5. clears \in [SM -> 0 .. MaxClears]
  BY ConstantsAssumption DEF Init
<1> QED  BY <1>2, <1>3, <1>4, <1>5, TypeOKBySm DEF Init, NoCalls

\* The type invariant of the machines: sent_num stays natural (the ASSERT of
\* st_transmit_complete) and the task never stores the state SM_CONNECT.
THEOREM TypeCorrect == Spec => []TypeOK
<1>1. Init => TypeOK
  BY TypeInit
<1>2. TypeOK /\ [Next]_vars => TypeOK'
  <2> SUFFICES ASSUME TypeOK, [Next]_vars PROVE TypeOK'
    OBVIOUS
  <2>1. \A m \in SM : SmOK(sm[m])
    BY TypeOKBySm
  <2>2. ASSUME NEW m \in SM, ResetTask(m) PROVE TypeOK'
    <3>1. SmOK(CheckFailures(st_reset(sm[m])))
      BY <2>1, ResetType, CheckFailuresType
    <3> QED  BY <2>2, <3>1, TypeOKQuiet DEF ResetTask
  <2>3. ASSUME NEW m \in SM, FailureTask(m) PROVE TypeOK'
    <3>1. SmOK(CheckFailures(st_failure(sm[m])))
      BY <2>1, FailureType, CheckFailuresType
    <3> QED  BY <2>3, <3>1, TypeOKQuiet DEF FailureTask
  <2>4. ASSUME NEW m \in SM, NEW net \in Net(sm[m]), TransmitTask(m, net) PROVE TypeOK'
    <3> DEFINE c == Exchange(m, sm[m], net)
               p == Paired(c, net)
               s1 == AfterPairing(c.sm, p)
               t == check_timeout(s1)
               s2 == AfterTimeout(s1, t)
               a == abort_transfers(s2)
               s3 == AfterAbort(s2, a)
               s4 == CheckFailures(Settle(s3, c.next, s2.abort /\ a = NULL))
    <3>1. /\ sm' = [sm EXCEPT ![m] = s4]
          /\ connecting_sm' = c.token
          /\ start_time' = c.start
          /\ called' = [response |-> p, answers |-> IF p = NULL THEN NULL ELSE net.answers,
                        timeout |-> t, aborted |-> a]
          /\ clears' = clears
      BY <2>4 DEF TransmitTask
    <3>2. NetOK(net)
      BY <2>1, NetType
    <3>3. ConnectOK(c)
      BY ExchangeType
    <3> HIDE DEF c
    <3>4. p \in Req \cup {NULL}
      BY <3>3, PairType DEF Paired, ConnectOK
    <3> HIDE DEF p
    <3>5. SmOK(s1)
      BY <3>3, <3>4, AfterPairingType DEF ConnectOK
    <3> HIDE DEF s1
    <3>6. t \in Req \cup {NULL}
      BY <3>5, CheckTimeoutType
    <3> HIDE DEF t
    <3>7. SmOK(s2)
      BY <3>5, <3>6, AfterTimeoutType
    <3> HIDE DEF s2
    <3>8. a \in Req \cup {NULL}
      BY <3>7, AbortTransfersType
    <3> HIDE DEF a
    <3>9. SmOK(s3)
      BY <3>7, <3>8, AfterAbortType
    <3> HIDE DEF s3
    <3>10. SmOK(s4)
      BY <3>3, <3>9, SettleType, CheckFailuresType DEF ConnectOK
    <3> HIDE DEF s4
    <3>11. /\ sm' \in [SM -> SmType]
           /\ \A x \in SM : SmOK(sm'[x])
      BY <3>1, <3>10, UpdateType
    <3>12. called' \in [response : Req \cup {NULL}, answers : Req \cup {NULL},
                        timeout : Req \cup {NULL}, aborted : Req \cup {NULL}]
      BY <3>1, <3>2, <3>4, <3>6, <3>8 DEF NetOK
    <3> QED  BY <3>1, <3>3, <3>11, <3>12, TypeOKBySm, TypeOKNext DEF ConnectOK
  <2>5. ASSUME NEW m \in SM, NEW r \in Req, Transmit(m, r) PROVE TypeOK'
    <3> DEFINE s == [sm[m] EXCEPT !.queue = Append(@, r), !.issued = @ \cup {r}]
    <3>1. sm' = [sm EXCEPT ![m] = s]
      BY <2>5 DEF Transmit
    <3>2. Append(sm[m].queue, r) \in Seq(Req) /\ sm[m].issued \cup {r} \in SUBSET Req
      BY <2>1, AppendProperties DEF SmOK, SmType
    <3>3. s \in SmType
      BY <2>1, <3>2, ZenonT(30) DEF SmOK, SmType
    <3>4. s.sent_num = sm[m].sent_num /\ s.state = sm[m].state
      BY <2>1, ZenonT(30) DEF SmOK, SmType
    <3> HIDE DEF s
    <3>5. SmOK(s)
      BY <2>1, <3>3, <3>4 DEF SmOK
    <3> QED  BY <2>5, <3>1, <3>5, TypeOKQuiet DEF Transmit
  <2>6. ASSUME NEW m \in SM, Clear(m) PROVE TypeOK'
    <3> DEFINE s == [sm[m] EXCEPT !.abort = TRUE]
    <3>1. sm' = [sm EXCEPT ![m] = s]
      BY <2>6 DEF Clear
    <3>2. s \in SmType
      BY <2>1, ZenonT(30) DEF SmOK, SmType
    <3>3. s.sent_num = sm[m].sent_num /\ s.state = sm[m].state
      BY <2>1, ZenonT(30) DEF SmOK, SmType
    <3> HIDE DEF s
    <3>4. SmOK(s)
      BY <2>1, <3>2, <3>3 DEF SmOK
    <3>5. clears' \in [SM -> 0 .. MaxClears]
      BY <2>6, TypeOKBySm, ConstantsAssumption DEF Clear
    <3>6. /\ sm' \in [SM -> SmType]
          /\ \A x \in SM : SmOK(sm'[x])
      BY <3>1, <3>4, UpdateType
    <3> QED  BY <2>6, <3>5, <3>6, TypeOKBySm, TypeOKNext DEF Clear, NoCalls
  <2>7. ASSUME NEW m \in SM, RequestElapse(m) PROVE TypeOK'
    <3>1. PICK i \in DOMAIN InFlight(sm[m]) :
            sm' = [sm EXCEPT ![m].late = @ \cup {InFlight(sm[m])[i]}]
      BY <2>7, ZenonT(30) DEF RequestElapse
    <3> DEFINE r == InFlight(sm[m])[i]
               s == [sm[m] EXCEPT !.late = @ \cup {r}]
    <3>2. InFlight(sm[m]) \in Seq(Req)
      <4>1. sm[m].active \in Req \cup {NULL} /\ sm[m].sent \in Seq(Req)
        BY <2>1 DEF SmOK, SmType
      <4> QED  BY <4>1, ConcatProperties, EmptySeq DEF InFlight
    <3>3. r \in Req
      BY <3>2
    <3>4. sm' = [sm EXCEPT ![m] = s]
      BY <3>1
    <3> HIDE DEF r
    <3>5. sm[m].late \cup {r} \in SUBSET Req
      BY <2>1, <3>3 DEF SmOK, SmType
    <3>6. s \in SmType
      BY <2>1, <3>5, ZenonT(30) DEF SmOK, SmType
    <3>7. s.sent_num = sm[m].sent_num /\ s.state = sm[m].state
      BY <2>1, ZenonT(30) DEF SmOK, SmType
    <3> HIDE DEF s
    <3>8. SmOK(s)
      BY <2>1, <3>6, <3>7 DEF SmOK
    <3> QED  BY <2>7, <3>4, <3>8, TypeOKQuiet DEF RequestElapse
  <2>8. ASSUME NEW m \in SM, ResetElapse(m) PROVE TypeOK'
    <3> DEFINE s == [sm[m] EXCEPT !.reset_due = TRUE]
    <3>1. sm' = [sm EXCEPT ![m] = s]
      BY <2>8 DEF ResetElapse
    <3>2. s \in SmType
      BY <2>1, ZenonT(30) DEF SmOK, SmType
    <3>3. s.sent_num = sm[m].sent_num /\ s.state = sm[m].state
      BY <2>1, ZenonT(30) DEF SmOK, SmType
    <3> HIDE DEF s
    <3>4. SmOK(s)
      BY <2>1, <3>2, <3>3 DEF SmOK
    <3> QED  BY <2>8, <3>1, <3>4, TypeOKQuiet DEF ResetElapse
  <2>9. CASE ConnectElapse
    <3>1. start_time' \in StartType
      BY <2>9, TypeOKBySm DEF ConnectElapse, StartType
    <3> QED  BY <2>9, <3>1, TypeOKBySm, TypeOKNext DEF ConnectElapse, NoCalls
  <2>10. CASE UNCHANGED vars
    BY <2>10 DEF vars, TypeOK
  <2> QED  BY <2>2, <2>3, <2>4, <2>5, <2>6, <2>7, <2>8, <2>9, <2>10 DEF Next
<1> QED  BY <1>1, <1>2, PTL DEF Spec

-----------------------------------------------------------------------------
(***************************************************************************)
(* The connect token.  Only the connect stage and the closing of a socket  *)
(* touch the connection, and whoever opens a socket holds the token until  *)
(* it is connected or closed again.                                        *)
(***************************************************************************)
Linked(s, t) ==
    /\ t.socket = s.socket
    /\ t.connected = s.connected
    /\ t.retry_cnt = s.retry_cnt

\* Without a socket there is no connection and no attempt was counted.
SocketOK(s) == ~s.socket => ~s.connected /\ s.retry_cnt = 0

TokenInv ==
    /\ TypeOK
    /\ \A m \in SM : SocketOK(sm[m])
    /\ ConnectToken

LEMMA CloseSocketLink ==
    ASSUME NEW s, SmOK(s), SocketOK(s)
    PROVE  ~close_socket(s).socket /\ SocketOK(close_socket(s))
<1>1. CASE s.socket
  <2>1. /\ close_socket(s).socket = FALSE
        /\ close_socket(s).connected = FALSE
        /\ close_socket(s).retry_cnt = 0
    BY <1>1, ZenonT(30) DEF close_socket, SmOK, SmType
  <2> QED  BY <2>1 DEF SocketOK
<1>2. CASE ~s.socket
  BY <1>2 DEF close_socket
<1> QED  BY <1>1, <1>2

LEMMA NewTransmitLink ==
    ASSUME NEW s, SmOK(s)
    PROVE  Linked(s, st_new_transmit(s))
BY ZenonT(30) DEF Linked, st_new_transmit, SmOK, SmType

LEMMA SendLink ==
    ASSUME NEW s, SmOK(s), NEW net
    PROVE  Linked(s, st_send_request(s, net))
BY ZenonT(30) DEF Linked, st_send_request, SmOK, SmType

LEMMA RecvLink ==
    ASSUME NEW s, SmOK(s), NEW net
    PROVE  Linked(s, st_recv_response(s, net))
BY ZenonT(30) DEF Linked, st_recv_response, SmOK, SmType

LEMMA CompleteLink ==
    ASSUME NEW s, s \in SmType, NEW r
    PROVE  Linked(s, st_transmit_complete(s, r))
BY ZenonT(30) DEF Linked, st_transmit_complete, SmType

LEMMA AfterPairingLink ==
    ASSUME NEW s, SmOK(s), NEW r
    PROVE  Linked(s, AfterPairing(s, r))
BY CompleteLink DEF AfterPairing, Linked, SmOK

LEMMA AfterTimeoutLink ==
    ASSUME NEW s, SmOK(s), NEW r
    PROVE  Linked(s, AfterTimeout(s, r))
<1> DEFINE t == [s EXCEPT !.active = NULL, !.timeouts = @ + 1]
<1>1. s.timeouts + 1 \in Int /\ NULL \in Req \cup {NULL}
  BY DEF SmOK, SmType
<1>2. t \in SmType
  BY <1>1, ZenonT(30) DEF SmOK, SmType
<1>3. Linked(s, t)
  BY ZenonT(30) DEF Linked, SmOK, SmType
<1>4. AfterTimeout(s, r) = IF r = NULL THEN s ELSE st_transmit_complete(t, r)
  BY ZenonT(30) DEF AfterTimeout
<1> HIDE DEF t
<1> QED  BY <1>2, <1>3, <1>4, CompleteLink DEF Linked

LEMMA AfterAbortLink ==
    ASSUME NEW s, SmOK(s), NEW r
    PROVE  Linked(s, AfterAbort(s, r))
<1> DEFINE t == [s EXCEPT !.active = NULL, !.queue = IF @ = <<>> THEN @ ELSE Tail(@)]
           u == [s EXCEPT !.abort = FALSE]
<1>1. /\ s.queue # <<>> => Tail(s.queue) \in Seq(Req)
      /\ NULL \in Req \cup {NULL}
  BY HeadTailProperties DEF SmOK, SmType
<1>2. t \in SmType
  BY <1>1, ZenonT(30) DEF SmOK, SmType
<1>3. Linked(s, t) /\ Linked(s, u)
  BY ZenonT(30) DEF Linked, SmOK, SmType
<1>4. AfterAbort(s, r) = IF r = NULL THEN u ELSE st_transmit_complete(t, r)
  BY ZenonT(30) DEF AfterAbort
<1> HIDE DEF t, u
<1> QED  BY <1>2, <1>3, <1>4, CompleteLink DEF Linked

LEMMA CheckFailuresLink ==
    ASSUME NEW s, SmOK(s)
    PROVE  Linked(s, CheckFailures(s))
BY ZenonT(30) DEF Linked, CheckFailures, SmOK, SmType

\* The end of a tick closes the socket or leaves the connection alone, and closes it
\* whenever the machine goes to SM_RESET.
LEMMA SettleLink ==
    ASSUME NEW s, SmOK(s), SocketOK(s), NEW next \in SmState, NEW done
    PROVE  LET t == Settle(s, next, done) IN
           /\ SocketOK(t)
           /\ Linked(s, t) \/ ~t.socket
           /\ next = "SM_RESET" => ~t.socket
<1> DEFINE worn == s.timeouts > MaxTimeouts
           n == IF worn \/ done THEN "SM_RESET"
                ELSE IF next = "SM_CONNECT" THEN "SM_TRANSMIT" ELSE next
           k == IF worn THEN 0 ELSE s.timeouts
           t == [s EXCEPT !.timeouts = k, !.state = n]
<1>1. n \in SmState /\ n # "SM_CONNECT" /\ (next = "SM_RESET" => n = "SM_RESET")
  BY DEF SmState
<1>2. k \in Int
  BY DEF SmOK, SmType
<1>3. Settle(s, next, done) = IF n = "SM_RESET" THEN close_socket(t) ELSE t
  BY ZenonT(30) DEF Settle
<1> HIDE DEF n, k
<1>4. t \in SmType
  BY <1>1, <1>2, ZenonT(30) DEF SmOK, SmType
<1>5. Linked(s, t) /\ t.sent_num = s.sent_num /\ t.state = n
  BY ZenonT(30) DEF Linked, SmOK, SmType
<1> HIDE DEF t
<1>6. SmOK(t) /\ SocketOK(t)
  BY <1>1, <1>4, <1>5 DEF SmOK, SocketOK, Linked
<1>7. ~close_socket(t).socket /\ SocketOK(close_socket(t))
  BY <1>6, CloseSocketLink
<1> QED  BY <1>1, <1>3, <1>5, <1>6, <1>7

\* What the exchange of a tick does to the token, for the instance as it was (s).
TokenMoves(m, s, c) ==
    \/ c.token = connecting_sm /\ c.start = start_time /\ Linked(s, c.sm)
    \/ connect_wait(m) /\ ~c.sm.socket
    \/ connect_wait(m) /\ c.sm.connected
    \/ connect_wait(m) /\ c.next = "SM_RESET"
    \/ connect_wait(m) /\ c.token = m /\ c.start.by = m

\* The connect stage on its own.
LEMMA ConnectToken_st_connect ==
    ASSUME TokenInv, NEW m \in SM, NEW s, SmOK(s), Linked(sm[m], s), NEW net
    PROVE  LET c == st_connect(m, s, net) IN
           /\ SocketOK(c.sm)
           /\ TokenMoves(m, s, c)
<1> DEFINE c == st_connect(m, s, net)
<1>1. ConnectWays(m, s, c)
  BY ConnectCases
<1> HIDE DEF c
<1>2. SocketOK(sm[m]) /\ SocketOK(s)
  BY DEF TokenInv, SocketOK, Linked
<1>3. Opened(s).socket = TRUE /\ Opened(s) \in SmType
  <2>1. 1 \in Int
    OBVIOUS
  <2> QED  BY <2>1, ZenonT(30) DEF Opened, SmOK, SmType
<1>4. Connected(s).socket = TRUE /\ Connected(s).connected = TRUE
  BY <1>3, ZenonT(30) DEF Connected, SmType
<1>5. SocketOK(Opened(s)) /\ SocketOK(Connected(s))
  BY <1>3, <1>4 DEF SocketOK
<1>6. ~s.connected => s.retry_cnt = 0 \/ start_time.by = m
  <2>1. ASSUME ~s.connected, s.retry_cnt # 0 PROVE start_time.by = m
    <3>1. sm[m].socket /\ ~sm[m].connected
      BY <1>2, <2>1 DEF SocketOK, Linked
    <3> QED  BY <3>1 DEF TokenInv, ConnectToken
  <2> QED  BY <2>1
<1>7. ~s.connected => Dated(m, s).by = m
  <2>1. CASE s.retry_cnt = 0
    BY <2>1, ZenonT(30) DEF Dated
  <2>2. CASE s.retry_cnt # 0
    BY <1>6, <2>2 DEF Dated
  <2> QED  BY <2>1, <2>2
<1>8. SocketOK(c.sm)
  BY <1>1, <1>2, <1>5 DEF ConnectWays
<1>9. TokenMoves(m, s, c)
  <2>1. Linked(s, s)
    BY DEF Linked
  <2> QED  BY <1>1, <1>4, <1>7, <2>1 DEF ConnectWays, TokenMoves
<1> QED  BY <1>8, <1>9 DEF c

LEMMA ExchangeToken ==
    ASSUME TokenInv, NEW m \in SM, NEW net \in Net(sm[m])
    PROVE  LET c == Exchange(m, sm[m], net) IN
           /\ SocketOK(c.sm)
           /\ TokenMoves(m, sm[m], c)
<1> DEFINE s == st_new_transmit(sm[m])
           c == st_connect(m, s, net)
           d == st_send_request(c.sm, net)
           e == st_recv_response(d, net)
           f == [c EXCEPT !.sm = e]
<1>1. SmOK(sm[m]) /\ connecting_sm \in SM \cup {NULL} /\ start_time \in StartType
  BY TypeOKBySm DEF TokenInv
<1>2. SmOK(s) /\ Linked(sm[m], s)
  BY <1>1, NewTransmitType, NewTransmitLink
<1> HIDE DEF s
<1>3. ConnectOK(c) /\ SocketOK(c.sm) /\ TokenMoves(m, s, c)
  BY <1>1, <1>2, ConnectType, ConnectToken_st_connect
<1>4. TokenMoves(m, sm[m], c)
  BY <1>2, <1>3 DEF TokenMoves, Linked
<1>5. Exchange(m, sm[m], net) = IF c.next = "SM_TRANSMIT" THEN f ELSE c
  BY ZenonT(30) DEF Exchange, s
<1>6. c = [sm |-> c.sm, next |-> c.next, token |-> c.token, start |-> c.start]
  BY ZenonT(30) DEF st_connect
<1> HIDE DEF c
<1>7. SmOK(d) /\ Linked(c.sm, d)
  BY <1>3, SendType, SendLink DEF ConnectOK
<1> HIDE DEF d
<1>8. Linked(d, e)
  BY <1>7, RecvLink
<1> HIDE DEF e
<1>9. f.sm = e /\ f.next = c.next /\ f.token = c.token /\ f.start = c.start
  BY <1>6, ZenonT(30)
<1> HIDE DEF f
<1>10. SocketOK(f.sm) /\ TokenMoves(m, sm[m], f)
  BY <1>3, <1>4, <1>7, <1>8, <1>9 DEF SocketOK, TokenMoves, Linked
<1> QED  BY <1>3, <1>4, <1>5, <1>10

\* A step that replaces one instance and leaves the token and start_time alone keeps
\* the invariant when the connection of the instance is as before, or closed.
LEMMA TokenKept ==
    ASSUME TokenInv, TypeOK', NEW m \in SM, NEW s, sm' = [sm EXCEPT ![m] = s],
           SocketOK(s), Linked(sm[m], s) \/ ~s.socket,
           UNCHANGED <<connecting_sm, start_time>>
    PROVE  TokenInv'
<1>1. \A x \in SM : sm'[x] = IF x = m THEN s ELSE sm[x]
  BY DEF TokenInv, TypeOK
<1>2. ASSUME NEW x \in SM PROVE SocketOK(sm'[x])
  BY <1>1 DEF TokenInv
<1>3. ASSUME NEW x \in SM, sm'[x].socket, ~sm'[x].connected
      PROVE  connecting_sm' = x /\ start_time'.by = x
  BY <1>1, <1>3 DEF TokenInv, ConnectToken, Linked
<1>4. ConnectToken'
  BY <1>3 DEF ConnectToken
<1>5. \A x \in SM : SocketOK(sm[x])'
  BY <1>2 DEF SocketOK
<1> QED  BY <1>4, <1>5 DEF TokenInv

\* Every execution keeps the invariant of the token.
LEMMA TokenAlways == Spec => []TokenInv
<1>1. Init => TokenInv
  <2> SUFFICES ASSUME Init PROVE TokenInv
    OBVIOUS
  <2>1. TypeOK
    BY TypeInit
  <2>2. ASSUME NEW m \in SM PROVE ~sm[m].socket /\ ~sm[m].connected /\ sm[m].retry_cnt = 0
    <3>1. PICK status \in Status : sm[m] = SmNew(status)
      BY DEF Init
    <3> QED  BY <3>1 DEF SmNew
  <2> QED  BY <2>1, <2>2 DEF TokenInv, SocketOK, ConnectToken
<1>2. TokenInv /\ TypeOK' /\ [Next]_vars => TokenInv'
  <2> SUFFICES ASSUME TokenInv, TypeOK', [Next]_vars PROVE TokenInv'
    OBVIOUS
  <2>1. \A m \in SM : SmOK(sm[m]) /\ SocketOK(sm[m])
    BY TypeOKBySm DEF TokenInv
  <2>2. ASSUME NEW m \in SM, ResetTask(m) PROVE TokenInv'
    <3> DEFINE k == close_socket(sm[m])
               t == [k EXCEPT !.reset_due = FALSE, !.state = "SM_TRANSMIT"]
               r == st_reset(sm[m])
    <3>1. SmOK(k) /\ ~k.socket /\ SocketOK(k)
      BY <2>1, CloseSocketType, CloseSocketLink
    <3>2. r = IF sm[m].reset_due THEN t ELSE sm[m]
      BY ZenonT(30) DEF st_reset
    <3> HIDE DEF k
    <3>3. Linked(k, t)
      BY <3>1, ZenonT(30) DEF Linked, SmOK, SmType
    <3> HIDE DEF t
    <3>4. SmOK(r)
      BY <2>1, ResetType
    <3> HIDE DEF r
    <3>5. Linked(r, CheckFailures(r))
      BY <3>4, CheckFailuresLink
    <3>6. /\ SocketOK(CheckFailures(r))
          /\ Linked(sm[m], CheckFailures(r)) \/ ~CheckFailures(r).socket
      BY <2>1, <3>1, <3>2, <3>3, <3>5 DEF Linked, SocketOK
    <3> QED  BY <2>2, <3>6, TokenKept DEF ResetTask, r
  <2>3. ASSUME NEW m \in SM, FailureTask(m) PROVE TokenInv'
    <3>1. SmOK(st_failure(sm[m]))
      BY <2>1, FailureType
    <3>2. Linked(sm[m], st_failure(sm[m]))
      BY <2>1, ZenonT(30) DEF Linked, st_failure, SmOK, SmType
    <3>3. Linked(sm[m], CheckFailures(st_failure(sm[m])))
      BY <3>1, <3>2, CheckFailuresLink DEF Linked
    <3>4. SocketOK(CheckFailures(st_failure(sm[m])))
      BY <2>1, <3>3 DEF Linked, SocketOK
    <3> QED  BY <2>3, <3>3, <3>4, TokenKept DEF FailureTask
  <2>4. ASSUME NEW m \in SM, NEW net \in Net(sm[m]), TransmitTask(m, net) PROVE TokenInv'
    <3> DEFINE c == Exchange(m, sm[m], net)
               p == Paired(c, net)
               s1 == AfterPairing(c.sm, p)
               t == check_timeout(s1)
               s2 == AfterTimeout(s1, t)
               a == abort_transfers(s2)
               s3 == AfterAbort(s2, a)
               s4 == Settle(s3, c.next, s2.abort /\ a = NULL)
               s5 == CheckFailures(s4)
    <3>1. sm' = [sm EXCEPT ![m] = s5] /\ connecting_sm' = c.token /\ start_time' = c.start
      BY <2>4 DEF TransmitTask
    <3>2. ConnectOK(c) /\ SocketOK(c.sm) /\ TokenMoves(m, sm[m], c)
      BY ExchangeType, ExchangeToken DEF TokenInv
    <3> HIDE DEF c
    <3>3. p \in Req \cup {NULL}
      BY <3>2, PairType DEF Paired, ConnectOK
    <3> HIDE DEF p
    <3>4. SmOK(s1) /\ Linked(c.sm, s1)
      BY <3>2, <3>3, AfterPairingType, AfterPairingLink DEF ConnectOK
    <3> HIDE DEF s1
    <3>5. t \in Req \cup {NULL}
      BY <3>4, CheckTimeoutType
    <3> HIDE DEF t
    <3>6. SmOK(s2) /\ Linked(s1, s2)
      BY <3>4, <3>5, AfterTimeoutType, AfterTimeoutLink
    <3> HIDE DEF s2
    <3>7. a \in Req \cup {NULL}
      BY <3>6, AbortTransfersType
    <3> HIDE DEF a
    <3>8. SmOK(s3) /\ Linked(s2, s3)
      BY <3>6, <3>7, AfterAbortType, AfterAbortLink
    <3> HIDE DEF s3
    <3>9. Linked(c.sm, s3) /\ SocketOK(s3)
      BY <3>2, <3>4, <3>6, <3>8 DEF Linked, SocketOK
    <3>10. /\ SmOK(s4) /\ SocketOK(s4)
           /\ Linked(s3, s4) \/ ~s4.socket
           /\ c.next = "SM_RESET" => ~s4.socket
      BY <3>2, <3>8, <3>9, SettleType, SettleLink DEF ConnectOK
    <3> HIDE DEF s4
    <3>11. Linked(s4, s5)
      BY <3>10, CheckFailuresLink
    <3> HIDE DEF s5
    <3>12. /\ SocketOK(s5)
           /\ Linked(c.sm, s5) \/ ~s5.socket
           /\ c.next = "SM_RESET" => ~s5.socket
      BY <3>9, <3>10, <3>11 DEF Linked, SocketOK
    <3>13. \A x \in SM : sm'[x] = IF x = m THEN s5 ELSE sm[x]
      BY <3>1 DEF TokenInv, TypeOK
    <3>14. ASSUME NEW x \in SM, x # m, sm[x].socket, ~sm[x].connected
           PROVE  connecting_sm' = x /\ start_time'.by = x
      <4>1. connecting_sm = x /\ start_time.by = x
        BY <3>14 DEF TokenInv, ConnectToken
      <4>2. ~connect_wait(m)
        BY <3>14, <4>1, ConstantsAssumption DEF connect_wait
      <4> QED  BY <3>1, <3>2, <4>1, <4>2 DEF TokenMoves
    <3>15. ASSUME s5.socket, ~s5.connected
           PROVE  connecting_sm' = m /\ start_time'.by = m
      <4>1. c.sm.socket /\ ~c.sm.connected /\ c.next # "SM_RESET"
        BY <3>12, <3>15 DEF Linked
      <4>2. CASE c.token = connecting_sm /\ c.start = start_time /\ Linked(sm[m], c.sm)
        BY <3>1, <4>1, <4>2 DEF TokenInv, ConnectToken, Linked
      <4> QED  BY <3>1, <3>2, <4>1, <4>2 DEF TokenMoves
    <3>16. ConnectToken'
      BY <3>13, <3>14, <3>15 DEF ConnectToken
    <3>17. \A x \in SM : SocketOK(sm[x])'
      BY <2>1, <3>12, <3>13 DEF SocketOK
    <3> QED  BY <3>16, <3>17 DEF TokenInv
  <2>5. ASSUME NEW m \in SM, NEW s, sm' = [sm EXCEPT ![m] = s], Linked(sm[m], s),
               UNCHANGED <<connecting_sm, start_time>>
        PROVE  TokenInv'
    <3>1. SocketOK(s)
      BY <2>1, <2>5 DEF Linked, SocketOK
    <3> QED  BY <2>5, <3>1, TokenKept
  <2>6. ASSUME NEW m \in SM, NEW r \in Req, Transmit(m, r) PROVE TokenInv'
    <3> DEFINE s == [sm[m] EXCEPT !.queue = Append(@, r), !.issued = @ \cup {r}]
    <3>1. Linked(sm[m], s)
      BY <2>1, ZenonT(30) DEF Linked, SmOK, SmType
    <3>2. sm' = [sm EXCEPT ![m] = s] /\ UNCHANGED <<connecting_sm, start_time>>
      BY <2>6 DEF Transmit
    <3> HIDE DEF s
    <3> QED  BY <2>5, <3>1, <3>2
  <2>7. ASSUME NEW m \in SM, Clear(m) PROVE TokenInv'
    <3> DEFINE s == [sm[m] EXCEPT !.abort = TRUE]
    <3>1. Linked(sm[m], s)
      BY <2>1, ZenonT(30) DEF Linked, SmOK, SmType
    <3>2. sm' = [sm EXCEPT ![m] = s] /\ UNCHANGED <<connecting_sm, start_time>>
      BY <2>7 DEF Clear
    <3> HIDE DEF s
    <3> QED  BY <2>5, <3>1, <3>2
  <2>8. ASSUME NEW m \in SM, RequestElapse(m) PROVE TokenInv'
    <3>1. PICK i \in DOMAIN InFlight(sm[m]) :
            sm' = [sm EXCEPT ![m].late = @ \cup {InFlight(sm[m])[i]}]
      BY <2>8, ZenonT(30) DEF RequestElapse
    <3> DEFINE r == InFlight(sm[m])[i]
               s == [sm[m] EXCEPT !.late = @ \cup {r}]
    <3>2. sm' = [sm EXCEPT ![m] = s] /\ UNCHANGED <<connecting_sm, start_time>>
      BY <2>8, <3>1 DEF RequestElapse
    <3> HIDE DEF r
    <3>3. Linked(sm[m], s)
      BY <2>1, ZenonT(30) DEF Linked, SmOK, SmType
    <3> HIDE DEF s
    <3> QED  BY <2>5, <3>2, <3>3
  <2>9. ASSUME NEW m \in SM, ResetElapse(m) PROVE TokenInv'
    <3> DEFINE s == [sm[m] EXCEPT !.reset_due = TRUE]
    <3>1. Linked(sm[m], s)
      BY <2>1, ZenonT(30) DEF Linked, SmOK, SmType
    <3>2. sm' = [sm EXCEPT ![m] = s] /\ UNCHANGED <<connecting_sm, start_time>>
      BY <2>9 DEF ResetElapse
    <3> HIDE DEF s
    <3> QED  BY <2>5, <3>1, <3>2
  <2>10. CASE ConnectElapse
    <3>1. start_time'.by = start_time.by /\ UNCHANGED <<sm, connecting_sm>>
      BY <2>10 DEF ConnectElapse, TokenInv, TypeOK
    <3> QED  BY <3>1 DEF TokenInv, ConnectToken, SocketOK
  <2>11. CASE UNCHANGED vars
    BY <2>11 DEF vars, TokenInv, ConnectToken, SocketOK
  <2> QED  BY <2>2, <2>3, <2>4, <2>6, <2>7, <2>8, <2>9, <2>10, <2>11 DEF Next
<1> QED  BY <1>1, <1>2, TypeCorrect, PTL DEF Spec

\* Two machines never connect at once: whoever has a socket that is open but not
\* connected holds connecting_sm, and the shared static start_time is its own.
THEOREM TokenExcludes == Spec => []ConnectToken
<1>1. TokenInv => ConnectToken
  BY DEF TokenInv
<1> QED  BY <1>1, TokenAlways, PTL

=============================================================================
