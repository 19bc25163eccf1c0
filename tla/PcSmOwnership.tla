--------------------------- MODULE PcSmOwnership ---------------------------
(***************************************************************************)
(* Theorems about who owns a request in PcSm: it is in one place of one    *)
(* machine until it is called back for the last time and freed.            *)
(***************************************************************************)
EXTENDS PcSmProofs

-----------------------------------------------------------------------------
(***************************************************************************)
(* The elements of the lists, and that they stay distinct.                 *)
(***************************************************************************)

\* Popping the head of a list of distinct requests.
LEMMA TailElements ==
    ASSUME NEW q \in Seq(Req), q # <<>>
    PROVE  /\ Head(q) \in ToSet(q)
           /\ ToSet(Tail(q)) \subseteq ToSet(q)
           /\ Distinct(q) => Distinct(Tail(q)) /\ Head(q) \notin ToSet(Tail(q))
<1>1. /\ Len(q) \in Nat /\ Len(q) >= 1
      /\ Head(q) = q[1]
      /\ Tail(q) \in Seq(Req)
      /\ Len(Tail(q)) = Len(q) - 1
      /\ \A i \in 1 .. Len(Tail(q)) : Tail(q)[i] = q[i + 1]
  BY HeadTailProperties, EmptySeq
<1>2. DOMAIN q = 1 .. Len(q) /\ DOMAIN Tail(q) = 1 .. Len(q) - 1
  BY <1>1
<1> QED  BY <1>1, <1>2 DEF ToSet, Distinct

\* Unlinking a request from a list of distinct requests.
LEMMA RemoveElements ==
    ASSUME NEW q \in Seq(Req), NEW r, Distinct(q)
    PROVE  /\ Distinct(RemoveFirst(q, r))
           /\ ToSet(RemoveFirst(q, r)) = ToSet(q) \ {r}
<1> DEFINE t == RemoveFirst(q, r)
<1>1. CASE \E i \in 1 .. Len(q) : q[i] = r
  <2>1. PICK k \in 1 .. Len(q) :
           /\ q[k] = r
           /\ Len(t) = Len(q) - 1
           /\ \A i \in 1 .. Len(q) - 1 : t[i] = IF i < k THEN q[i] ELSE q[i + 1]
    BY <1>1, RemoveFirstProperties
  <2>2. t \in Seq(Req)
    BY RemoveFirstProperties
  <2> HIDE DEF t
  <2>3. DOMAIN q = 1 .. Len(q) /\ DOMAIN t = 1 .. Len(q) - 1 /\ Len(q) \in Nat
    BY <2>1, <2>2
  <2>4. \A i, j \in 1 .. Len(q) : i # j => q[i] # q[j]
    BY <2>3 DEF Distinct
  <2>5. ASSUME NEW i \in 1 .. Len(q) - 1, NEW j \in 1 .. Len(q) - 1, i # j
        PROVE  t[i] # t[j]
    BY <2>1, <2>3, <2>4, <2>5
  <2>6. ASSUME NEW i \in 1 .. Len(q) - 1 PROVE t[i] \in ToSet(q) \ {r}
    BY <2>1, <2>3, <2>4 DEF ToSet
  <2>7. ASSUME NEW i \in 1 .. Len(q), q[i] # r PROVE \E j \in 1 .. Len(q) - 1 : t[j] = q[i]
    <3>1. CASE i < k
      <4>1. i \in 1 .. Len(q) - 1 /\ t[i] = q[i]
        BY <2>1, <2>3, <3>1
      <4> QED  BY <4>1
    <3>2. CASE i > k
      <4>1. i - 1 \in 1 .. Len(q) - 1 /\ t[i - 1] = q[i]
        BY <2>1, <2>3, <3>2
      <4> QED  BY <4>1
    <3> QED  BY <2>1, <2>7, <3>1, <3>2
  <2>8. Distinct(t)
    BY <2>3, <2>5, Zenon DEF Distinct
  <2>9. ToSet(t) \subseteq ToSet(q) \ {r}
    BY <2>3, <2>6, Zenon DEF ToSet
  <2>10. ToSet(q) \ {r} \subseteq ToSet(t)
    BY <2>3, <2>7, Zenon DEF ToSet
  <2> QED  BY <2>8, <2>9, <2>10 DEF t
<1>2. CASE ~ (\E i \in 1 .. Len(q) : q[i] = r)
  <2>1. t = q
    BY <1>2, RemoveFirstProperties
  <2>2. r \notin ToSet(q)
    BY <1>2 DEF ToSet
  <2> QED  BY <2>1, <2>2
<1> QED  BY <1>1, <1>2

\* list_add: a new request at the front.
LEMMA PrependElements ==
    ASSUME NEW q \in Seq(Req), NEW r \in Req
    PROVE  /\ ToSet(<<r>> \o q) = ToSet(q) \cup {r}
           /\ Distinct(q) /\ r \notin ToSet(q) => Distinct(<<r>> \o q)
<1> DEFINE t == <<r>> \o q
<1>1. /\ t \in Seq(Req)
      /\ Len(t) = Len(q) + 1
      /\ \A i \in 1 .. Len(q) + 1 : t[i] = IF i <= 1 THEN r ELSE q[i - 1]
  <2>1. <<r>> \in Seq(Req) /\ Len(<<r>>) = 1 /\ <<r>>[1] = r
    OBVIOUS
  <2>2. /\ t \in Seq(Req) /\ Len(t) = Len(<<r>>) + Len(q)
        /\ \A i \in 1 .. Len(<<r>>) + Len(q) :
              t[i] = IF i <= Len(<<r>>) THEN <<r>>[i] ELSE q[i - Len(<<r>>)]
    BY <2>1, ConcatProperties
  <2> HIDE DEF t
  <2>3. ASSUME NEW i \in 1 .. Len(q) + 1 PROVE t[i] = IF i <= 1 THEN r ELSE q[i - 1]
    <3>1. Len(q) \in Nat
      OBVIOUS
    <3> QED  BY <2>1, <2>2, <3>1
  <2>4. Len(t) = Len(q) + 1
    BY <2>1, <2>2
  <2> QED  BY <2>2, <2>3, <2>4
<1>2. Len(q) \in Nat /\ DOMAIN q = 1 .. Len(q)
  OBVIOUS
<1>3. DOMAIN t = 1 .. Len(q) + 1
  BY <1>1, <1>2
<1> HIDE DEF t
<1>4. ASSUME NEW i \in 1 .. Len(q) PROVE i + 1 \in 1 .. Len(q) + 1 /\ t[i + 1] = q[i]
  BY <1>1, <1>2
<1>5. 1 \in 1 .. Len(q) + 1 /\ t[1] = r
  BY <1>1, <1>2
<1>6. ToSet(t) = ToSet(q) \cup {r}
  <2>1. ASSUME NEW i \in 1 .. Len(q) + 1 PROVE t[i] \in ToSet(q) \cup {r}
    BY <1>1, <1>2 DEF ToSet
  <2>2. ToSet(t) \subseteq ToSet(q) \cup {r}
    BY <1>3, <2>1, Zenon DEF ToSet
  <2>3. ToSet(q) \cup {r} \subseteq ToSet(t)
    BY <1>2, <1>3, <1>4, <1>5, Zenon DEF ToSet
  <2> QED  BY <2>2, <2>3
<1>7. ASSUME Distinct(q), r \notin ToSet(q) PROVE Distinct(t)
  <2>1. ASSUME NEW i \in 1 .. Len(q) + 1, NEW j \in 1 .. Len(q) + 1, i # j
        PROVE  t[i] # t[j]
    <3>1. CASE i > 1 /\ j > 1
      <4>1. /\ i - 1 \in 1 .. Len(q) /\ j - 1 \in 1 .. Len(q) /\ i - 1 # j - 1
            /\ t[i] = q[i - 1] /\ t[j] = q[j - 1]
        BY <1>1, <1>2, <2>1, <3>1
      <4> QED  BY <1>2, <1>7, <4>1 DEF Distinct
    <3>2. CASE i = 1
      <4>1. j - 1 \in 1 .. Len(q) /\ t[i] = r /\ t[j] = q[j - 1]
        BY <1>1, <1>2, <2>1, <3>2
      <4> QED  BY <1>2, <1>7, <4>1 DEF ToSet
    <3>3. CASE j = 1
      <4>1. i - 1 \in 1 .. Len(q) /\ t[j] = r /\ t[i] = q[i - 1]
        BY <1>1, <1>2, <2>1, <3>3
      <4> QED  BY <1>2, <1>7, <4>1 DEF ToSet
    <3> QED  BY <1>2, <3>1, <3>2, <3>3
  <2> QED  BY <1>3, <2>1 DEF Distinct
<1> QED  BY <1>6, <1>7 DEF t

\* cqueue_push_tail: a new request at the end.
LEMMA AppendElements ==
    ASSUME NEW q \in Seq(Req), NEW r \in Req
    PROVE  /\ ToSet(Append(q, r)) = ToSet(q) \cup {r}
           /\ Distinct(q) /\ r \notin ToSet(q) => Distinct(Append(q, r))
<1> DEFINE t == Append(q, r)
<1>1. /\ t \in Seq(Req)
      /\ Len(t) = Len(q) + 1
      /\ \A i \in 1 .. Len(q) : t[i] = q[i]
      /\ t[Len(q) + 1] = r
  BY AppendProperties
<1> HIDE DEF t
<1>2. Len(q) \in Nat /\ DOMAIN q = 1 .. Len(q) /\ DOMAIN t = 1 .. Len(q) + 1
  BY <1>1
<1>3. \A i \in 1 .. Len(q) + 1 : i \in 1 .. Len(q) \/ i = Len(q) + 1
  BY <1>2
<1>4. ToSet(t) = ToSet(q) \cup {r}
  <2>1. \A i \in 1 .. Len(q) : i \in 1 .. Len(q) + 1
    BY <1>2
  <2>2. Len(q) + 1 \in 1 .. Len(q) + 1
    BY <1>2
  <2> QED  BY <1>1, <1>2, <1>3, <2>1, <2>2, Zenon DEF ToSet
<1>5. ASSUME Distinct(q), r \notin ToSet(q) PROVE Distinct(t)
  BY <1>1, <1>2, <1>3, <1>5 DEF Distinct, ToSet
<1> QED  BY <1>4, <1>5 DEF t

-----------------------------------------------------------------------------
(***************************************************************************)
(* The stages of a tick.                                                   *)
(***************************************************************************)

\* One machine owns its requests once; what was freed it was given before.
Owns(s) ==
    /\ Distinct(s.queue) /\ Distinct(s.sent)
    /\ ToSet(s.queue) \cap ToSet(s.sent) = {}
    /\ s.active \notin ToSet(s.queue) \cup ToSet(s.sent)
    /\ Held(s) \subseteq s.issued \ s.freed
    /\ s.freed \subseteq s.issued

\* A stage that turns s into t, and completes the request r unless it is NULL.
Completes(s, t, r) ==
    /\ Owns(t)
    /\ t.issued = s.issued
    /\ s.freed \subseteq t.freed
    /\ t.freed \subseteq s.freed \cup ({r} \ {NULL})
    /\ r # NULL => r \in s.issued \ s.freed

\* A stage that does not look at the requests.
SameRequests(s, t) ==
    /\ t.queue = s.queue /\ t.active = s.active /\ t.sent = s.sent
    /\ t.issued = s.issued /\ t.freed = s.freed

LEMMA SameCompletes ==
    ASSUME NEW s, NEW t, Owns(s), SameRequests(s, t)
    PROVE  Completes(s, t, NULL)
BY DEF Owns, Completes, SameRequests, Held

LEMMA SameRefl ==
    ASSUME NEW s
    PROVE  SameRequests(s, s)
BY DEF SameRequests

\* A request is taken from the queue.
LEMMA NewTransmitOwns ==
    ASSUME NEW s, SmOK(s), Owns(s)
    PROVE  Completes(s, st_new_transmit(s), NULL)
<1> DEFINE t == st_new_transmit(s)
           u == [s EXCEPT !.active = Head(s.queue), !.queue = Tail(s.queue)]
<1> SUFFICES Completes(s, t, NULL)
  OBVIOUS
<1>1. /\ s.queue \in Seq(Req)
      /\ s.queue # <<>> => Head(s.queue) \in Req \cup {NULL} /\ Tail(s.queue) \in Seq(Req)
  BY HeadTailProperties DEF SmOK, SmType
<1>a. /\ u.queue = Tail(s.queue) /\ u.active = Head(s.queue) /\ u.sent = s.sent
      /\ u.issued = s.issued /\ u.freed = s.freed
  BY ZenonT(30) DEF SmOK, SmType
<1>b. t = s \/ (s.queue # <<>> /\ s.active = NULL /\ t = u)
  BY ZenonT(30) DEF st_new_transmit
<1>2. \/ t = s
      \/ /\ s.queue # <<>> /\ s.active = NULL
         /\ t.queue = Tail(s.queue) /\ t.active = Head(s.queue) /\ t.sent = s.sent
         /\ t.issued = s.issued /\ t.freed = s.freed
  BY <1>a, <1>b
<1> HIDE DEF t, u
<1>3. CASE t = s
  BY <1>3, SameRefl, SameCompletes
<1>4. CASE t # s
  <2>1. /\ Head(s.queue) \in ToSet(s.queue)
        /\ ToSet(Tail(s.queue)) \subseteq ToSet(s.queue)
        /\ Distinct(Tail(s.queue)) /\ Head(s.queue) \notin ToSet(Tail(s.queue))
    BY <1>1, <1>2, <1>4, TailElements DEF Owns
  <2>2. Owns(t)
    BY <1>2, <1>4, <2>1 DEF Owns, Held
  <2> QED  BY <1>2, <1>4, <2>2 DEF Completes
<1> QED  BY <1>3, <1>4

\* The connect stage only touches the connection.
LEMMA ConnectSame ==
    ASSUME NEW s, SmOK(s), NEW m, NEW net
    PROVE  SameRequests(s, st_connect(m, s, net).sm)
<1>1. ConnectWays(m, s, st_connect(m, s, net))
  BY ConnectCases
<1>2. 1 \in Int
  OBVIOUS
<1>3. Opened(s) \in SmType /\ SameRequests(s, Opened(s))
  BY <1>2, ZenonT(30) DEF SmOK, SmType, Opened, SameRequests
<1>4. SameRequests(Opened(s), Connected(s))
  BY <1>3, ZenonT(30) DEF SmType, Connected, SameRequests
<1> QED  BY <1>1, <1>3, <1>4 DEF ConnectWays, SameRequests

\* A request that was sent moves to the front of the sent list.
LEMMA SendOwns ==
    ASSUME NEW s, SmOK(s), Owns(s), NEW net
    PROVE  Completes(s, st_send_request(s, net), NULL)
<1> DEFINE t == st_send_request(s, net)
<1> SUFFICES Completes(s, t, NULL)
  OBVIOUS
<1>1. /\ s.sent \in Seq(Req) /\ s.active \in Req \cup {NULL}
      /\ NULL \in Req \cup {NULL}
  BY DEF SmOK, SmType
<1>2. \/ SameRequests(s, t)
      \/ /\ s.active # NULL
         /\ t.queue = s.queue /\ t.active = NULL /\ t.sent = <<s.active>> \o s.sent
         /\ t.issued = s.issued /\ t.freed = s.freed
  BY <1>1, ZenonT(60) DEF st_send_request, SmOK, SmType, SameRequests
<1> HIDE DEF t
<1>3. CASE SameRequests(s, t)
  BY <1>3, SameCompletes
<1>4. CASE ~SameRequests(s, t)
  <2>1. /\ ToSet(t.sent) = ToSet(s.sent) \cup {s.active}
        /\ Distinct(t.sent)
    <3>1. s.active \in Req /\ s.active \notin ToSet(s.sent) /\ Distinct(s.sent)
      BY <1>1, <1>2, <1>4 DEF Owns
    <3>2. t.sent = <<s.active>> \o s.sent
      BY <1>2, <1>4
    <3> QED  BY <1>1, <3>1, <3>2, PrependElements
  <2>2. NULL \notin ToSet(s.queue) \cup ToSet(t.sent)
    <3>1. s.queue \in Seq(Req)
      BY DEF SmOK, SmType
    <3>2. ToSet(s.queue) \subseteq Req /\ ToSet(s.sent) \subseteq Req
      BY <1>1, <3>1 DEF ToSet
    <3> QED  BY <1>1, <1>2, <1>4, <2>1, <3>2, ConstantsAssumption
  <2>3. Owns(t)
    BY <1>2, <1>4, <2>1, <2>2 DEF Owns, Held
  <2> QED  BY <1>2, <1>4, <2>3 DEF Completes
<1> QED  BY <1>3, <1>4

LEMMA RecvSame ==
    ASSUME NEW s, SmOK(s), NEW net
    PROVE  SameRequests(s, st_recv_response(s, net))
BY ZenonT(60) DEF st_recv_response, SmOK, SmType, SameRequests

\* The completion of a request that may still be linked in the sent list.
LEMMA CompleteOwns ==
    ASSUME NEW s, SmOK(s), Owns(s), NEW r \in Req, r \in s.issued \ s.freed,
           r \notin ToSet(s.queue), r # s.active
    PROVE  Completes(s, st_transmit_complete(s, r), r)
<1> DEFINE t == st_transmit_complete(s, r)
<1> SUFFICES Completes(s, t, r)
  OBVIOUS
<1>1. s.sent \in Seq(Req) /\ r # NULL
  BY ConstantsAssumption DEF SmOK, SmType
<1>2. \/ t = s
      \/ /\ t.queue = s.queue /\ t.active = s.active /\ t.sent = RemoveFirst(s.sent, r)
         /\ t.issued = s.issued /\ t.freed = s.freed \cup {r}
  BY ZenonT(60) DEF st_transmit_complete, SmOK, SmType
<1> HIDE DEF t
<1>3. CASE t = s
  BY <1>3 DEF Completes
<1>4. CASE t # s
  <2>1. /\ Distinct(t.sent)
        /\ ToSet(t.sent) = ToSet(s.sent) \ {r}
    BY <1>1, <1>2, <1>4, RemoveElements DEF Owns
  <2>2. Owns(t)
    BY <1>2, <1>4, <2>1 DEF Owns, Held
  <2> QED  BY <1>1, <1>2, <1>4, <2>2 DEF Completes
<1> QED  BY <1>3, <1>4

\* What FirstOf finds is a member of the sequence.
LEMMA FirstOfMember ==
    ASSUME NEW q \in Seq(Req), NEW S
    PROVE  FirstOf(q, S) = NULL \/ FirstOf(q, S) \in ToSet(q)
<1>1. DOMAIN q = 1 .. Len(q)
  OBVIOUS
<1> QED  BY <1>1, FirstOfProperties DEF ToSet

LEMMA AfterPairingOwns ==
    ASSUME NEW s, SmOK(s), Owns(s), NEW a
    PROVE  LET r == pair_request_to_response(s, a) IN
           Completes(s, AfterPairing(s, r), r)
<1> DEFINE r == pair_request_to_response(s, a)
<1> SUFFICES Completes(s, AfterPairing(s, r), r)
  OBVIOUS
<1>1. r = NULL \/ r \in ToSet(s.sent)
  BY FirstOfMember DEF pair_request_to_response, SmOK, SmType
<1>2. r \in Req \cup {NULL}
  BY PairType
<1> HIDE DEF r
<1>3. CASE r = NULL
  BY <1>3, SameRefl, SameCompletes DEF AfterPairing
<1>4. CASE r # NULL
  <2>1. r \in s.issued \ s.freed /\ r \notin ToSet(s.queue) /\ r # s.active
    BY <1>1, <1>4 DEF Owns, Held
  <2> QED  BY <1>2, <1>4, <2>1, CompleteOwns DEF AfterPairing
<1> QED  BY <1>3, <1>4

LEMMA AfterTimeoutOwns ==
    ASSUME NEW s, SmOK(s), Owns(s)
    PROVE  LET r == check_timeout(s) IN
           Completes(s, AfterTimeout(s, r), r)
<1> DEFINE r == check_timeout(s)
           t == [s EXCEPT !.active = NULL, !.timeouts = @ + 1]
<1> SUFFICES Completes(s, AfterTimeout(s, r), r)
  OBVIOUS
<1>1. /\ s.timeouts + 1 \in Int /\ NULL \in Req \cup {NULL}
      /\ s.queue \in Seq(Req) /\ s.sent \in Seq(Req)
  BY DEF SmOK, SmType
<1>2. r = NULL \/ r \in ToSet(s.sent) \/ r = s.active
  BY <1>1, FirstOfMember DEF check_timeout
<1>3. r \in Req \cup {NULL}
  BY CheckTimeoutType
<1>4. AfterTimeout(s, r) = IF r = NULL THEN s ELSE st_transmit_complete(t, r)
  BY ZenonT(30) DEF AfterTimeout
<1> HIDE DEF r
<1>5. /\ t \in SmType /\ t.sent_num = s.sent_num /\ t.state = s.state
      /\ t.queue = s.queue /\ t.active = NULL /\ t.sent = s.sent
      /\ t.issued = s.issued /\ t.freed = s.freed
  BY <1>1, ZenonT(30) DEF SmOK, SmType
<1> HIDE DEF t
<1>6. CASE r = NULL
  BY <1>4, <1>6, SameRefl, SameCompletes
<1>7. CASE r # NULL
  <2>1. ToSet(s.queue) \subseteq Req /\ ToSet(s.sent) \subseteq Req
    BY <1>1 DEF ToSet
  <2>2. Owns(t)
    BY <1>5, <2>1, ConstantsAssumption DEF Owns, Held
  <2>3. r \in t.issued \ t.freed /\ r \notin ToSet(t.queue) /\ r # t.active
    BY <1>2, <1>5, <1>7 DEF Owns, Held
  <2>4. SmOK(t)
    BY <1>5 DEF SmOK
  <2>5. Completes(t, st_transmit_complete(t, r), r)
    BY <1>3, <1>7, <2>2, <2>3, <2>4, CompleteOwns
  <2> QED  BY <1>4, <1>5, <1>7, <2>5 DEF Completes
<1> QED  BY <1>6, <1>7

LEMMA AfterAbortOwns ==
    ASSUME NEW s, SmOK(s), Owns(s)
    PROVE  LET r == abort_transfers(s) IN
           Completes(s, AfterAbort(s, r), r)
<1> DEFINE r == abort_transfers(s)
           t == [s EXCEPT !.active = NULL, !.queue = IF @ = <<>> THEN @ ELSE Tail(@)]
           u == [s EXCEPT !.abort = FALSE]
<1> SUFFICES Completes(s, AfterAbort(s, r), r)
  OBVIOUS
<1>1. /\ s.queue \in Seq(Req) /\ s.sent \in Seq(Req) /\ NULL \in Req \cup {NULL}
      /\ s.queue # <<>> => Tail(s.queue) \in Seq(Req)
  BY HeadTailProperties DEF SmOK, SmType
<1>2. \/ r = NULL
      \/ s.queue # <<>> /\ r = Head(s.queue)
      \/ s.queue = <<>> /\ s.sent # <<>> /\ r = Head(s.sent)
      \/ s.queue = <<>> /\ r = s.active
  BY DEF abort_transfers
<1>3. r \in Req \cup {NULL}
  BY AbortTransfersType
<1>4. AfterAbort(s, r) = IF r = NULL THEN u ELSE st_transmit_complete(t, r)
  BY ZenonT(30) DEF AfterAbort
<1> HIDE DEF r
<1>5. /\ t \in SmType /\ t.sent_num = s.sent_num /\ t.state = s.state
      /\ t.queue = IF s.queue = <<>> THEN <<>> ELSE Tail(s.queue)
      /\ t.active = NULL /\ t.sent = s.sent
      /\ t.issued = s.issued /\ t.freed = s.freed
  BY <1>1, ZenonT(30) DEF SmOK, SmType
<1>6. SameRequests(s, u)
  BY <1>1, ZenonT(30) DEF SmOK, SmType, SameRequests
<1> HIDE DEF t, u
<1>7. CASE r = NULL
  BY <1>4, <1>6, <1>7, SameCompletes
<1>8. CASE r # NULL
  <2>1. /\ ToSet(s.queue) \subseteq Req /\ ToSet(s.sent) \subseteq Req
    BY <1>1 DEF ToSet
  <2>2. s.queue # <<>> =>
           /\ Head(s.queue) \in ToSet(s.queue)
           /\ ToSet(Tail(s.queue)) \subseteq ToSet(s.queue)
           /\ Distinct(Tail(s.queue)) /\ Head(s.queue) \notin ToSet(Tail(s.queue))
    BY <1>1, TailElements DEF Owns
  <2>3. /\ ToSet(t.queue) \subseteq ToSet(s.queue)
        /\ Distinct(t.queue)
        /\ s.queue # <<>> => Head(s.queue) \notin ToSet(t.queue)
    BY <1>5, <2>2 DEF Owns
  <2>4. Owns(t)
    BY <1>5, <2>1, <2>3, ConstantsAssumption DEF Owns, Held
  <2>5. s.sent # <<>> => Head(s.sent) \in ToSet(s.sent)
    BY <1>1, TailElements
  <2>6. r \in s.issued \ s.freed
    BY <1>2, <1>8, <2>2, <2>5 DEF Owns, Held
  <2>7. r \notin ToSet(t.queue)
    <3>1. CASE s.queue # <<>>
      BY <1>2, <2>3, <3>1, <1>8
    <3>2. CASE s.queue = <<>>
      BY <1>5, <3>2 DEF ToSet
    <3> QED  BY <3>1, <3>2
  <2>8. SmOK(t)
    BY <1>5 DEF SmOK
  <2>9. Completes(t, st_transmit_complete(t, r), r)
    BY <1>3, <1>5, <1>8, <2>4, <2>6, <2>7, <2>8, CompleteOwns
  <2> QED  BY <1>4, <1>5, <1>8, <2>9 DEF Completes
<1> QED  BY <1>7, <1>8

LEMMA CloseSocketSame ==
    ASSUME NEW s, s \in SmType
    PROVE  SameRequests(s, close_socket(s))
BY ZenonT(30) DEF close_socket, SmType, SameRequests

LEMMA SettleSame ==
    ASSUME NEW s, SmOK(s), NEW next \in SmState, NEW done
    PROVE  SameRequests(s, Settle(s, next, done))
<1> DEFINE worn == s.timeouts > MaxTimeouts
           n == IF worn \/ done THEN "SM_RESET"
                ELSE IF next = "SM_CONNECT" THEN "SM_TRANSMIT" ELSE next
           k == IF worn THEN 0 ELSE s.timeouts
           t == [s EXCEPT !.timeouts = k, !.state = n]
<1>1. n \in SmState
  BY DEF SmState
<1>2. k \in Int
  BY DEF SmOK, SmType
<1>3. Settle(s, next, done) = IF n = "SM_RESET" THEN close_socket(t) ELSE t
  BY ZenonT(30) DEF Settle
<1> HIDE DEF n, k
<1>4. t \in SmType /\ SameRequests(s, t)
  BY <1>1, <1>2, ZenonT(30) DEF SmOK, SmType, SameRequests
<1> HIDE DEF t
<1> QED  BY <1>3, <1>4, CloseSocketSame DEF SameRequests

LEMMA CheckFailuresSame ==
    ASSUME NEW s, SmOK(s)
    PROVE  SameRequests(s, CheckFailures(s))
BY ZenonT(30) DEF CheckFailures, SmOK, SmType, SameRequests

-----------------------------------------------------------------------------
(***************************************************************************)
(* The invariant: every machine owns its requests once, and no request was *)
(* handed to two machines.                                                 *)
(***************************************************************************)
OwnInv ==
    /\ TypeOK
    /\ \A m \in SM : Owns(sm[m])
    /\ \A m, x \in SM : m # x => sm[m].issued \cap sm[x].issued = {}

\* What a step does to the callbacks: the first part of CompletedOnce.
CallsOwned ==
    \A m \in SM :
        /\ CalledBack' \cap sm[m].freed = {}
        /\ sm'[m].freed \ sm[m].freed \subseteq CalledBack'

\* The exchange of a tick takes a request from the queue or sends one.
LEMMA ExchangeOwns ==
    ASSUME TypeOK, NEW m \in SM, Owns(sm[m]), NEW net
    PROVE  Completes(sm[m], Exchange(m, sm[m], net).sm, NULL)
<1> DEFINE s == st_new_transmit(sm[m])
           c == st_connect(m, s, net)
           d == st_send_request(c.sm, net)
           e == st_recv_response(d, net)
           f == [c EXCEPT !.sm = e]
<1>1. SmOK(sm[m]) /\ connecting_sm \in SM \cup {NULL} /\ start_time \in StartType
  BY TypeOKBySm
<1>2. SmOK(s) /\ Completes(sm[m], s, NULL)
  BY <1>1, NewTransmitType, NewTransmitOwns
<1> HIDE DEF s
<1>3. ConnectOK(c) /\ SameRequests(s, c.sm)
  BY <1>1, <1>2, ConnectType, ConnectSame
<1>4. Exchange(m, sm[m], net) = IF c.next = "SM_TRANSMIT" THEN f ELSE c
  BY ZenonT(30) DEF Exchange, s
<1>5. c = [sm |-> c.sm, next |-> c.next, token |-> c.token, start |-> c.start]
  BY ZenonT(30) DEF st_connect
<1> HIDE DEF c
<1>6. SmOK(c.sm) /\ Completes(s, c.sm, NULL)
  BY <1>2, <1>3, SameCompletes DEF ConnectOK, Completes
<1>7. SmOK(d) /\ Completes(c.sm, d, NULL)
  BY <1>6, SendType, SendOwns DEF Completes
<1> HIDE DEF d
<1>8. SameRequests(d, e)
  BY <1>7, RecvSame
<1> HIDE DEF e
<1>9. Completes(d, e, NULL)
  BY <1>7, <1>8, SameCompletes DEF Completes
<1>10. f.sm = e
  BY <1>5, ZenonT(30)
<1> HIDE DEF f
<1>11. Completes(sm[m], c.sm, NULL) /\ Completes(sm[m], e, NULL)
  BY <1>2, <1>6, <1>7, <1>9 DEF Completes
<1> QED  BY <1>4, <1>10, <1>11

\* One machine is replaced by one that owns its requests: what it was given besides
\* was given to nobody before, what it called back was its own and not yet freed,
\* and what it freed it called back.
LEMMA OwnKept ==
    ASSUME OwnInv, TypeOK', NEW m \in SM, NEW s, sm' = [sm EXCEPT ![m] = s], Owns(s),
           \A x \in SM : (s.issued \ sm[m].issued) \cap sm[x].issued = {},
           CalledBack' \subseteq sm[m].issued \ sm[m].freed,
           s.freed \ sm[m].freed \subseteq CalledBack'
    PROVE  OwnInv' /\ CallsOwned
<1>1. \A x \in SM : sm'[x] = IF x = m THEN s ELSE sm[x]
  BY DEF OwnInv, TypeOK
<1>2. ASSUME NEW x \in SM PROVE Owns(sm'[x])
  BY <1>1 DEF OwnInv
<1>3. \A x \in SM : Owns(sm[x])'
  BY <1>2 DEF Owns, Held
<1>4. ASSUME NEW x \in SM, NEW y \in SM, x # y
      PROVE  sm'[x].issued \cap sm'[y].issued = {}
  BY <1>1, <1>4 DEF OwnInv
<1>5. OwnInv'
  BY <1>3, <1>4 DEF OwnInv
<1>6. ASSUME NEW x \in SM
      PROVE  /\ CalledBack' \cap sm[x].freed = {}
             /\ sm'[x].freed \ sm[x].freed \subseteq CalledBack'
  <2>1. CASE x = m
    BY <1>1, <2>1
  <2>2. CASE x # m
    <3>1. sm[x].freed \subseteq sm[x].issued /\ sm[m].issued \cap sm[x].issued = {}
      BY <2>2 DEF OwnInv, Owns
    <3> QED  BY <1>1, <2>2, <3>1
  <2> QED  BY <2>1, <2>2
<1> QED  BY <1>5, <1>6 DEF CallsOwned

\* A step that neither looks at the requests nor calls anybody back.
LEMMA OwnQuiet ==
    ASSUME OwnInv, TypeOK', NEW m \in SM, NEW s, sm' = [sm EXCEPT ![m] = s],
           SameRequests(sm[m], s), called' = NoCalls
    PROVE  OwnInv' /\ CallsOwned
<1>1. Owns(s) /\ s.issued = sm[m].issued /\ s.freed = sm[m].freed
  BY SameCompletes DEF OwnInv, Completes, SameRequests
<1>2. CalledBack' = {}
  BY DEF CalledBack, NoCalls
<1> QED  BY <1>1, <1>2, OwnKept

\* A tick in SM_TRANSMIT: the three requests it may call back were the machine's own,
\* and none of them was freed by an earlier stage.
LEMMA TickOwns ==
    ASSUME OwnInv, TypeOK', NEW m \in SM, NEW net \in Net(sm[m]), TransmitTask(m, net)
    PROVE  OwnInv' /\ CallsOwned
<1> DEFINE c == Exchange(m, sm[m], net)
           p == Paired(c, net)
           s1 == AfterPairing(c.sm, p)
           t == check_timeout(s1)
           s2 == AfterTimeout(s1, t)
           a == abort_transfers(s2)
           s3 == AfterAbort(s2, a)
           s4 == Settle(s3, c.next, s2.abort /\ a = NULL)
           s5 == CheckFailures(s4)
<1>1. /\ sm' = [sm EXCEPT ![m] = s5]
      /\ called'.response = p /\ called'.timeout = t /\ called'.aborted = a
  BY DEF TransmitTask
<1>2. ConnectOK(c) /\ Completes(sm[m], c.sm, NULL)
  BY ExchangeType, ExchangeOwns DEF OwnInv
<1> DEFINE q == pair_request_to_response(c.sm, net.answers)
<1>3. p = IF c.next = "SM_TRANSMIT" /\ net.recv = "ok" THEN q ELSE NULL
  BY DEF Paired
<1>4. q \in Req \cup {NULL} /\ Completes(c.sm, AfterPairing(c.sm, q), q)
  BY <1>2, PairType, AfterPairingOwns DEF ConnectOK, Completes
<1>5. AfterPairing(c.sm, NULL) = c.sm
  BY DEF AfterPairing
<1> HIDE DEF c, q, p
<1>6. p \in Req \cup {NULL} /\ Completes(c.sm, s1, p)
  <2>1. CASE p = q
    BY <1>4, <2>1
  <2>2. CASE p = NULL
    BY <1>2, <1>5, <2>2, SameRefl, SameCompletes DEF Completes
  <2> QED  BY <1>3, <2>1, <2>2
<1>7. SmOK(s1)
  BY <1>2, <1>6, AfterPairingType DEF ConnectOK
<1> HIDE DEF s1
<1>8. t \in Req \cup {NULL} /\ Completes(s1, s2, t)
  BY <1>6, <1>7, CheckTimeoutType, AfterTimeoutOwns DEF Completes
<1>9. SmOK(s2)
  BY <1>7, <1>8, AfterTimeoutType
<1> HIDE DEF t, s2
<1>10. a \in Req \cup {NULL} /\ Completes(s2, s3, a)
  BY <1>8, <1>9, AbortTransfersType, AfterAbortOwns DEF Completes
<1>11. SmOK(s3)
  BY <1>9, <1>10, AfterAbortType
<1> HIDE DEF a, s3
<1>12. SmOK(s4) /\ SameRequests(s3, s4)
  BY <1>2, <1>11, SettleType, SettleSame DEF ConnectOK
<1> HIDE DEF s4
<1>13. SameRequests(s4, s5)
  BY <1>12, CheckFailuresSame
<1> HIDE DEF s5
<1>14. SameRequests(s3, s5)
  BY <1>12, <1>13 DEF SameRequests
<1>15. Completes(s3, s5, NULL)
  BY <1>10, <1>14, SameCompletes DEF Completes
<1>16. Owns(s5) /\ s5.issued = sm[m].issued
  BY <1>2, <1>6, <1>8, <1>10, <1>15 DEF Completes
<1>17. CalledBack' = {p, t, a} \ {NULL}
  BY <1>1 DEF CalledBack
<1>18. CalledBack' \subseteq sm[m].issued \ sm[m].freed
  BY <1>2, <1>6, <1>8, <1>10, <1>17 DEF Completes
<1>19. s5.freed \ sm[m].freed \subseteq CalledBack'
  BY <1>2, <1>6, <1>8, <1>10, <1>15, <1>17 DEF Completes
<1> QED  BY <1>1, <1>16, <1>18, <1>19, OwnKept

LEMMA OwnInit ==
    ASSUME Init
    PROVE  OwnInv
<1>1. TypeOK
  BY TypeInit
<1>2. ASSUME NEW m \in SM PROVE Owns(sm[m]) /\ sm[m].issued = {}
  <2>1. PICK status \in Status : sm[m] = SmNew(status)
    BY DEF Init
  <2>2. /\ sm[m].queue = <<>> /\ sm[m].sent = <<>> /\ sm[m].active = NULL
        /\ sm[m].issued = {} /\ sm[m].freed = {}
    BY <2>1 DEF SmNew
  <2>3. ToSet(<<>>) = {} /\ Distinct(<<>>)
    BY DEF ToSet, Distinct
  <2> QED  BY <2>2, <2>3 DEF Owns, Held
<1> QED  BY <1>1, <1>2 DEF OwnInv

\* Every step keeps the invariant and calls back only requests that are owned.
LEMMA OwnNext ==
    ASSUME OwnInv, TypeOK', [Next]_vars
    PROVE  OwnInv' /\ (CallsOwned \/ UNCHANGED vars)
<1>1. \A m \in SM : SmOK(sm[m])
  BY TypeOKBySm DEF OwnInv
<1>2. ASSUME NEW m \in SM, ResetTask(m) PROVE OwnInv' /\ CallsOwned
  <2> DEFINE k == close_socket(sm[m])
             t == [k EXCEPT !.reset_due = FALSE, !.state = "SM_TRANSMIT"]
             r == st_reset(sm[m])
  <2>1. SmOK(k) /\ SameRequests(sm[m], k)
    BY <1>1, CloseSocketType, CloseSocketSame DEF SmOK
  <2>2. r = IF sm[m].reset_due THEN t ELSE sm[m]
    BY ZenonT(30) DEF st_reset
  <2> HIDE DEF k
  <2>3. SameRequests(k, t)
    BY <2>1, ZenonT(30) DEF SameRequests, SmOK, SmType
  <2> HIDE DEF t
  <2>4. SmOK(r)
    BY <1>1, ResetType
  <2> HIDE DEF r
  <2>5. SameRequests(r, CheckFailures(r))
    BY <2>4, CheckFailuresSame
  <2>6. SameRequests(sm[m], CheckFailures(r))
    BY <2>1, <2>2, <2>3, <2>5 DEF SameRequests
  <2> QED  BY <1>2, <2>6, OwnQuiet DEF ResetTask, r
<1>3. ASSUME NEW m \in SM, FailureTask(m) PROVE OwnInv' /\ CallsOwned
  <2>1. SmOK(st_failure(sm[m]))
    BY <1>1, FailureType
  <2>2. SameRequests(sm[m], st_failure(sm[m]))
    BY <1>1, ZenonT(30) DEF SameRequests, st_failure, SmOK, SmType
  <2>3. SameRequests(sm[m], CheckFailures(st_failure(sm[m])))
    BY <2>1, <2>2, CheckFailuresSame DEF SameRequests
  <2> QED  BY <1>3, <2>3, OwnQuiet DEF FailureTask
<1>4. ASSUME NEW m \in SM, NEW r \in Req, Transmit(m, r) PROVE OwnInv' /\ CallsOwned
  <2> DEFINE s == [sm[m] EXCEPT !.queue = Append(@, r), !.issued = @ \cup {r}]
  <2>1. /\ sm' = [sm EXCEPT ![m] = s] /\ called' = NoCalls
        /\ \A x \in SM : r \notin sm[x].issued
    BY <1>4 DEF Transmit
  <2>2. /\ s.queue = Append(sm[m].queue, r) /\ s.issued = sm[m].issued \cup {r}
        /\ s.active = sm[m].active /\ s.sent = sm[m].sent /\ s.freed = sm[m].freed
    BY <1>1, ZenonT(30) DEF SmOK, SmType
  <2> HIDE DEF s
  <2>3. Owns(sm[m]) /\ sm[m].queue \in Seq(Req) /\ r # NULL
    BY <1>1, ConstantsAssumption DEF OwnInv, SmOK, SmType
  <2>4. r \notin Held(sm[m]) /\ r \notin sm[m].freed
    BY <2>1, <2>3 DEF Owns
  <2>5. r \notin ToSet(sm[m].queue) /\ r \notin ToSet(sm[m].sent) /\ r # sm[m].active
    BY <2>3, <2>4 DEF Held
  <2>6. ToSet(s.queue) = ToSet(sm[m].queue) \cup {r} /\ Distinct(s.queue)
    BY <2>2, <2>3, <2>5, AppendElements DEF Owns
  <2>7. Owns(s)
    BY <2>2, <2>3, <2>4, <2>5, <2>6 DEF Owns, Held
  <2>8. CalledBack' = {}
    BY <2>1 DEF CalledBack, NoCalls
  <2>9. \A x \in SM : (s.issued \ sm[m].issued) \cap sm[x].issued = {}
    BY <2>1, <2>2
  <2> QED  BY <2>1, <2>2, <2>7, <2>8, <2>9, OwnKept
<1>5. ASSUME NEW m \in SM, Clear(m) PROVE OwnInv' /\ CallsOwned
  <2> DEFINE s == [sm[m] EXCEPT !.abort = TRUE]
  <2>1. SameRequests(sm[m], s)
    BY <1>1, ZenonT(30) DEF SameRequests, SmOK, SmType
  <2>2. sm' = [sm EXCEPT ![m] = s] /\ called' = NoCalls
    BY <1>5 DEF Clear
  <2> HIDE DEF s
  <2> QED  BY <2>1, <2>2, OwnQuiet
<1>6. ASSUME NEW m \in SM, RequestElapse(m) PROVE OwnInv' /\ CallsOwned
  <2>1. PICK i \in DOMAIN InFlight(sm[m]) :
          sm' = [sm EXCEPT ![m].late = @ \cup {InFlight(sm[m])[i]}]
    BY <1>6, ZenonT(30) DEF RequestElapse
  <2> DEFINE r == InFlight(sm[m])[i]
             s == [sm[m] EXCEPT !.late = @ \cup {r}]
  <2>2. sm' = [sm EXCEPT ![m] = s] /\ called' = NoCalls
    BY <1>6, <2>1 DEF RequestElapse
  <2> HIDE DEF r
  <2>3. SameRequests(sm[m], s)
    BY <1>1, ZenonT(30) DEF SameRequests, SmOK, SmType
  <2> HIDE DEF s
  <2> QED  BY <2>2, <2>3, OwnQuiet
<1>7. ASSUME NEW m \in SM, ResetElapse(m) PROVE OwnInv' /\ CallsOwned
  <2> DEFINE s == [sm[m] EXCEPT !.reset_due = TRUE]
  <2>1. SameRequests(sm[m], s)
    BY <1>1, ZenonT(30) DEF SameRequests, SmOK, SmType
  <2>2. sm' = [sm EXCEPT ![m] = s] /\ called' = NoCalls
    BY <1>7 DEF ResetElapse
  <2> HIDE DEF s
  <2> QED  BY <2>1, <2>2, OwnQuiet
<1>8. CASE ConnectElapse
  <2>1. sm' = sm /\ called' = NoCalls
    BY <1>8 DEF ConnectElapse
  <2>2. CalledBack' = {}
    BY <2>1 DEF CalledBack, NoCalls
  <2> QED  BY <2>1, <2>2 DEF OwnInv, Owns, Held, CallsOwned
<1>9. CASE UNCHANGED vars
  BY <1>9 DEF vars, OwnInv, Owns, Held
<1> QED  BY <1>2, <1>3, <1>4, <1>5, <1>6, <1>7, <1>8, <1>9, TickOwns DEF Next

\* Every execution keeps the ownership invariant.
LEMMA OwnAlways == Spec => []OwnInv
<1>1. Init => OwnInv
  BY OwnInit
<1>2. OwnInv /\ TypeOK' /\ [Next]_vars => OwnInv'
  BY OwnNext
<1> QED  BY <1>1, <1>2, TypeCorrect, PTL DEF Spec

\* A request is in one place of one machine (queue, active_request or sent list) and
\* is gone from it once it was deleted, so no second completion can call it back.
THEOREM RequestsOwnedOnce == Spec => []OwnedOnce
<1>1. OwnInv => OwnedOnce
  BY DEF OwnInv, Owns, OwnedOnce
<1> QED  BY <1>1, OwnAlways, PTL

\* No callback is made for a request that was deleted before, by the same machine or
\* another, and what a call of the task deletes it calls back in that call.
LEMMA CallsOwnedAlways == Spec => [][CallsOwned]_vars
<1>1. OwnInv /\ TypeOK' /\ [Next]_vars => [CallsOwned]_vars
  BY OwnNext
<1> QED  BY <1>1, OwnAlways, TypeCorrect, PTL DEF Spec

=============================================================================
