---------------------- MODULE ConfiguratorServerProofs ----------------------
(***************************************************************************)
(* Theorems about the web server, for any number of slots and browsers and *)
(* whatever the browsers send.                                             *)
(***************************************************************************)
EXTENDS ConfiguratorServer, TLAPS, FiniteSetTheorems, SequenceTheorems

-----------------------------------------------------------------------------
(***************************************************************************)
(* The parser, whose states after every chunk are a recursive function.    *)
(***************************************************************************)

\* A set that has 0 and with every number the next one has them all: the finite sets of numbers
\* below those that are missing would have a smallest one.
LEMMA SetInduction ==
    ASSUME NEW S, 0 \in S, \A n \in Nat : n \in S => n + 1 \in S
    PROVE  Nat \subseteq S
<1> SUFFICES ASSUME NEW k \in Nat, k \notin S PROVE FALSE
  OBVIOUS
<1> DEFINE T == {U \in FiniteSubsetsOf(Nat) : \E n \in Nat : n \notin S /\ U = 0 .. n - 1}
<1>1. \A n \in Nat : 0 .. n - 1 \in FiniteSubsetsOf(Nat)
  <2> SUFFICES ASSUME NEW n \in Nat PROVE 0 .. n - 1 \in FiniteSubsetsOf(Nat)
    OBVIOUS
  <2>1. n - 1 \in Int
    OBVIOUS
  <2>2. IsFiniteSet(0 .. n - 1)
    BY <2>1, FS_Interval
  <2>3. 0 .. n - 1 \subseteq Nat
    OBVIOUS
  <2> QED  BY <2>2, <2>3 DEF FiniteSubsetsOf
<1>2. 0 .. k - 1 \in T
  BY <1>1
<1>3. PICK U \in T : \A V \in T : ~ (<<V, U>> \in StrictSubsetOrdering(Nat))
  <2>1. T \subseteq FiniteSubsetsOf(Nat) /\ T # {}
    BY <1>2
  <2> HIDE DEF T
  <2> QED  BY <2>1, FS_StrictSubsetOrderingWellFounded, WFMin
<1>4. PICK n \in Nat : n \notin S /\ U = 0 .. n - 1
  BY <1>3
<1>5. n - 1 \in Nat /\ n - 1 \notin S
  <2>1. n # 0
    BY <1>4
  <2>2. n - 1 \in Nat /\ (n - 1) + 1 = n
    BY <2>1
  <2> QED  BY <1>4, <2>2
<1>6. 0 .. (n - 1) - 1 \in T
  BY <1>1, <1>5
<1>7. <<0 .. (n - 1) - 1, U>> \in StrictSubsetOrdering(Nat)
  <2>1. 0 .. (n - 1) - 1 \subseteq 0 .. n - 1 /\ 0 .. (n - 1) - 1 \in SUBSET Nat /\ 0 .. n - 1 \in SUBSET Nat
    BY <1>5
  <2>2. n - 1 \in 0 .. n - 1 /\ n - 1 \notin 0 .. (n - 1) - 1
    BY <1>5
  <2> QED  BY <1>4, <2>1, <2>2 DEF StrictSubsetOrdering
<1> QED  BY <1>3, <1>6, <1>7

\* The states of the slot s after the first n chunks and before.
IsParse(after, s, chunks, oom, n) ==
    after = [i \in 0 .. n |-> IF i = 0 THEN s ELSE Parsed(after[i - 1], chunks[i], oom)]

LEMMA ParseExists ==
    ASSUME NEW s, NEW chunks, NEW oom
    PROVE  \A n \in Nat : \E f : IsParse(f, s, chunks, oom, n)
<1> DEFINE S == {n \in Nat : \E f : IsParse(f, s, chunks, oom, n)}
           P(t, i) == Parsed(t, chunks[i], oom)
<1>1. 0 \in S
  <2> DEFINE f == [i \in 0 .. 0 |-> s]
  <2>1. f = [i \in 0 .. 0 |-> IF i = 0 THEN s ELSE P(f[i - 1], i)]
    OBVIOUS
  <2> QED  BY <2>1 DEF IsParse
<1>2. ASSUME NEW n \in Nat, n \in S
      PROVE  n + 1 \in S
  <2>1. PICK f : IsParse(f, s, chunks, oom, n)
    BY <1>2
  <2>2. f = [i \in 0 .. n |-> IF i = 0 THEN s ELSE P(f[i - 1], i)]
    BY <2>1 DEF IsParse
  <2> DEFINE g == [i \in 0 .. n + 1 |-> IF i = n + 1 THEN P(f[n], i) ELSE f[i]]
  <2>3. \A i \in 0 .. n : g[i] = f[i]
    OBVIOUS
  <2>4. \A i \in 0 .. n + 1 : g[i] = IF i = 0 THEN s ELSE P(g[i - 1], i)
    <3> SUFFICES ASSUME NEW i \in 0 .. n + 1
                 PROVE  g[i] = IF i = 0 THEN s ELSE P(g[i - 1], i)
      OBVIOUS
    <3>1. CASE i = n + 1
      <4>1. i # 0 /\ i - 1 = n /\ n \in 0 .. n
        BY <3>1
      <4>2. g[i] = P(f[n], i)
        BY <3>1
      <4> HIDE DEF g, P
      <4> QED  BY <2>3, <4>1, <4>2
    <3>2. CASE i # n + 1 /\ i # 0
      <4>1. i \in 0 .. n /\ i - 1 \in 0 .. n
        BY <3>2
      <4>2. g[i] = f[i] /\ g[i - 1] = f[i - 1]
        BY <2>3, <4>1
      <4>3. f[i] = P(f[i - 1], i)
        BY <2>2, <3>2, <4>1
      <4> HIDE DEF g, P
      <4> QED  BY <3>2, <4>2, <4>3
    <3>3. CASE i = 0
      <4>1. i \in 0 .. n
        BY <3>3
      <4>2. g[i] = f[i] /\ f[i] = s
        BY <2>2, <2>3, <3>3, <4>1
      <4> HIDE DEF g, P
      <4> QED  BY <3>3, <4>2
    <3> QED  BY <3>1, <3>2, <3>3
  <2>5. g = [i \in 0 .. n + 1 |-> g[i]]
    OBVIOUS
  <2> HIDE DEF g
  <2>6. g = [i \in 0 .. n + 1 |-> IF i = 0 THEN s ELSE P(g[i - 1], i)]
    BY <2>4, <2>5
  <2> QED  BY <2>6 DEF IsParse
<1> HIDE DEF S
<1>3. Nat \subseteq S
  BY <1>1, <1>2, SetInduction
<1> QED  BY <1>3 DEF S

\* What every chunk keeps, the parser keeps.
LEMMA ParseKeeps ==
    ASSUME NEW G, NEW s \in G, NEW chunks, Len(chunks) \in Nat, NEW oom,
           \A t \in G, i \in 1 .. Len(chunks) : Parsed(t, chunks[i], oom) \in G
    PROVE  ParsedAll(s, chunks, oom) \in G
<1> DEFINE n == Len(chunks)
           f == CHOOSE after : IsParse(after, s, chunks, oom, n)
<1>1. ParsedAll(s, chunks, oom) = f[n]
  BY DEF ParsedAll, IsParse
<1>2. IsParse(f, s, chunks, oom, n)
  BY ParseExists
<1>3. f = [i \in 0 .. n |-> IF i = 0 THEN s ELSE Parsed(f[i - 1], chunks[i], oom)]
  BY <1>2 DEF IsParse
<1> HIDE DEF f
<1> DEFINE S == {i \in Nat : i <= n => f[i] \in G}
<1>4. 0 \in S
  BY <1>3
<1>5. ASSUME NEW i \in Nat, i \in S
      PROVE  i + 1 \in S
  <2> SUFFICES ASSUME i + 1 <= n PROVE f[i + 1] \in G
    OBVIOUS
  <2> HIDE DEF n
  <2>1. n \in Nat
    BY DEF n
  <2>2. i <= n /\ i + 1 \in 1 .. n /\ i + 1 \in 0 .. n /\ i + 1 # 0 /\ (i + 1) - 1 = i
    BY <2>1
  <2>3. f[i] \in G
    BY <1>5, <2>2
  <2>4. f[i + 1] = Parsed(f[i], chunks[i + 1], oom)
    BY <1>3, <2>2
  <2> QED  BY <2>2, <2>3, <2>4 DEF n
<1>6. f[n] \in G
  <2> HIDE DEF S
  <2>1. Nat \subseteq S
    BY <1>4, <1>5, SetInduction
  <2>2. n \in S
    BY <2>1
  <2> QED  BY <2>2 DEF S
<1> QED  BY <1>1, <1>6

-----------------------------------------------------------------------------
(***************************************************************************)
(* One slot of configurator_server_task.                                   *)
(***************************************************************************)

Answers == Pages \cup {NoPage}

\* The states a slot may be in while it is received from.
Parsing(c) ==
    {t \in Socket : /\ t.socket = c /\ t.response = NoPage
                    /\ t.status \in {"OPENED", "RECV_IN_PROGRESS", "MESSAGE_RECVD", "HTTP_ERROR"}}

LEMMA CleanedUp ==
    ASSUME NEW c, NEW t \in Parsing(c)
    PROVE  message_cleanup(t) \in Parsing(c) /\ message_cleanup(t).status = "OPENED"
BY DEF message_cleanup, Parsing, Socket, Statuses, Pages

LEMMA ParsedOnce ==
    ASSUME NEW c, NEW t \in Parsing(c), NEW chunk, NEW oom \in BOOLEAN
    PROVE  Parsed(t, chunk, oom) \in Parsing(c)
<1>1. t.parser \in {"idle", "message", "error"} /\ t \in Socket
  BY DEF Parsing, Socket
<1>2. CASE t.parser = "error"
  <2>1. Parsed(t, chunk, oom) = t
    BY <1>2 DEF Parsed
  <2> QED  BY <2>1
<1>3. CASE t.parser = "idle" /\ chunk \in {"head", "settings"}
  <2> DEFINE u == message_cleanup(t)
  <2>1. Parsed(t, chunk, oom) =
            [u EXCEPT !.status = IF oom THEN "HTTP_ERROR" ELSE "RECV_IN_PROGRESS", !.parser = "message"]
    BY <1>3 DEF Parsed
  <2>2. u \in Parsing(c)
    BY CleanedUp
  <2> HIDE DEF u
  <2> QED  BY <2>1, <2>2 DEF Parsing, Socket, Statuses
<1>4. CASE t.parser = "message" /\ chunk = "tail"
  <2>1. Parsed(t, chunk, oom) = [t EXCEPT !.status = "MESSAGE_RECVD", !.parser = "idle"]
    BY <1>4 DEF Parsed
  <2> QED  BY <2>1 DEF Parsing, Socket, Statuses
<1>5. CASE t.parser # "error" /\ ~ (t.parser = "idle" /\ chunk \in {"head", "settings"})
           /\ ~ (t.parser = "message" /\ chunk = "tail")
  <2>1. Parsed(t, chunk, oom) = [t EXCEPT !.parser = "error"]
    BY <1>5 DEF Parsed
  <2> QED  BY <2>1 DEF Parsing, Socket
<1> QED  BY <1>2, <1>3, <1>4, <1>5

\* http_parser_execute leaves no error behind.
LEMMA Executed ==
    ASSUME NEW c, NEW s \in Parsing(c), NEW chunks, Len(chunks) \in Nat, NEW oom \in BOOLEAN
    PROVE  /\ http_parser_execute(s, chunks, oom) \in Parsing(c)
           /\ http_parser_execute(s, chunks, oom).status # "HTTP_ERROR"
<1> DEFINE parsed == ParsedAll(s, chunks, oom)
<1>1. parsed \in Parsing(c)
  <2>1. \A t \in Parsing(c), i \in 1 .. Len(chunks) : Parsed(t, chunks[i], oom) \in Parsing(c)
    BY ParsedOnce
  <2> QED  BY <2>1, ParseKeeps
<1>2. message_cleanup(parsed) \in Parsing(c) /\ message_cleanup(parsed).status = "OPENED"
  BY <1>1, CleanedUp
<1>3. http_parser_execute(s, chunks, oom) =
        IF parsed.parser = "error" \/ parsed.status = "HTTP_ERROR"
        THEN message_cleanup(parsed) ELSE parsed
  BY DEF http_parser_execute
<1> HIDE DEF parsed
<1> QED  BY <1>1, <1>2, <1>3

\* What the browser at c sends has settings.
Wants(c) == \E n \in DOMAIN client[c].script : client[c].script[n] = "settings"

Scripted == \A script \in Seq(Chunk) : Len(script) \in Nat

LEMMA ScriptsAreSequences == Scripted
BY DEF Scripted

\* What may become of the slot s in receive_task.
Received(s, recv) ==
    /\ recv.slot \in Socket /\ recv.slot.socket = s.socket
    /\ recv.taken \in Nat /\ recv.taken <= client[s.socket].sent
    /\ recv.found \in BOOLEAN /\ (recv.found => Wants(s.socket))
    /\ IF s.status = "SEND_IN_PROGRESS"
       THEN recv.slot = s /\ ~ recv.found
       ELSE /\ recv.slot.response = NoPage
            /\ recv.slot.status \in {"OPENED", "RECV_IN_PROGRESS", "MESSAGE_RECVD", "SOCKET_ERROR",
                                     "DISCONNECTED"}

\* A slot between two calls of the task, of the browser it belongs to.
Rests(s) ==
    /\ s \in Socket
    /\ s.status \in {"CLOSED", "OPENED", "RECV_IN_PROGRESS", "SEND_IN_PROGRESS"}
    /\ s.status = "CLOSED" <=> s.socket = NoClient
    /\ s.response # NoPage => s.status = "SEND_IN_PROGRESS"

LEMMA ReceiveTask ==
    ASSUME NEW s, Rests(s), s.status # "CLOSED", NEW recv \in receive_task(s),
           client \in [Client -> Browser],
           \A c \in Client : client[c].taken <= client[c].sent /\ client[c].sent <= Len(client[c].script)
    PROVE  Received(s, recv)
<1> DEFINE b == client[s.socket]
           Result(slot, taken, found) == [slot |-> slot, taken |-> taken, found |-> found]
           failed == Result([s EXCEPT !.status = "SOCKET_ERROR"], b.taken, FALSE)
           Chunks(n) == SubSeq(b.script, b.taken + 1, n)
           Taken(n, oom) == Result(http_parser_execute(s, Chunks(n), oom), n,
                                   ~oom /\ FindsSettings(s, Chunks(n)))
<1>1. s \in Socket /\ s.socket \in Client
  BY DEF Rests, Socket
<1>2. /\ b \in Browser /\ b.script \in Seq(Chunk) /\ b.sent \in Nat /\ b.taken \in Nat
      /\ b.taken <= b.sent /\ b.sent <= Len(b.script)
  BY <1>1 DEF Browser
<1>3. \/ s.status \notin {"OPENED", "RECV_IN_PROGRESS"} /\ recv = Result(s, b.taken, FALSE)
      \/ /\ s.status \in {"OPENED", "RECV_IN_PROGRESS"}
         /\ \/ recv = failed
            \/ recv = Result(s, b.taken, FALSE)
            \/ recv = Result([s EXCEPT !.status = "DISCONNECTED"], b.taken, FALSE)
            \/ \E n \in b.taken + 1 .. b.sent, oom \in BOOLEAN : recv = Taken(n, oom)
  <2> DEFINE All == {Taken(n, oom) : n \in b.taken + 1 .. b.sent, oom \in BOOLEAN}
             left == Result([s EXCEPT !.status = "DISCONNECTED"], b.taken, FALSE)
             same == Result(s, b.taken, FALSE)
  <2>1. receive_task(s) =
            IF s.status \notin {"OPENED", "RECV_IN_PROGRESS"} THEN {same}
            ELSE IF b.taken < b.sent THEN {failed} \cup All
            ELSE IF b.state = "left" THEN {failed, left} ELSE {failed, same}
    BY DEF receive_task
  <2> HIDE DEF failed, Taken, Result, b
  <2>2. recv \in All => \E n \in b.taken + 1 .. b.sent, oom \in BOOLEAN : recv = Taken(n, oom)
    OBVIOUS
  <2> HIDE DEF All, left, same
  <2>3. \/ s.status \notin {"OPENED", "RECV_IN_PROGRESS"} /\ recv = same
        \/ /\ s.status \in {"OPENED", "RECV_IN_PROGRESS"}
           /\ recv \in {failed, left, same} \cup All
    BY <2>1
  <2> QED  BY <2>2, <2>3 DEF left, same
<1>4. CASE s.status = "SEND_IN_PROGRESS"
  <2>1. recv = Result(s, b.taken, FALSE)
    BY <1>3, <1>4
  <2> HIDE DEF b
  <2>2. recv.slot = s /\ recv.taken = b.taken /\ recv.found = FALSE
    BY <2>1
  <2> QED  BY <1>1, <1>2, <1>4, <2>2 DEF Received, b
<1>5. CASE s.status # "SEND_IN_PROGRESS"
  <2>1. s.status \in {"OPENED", "RECV_IN_PROGRESS"} /\ s.response = NoPage
    BY <1>5 DEF Rests
  <2>2. ASSUME NEW status \in {"OPENED", "RECV_IN_PROGRESS", "SOCKET_ERROR", "DISCONNECTED"},
               recv = Result([s EXCEPT !.status = status], b.taken, FALSE)
        PROVE  Received(s, recv)
    <3> DEFINE t == [s EXCEPT !.status = status]
    <3>1. t \in Socket /\ t.socket = s.socket /\ t.response = NoPage /\ t.status = status
      BY <1>1, <2>1 DEF Socket, Statuses
    <3> HIDE DEF t, b
    <3>2. recv.slot = t /\ recv.taken = b.taken /\ recv.found = FALSE
      BY <2>2 DEF t
    <3> QED  BY <1>2, <1>5, <3>1, <3>2 DEF Received, b
  <2>3. ASSUME NEW n \in b.taken + 1 .. b.sent, NEW oom \in BOOLEAN, recv = Taken(n, oom)
        PROVE  Received(s, recv)
    <3> DEFINE chunks == Chunks(n)
               t == http_parser_execute(s, chunks, oom)
    <3>1. b.script \in Seq(Chunk) /\ Len(b.script) \in Nat
      BY <1>2, ScriptsAreSequences DEF Scripted
    <3>2. /\ Len(chunks) \in Nat /\ DOMAIN chunks = 1 .. Len(chunks)
          /\ \A m \in DOMAIN chunks : /\ b.taken + m \in DOMAIN b.script
                                      /\ chunks[m] = b.script[b.taken + m]
      <4> DEFINE script == b.script
                 first == b.taken + 1
                 length == Len(script)
      <4>1. first \in 1 .. n /\ n \in 1 .. length /\ length \in Nat /\ b.taken \in Nat
        BY <1>2, <3>1
      <4>2. script \in Seq(Chunk) /\ DOMAIN script = 1 .. length
        BY <3>1
      <4> HIDE DEF script, length, b
      <4>3. /\ Len(SubSeq(script, first, n)) = n - first + 1
            /\ DOMAIN SubSeq(script, first, n) = 1 .. n - first + 1
            /\ \A m \in 1 .. n - first + 1 : SubSeq(script, first, n)[m] = script[first + m - 1]
        BY <4>1, <4>2 DEF length
      <4>4. \A m \in 1 .. n - first + 1 : b.taken + m \in 1 .. length /\ first + m - 1 = b.taken + m
        BY <4>1
      <4>5. n - first + 1 \in Nat
        BY <4>1
      <4> QED  BY <4>2, <4>3, <4>4, <4>5 DEF script
    <3>3. s \in Parsing(s.socket)
      BY <1>1, <2>1 DEF Parsing
    <3>4. t \in Parsing(s.socket) /\ t.status # "HTTP_ERROR"
      <4> HIDE DEF chunks
      <4> QED  BY <3>2, <3>3, Executed
    <3>5. FindsSettings(s, chunks) => Wants(s.socket)
      BY <3>2 DEF FindsSettings, Wants
    <3>6. recv.slot = t /\ recv.taken = n /\ recv.found = (~oom /\ FindsSettings(s, chunks))
      BY <2>3
    <3> HIDE DEF t, chunks
    <3>7. recv.found \in BOOLEAN /\ recv.found => Wants(s.socket)
      BY <3>5, <3>6
    <3>8. n \in Nat /\ n <= b.sent
      BY <1>2
    <3>9. t \in Socket /\ t.socket = s.socket /\ t.response = NoPage
          /\ t.status \in {"OPENED", "RECV_IN_PROGRESS", "MESSAGE_RECVD"}
      BY <3>4 DEF Parsing
    <3> QED  BY <1>5, <3>6, <3>7, <3>8, <3>9 DEF Received
  <2>4. [s EXCEPT !.status = s.status] = s
    BY <1>1 DEF Socket
  <2> QED  BY <1>3, <2>1, <2>2, <2>3, <2>4
<1> QED  BY <1>4, <1>5

\* What becomes of a slot that was received from: the page it gets, if it gets one now, is its own or
\* that of a change that was there before.
Hears(s) ==
    Wants(s.socket) \/ (cfg_changed /\ clb_set) \/ s.response \in {"SUCCESS", "ERROR"}

LEMMA SlotTreated ==
    ASSUME NEW s, Rests(s), s.status # "CLOSED", NEW recv, Received(s, recv),
           cfg_changed \in BOOLEAN, clb_set \in BOOLEAN,
           NEW page \in PagesFor(cfg_changed \/ recv.found), NEW ok \in BOOLEAN, NEW result,
           NEW ready, ready = set_response(recv.slot, page, ok),
           NEW sent, sent = send_task(ready, result)
    PROVE  /\ sent.socket = s.socket
           /\ sent.status \in ClosingStatuses \/ (Rests(sent) /\ sent.status # "CLOSED")
           /\ ready.response \in Answers
           /\ ready.response \in {"SUCCESS", "ERROR"} => Hears(s)
           /\ sent.response \in {"SUCCESS", "ERROR"} => Hears(s)
<1>1. page \in Pages /\ (page \in {"SUCCESS", "ERROR"} => Hears(s))
  BY DEF PagesFor, Pages, Received, Hears
<1>2. /\ recv.slot \in Socket /\ recv.slot.socket = s.socket /\ s.socket # NoClient
      /\ recv.slot.status \in {"OPENED", "RECV_IN_PROGRESS", "MESSAGE_RECVD", "SOCKET_ERROR",
                               "DISCONNECTED", "SEND_IN_PROGRESS"}
      /\ recv.slot.status # "SEND_IN_PROGRESS" => recv.slot.response = NoPage
      /\ recv.slot.response \in {"SUCCESS", "ERROR"} => Hears(s)
  BY DEF Received, Rests, NoPage, Hears
<1>3. /\ ready \in Socket /\ ready.socket = s.socket
      /\ ready.status \in {"OPENED", "RECV_IN_PROGRESS", "SOCKET_ERROR", "DISCONNECTED",
                           "SEND_IN_PROGRESS"}
      /\ ready.status # "SEND_IN_PROGRESS" => ready.response = NoPage
      /\ ready.response \in {"SUCCESS", "ERROR"} => Hears(s)
  <2>1. CASE recv.slot.status = "MESSAGE_RECVD"
    <3>1. ready = [recv.slot EXCEPT !.status = "SEND_IN_PROGRESS",
                                    !.response = IF ok THEN page ELSE NoPage]
      BY <2>1 DEF set_response
    <3>2. /\ ready \in Socket /\ ready.socket = recv.slot.socket /\ ready.status = "SEND_IN_PROGRESS"
          /\ ready.response = IF ok THEN page ELSE NoPage
      BY <1>1, <1>2, <3>1 DEF Socket, Statuses
    <3>3. NoPage \notin {"SUCCESS", "ERROR"}
      BY DEF NoPage
    <3> QED  BY <1>1, <1>2, <3>2, <3>3
  <2>2. CASE recv.slot.status # "MESSAGE_RECVD"
    BY <1>2, <2>2 DEF set_response
  <2> QED  BY <2>1, <2>2
<1>4. ready.response \in Answers
  BY <1>3 DEF Socket, Answers
<1>5. CASE ready.status # "SEND_IN_PROGRESS"
  <2>1. sent = ready
    BY <1>5 DEF send_task
  <2> QED  BY <1>2, <1>3, <1>4, <1>5, <2>1 DEF Rests, ClosingStatuses
<1>6. CASE ready.status = "SEND_IN_PROGRESS"
  <2>1. \/ sent = [ready EXCEPT !.status = "RESPONSE_SENT"]
        \/ sent = [ready EXCEPT !.status = "RESPONSE_SENT", !.response = NoPage]
        \/ sent = ready
        \/ sent = [ready EXCEPT !.status = "SOCKET_ERROR"]
    BY <1>6 DEF send_task
  <2>2. /\ sent.socket = ready.socket
        /\ sent = ready \/ sent.status \in {"RESPONSE_SENT", "SOCKET_ERROR"}
        /\ sent.response \in {ready.response, NoPage}
    BY <1>3, <2>1 DEF Socket
  <2>4. NoPage \notin {"SUCCESS", "ERROR"}
    BY DEF NoPage
  <2>3. Rests(ready)
    BY <1>2, <1>3, <1>6 DEF Rests
  <2> QED  BY <1>3, <1>4, <1>6, <2>2, <2>3, <2>4 DEF ClosingStatuses
<1> QED  BY <1>5, <1>6

-----------------------------------------------------------------------------
(***************************************************************************)
(* The invariant.                                                          *)
(***************************************************************************)

Used == {i \in Slots : client_socket[i].status # "CLOSED"}

Here(c) == client[c].state \in {"accepted", "left"}

\* A browser: before it connects it is new.
Sane(c) ==
    /\ client[c] \in Browser
    /\ client[c].taken <= client[c].sent /\ client[c].sent <= Len(client[c].script)
    /\ client[c].state = "out" => client[c] = Unconnected

\* What only the tasks and the application change. Settings that were found are still there while there
\* is a callback only when they waited for it.
TaskInv ==
    /\ server_socket \in BOOLEAN /\ cfg_changed \in BOOLEAN /\ clb_set \in BOOLEAN
    /\ overdue \in BOOLEAN /\ registered \in BOOLEAN /\ at \in 0 .. MaxConnection
    /\ cfg_changed /\ clb_set => overdue

SlotInv ==
    /\ client_socket \in [Slots -> Socket] /\ \A i \in Slots : Rests(client_socket[i])
    /\ client \in [Client -> Browser] /\ \A c \in Client : Sane(c)
    /\ connections = Cardinality(Used)
    /\ \A i, j \in Slots : client_socket[i].socket = client_socket[j].socket
                               => i = j \/ client_socket[i].socket = NoClient
    /\ \A c \in Client : InSlot(c) <=> Here(c)

LEMMA UsedFinite ==
    IsFiniteSet(Used) /\ Cardinality(Used) \in Nat /\ Cardinality(Used) <= MaxConnection
<1>1. MaxConnection \in Nat \ {0}
  BY ServerAssumption
<1>2. IsFiniteSet(Slots) /\ Cardinality(Slots) = MaxConnection
  <2>1. 1 \in Int /\ MaxConnection \in Int
    BY <1>1
  <2>2. IsFiniteSet(Slots) /\ Cardinality(Slots) = IF 1 > MaxConnection THEN 0 ELSE MaxConnection - 1 + 1
    BY <2>1, FS_Interval DEF Slots
  <2> QED  BY <1>1, <2>2
<1>3. Used \in SUBSET Slots
  BY DEF Used
<1> QED  BY <1>2, <1>3, FS_Subset, FS_CardinalityType

LEMMA UnconnectedSane ==
    /\ Unconnected \in Browser /\ Unconnected.state = "out" /\ Unconnected.sent = 0
    /\ Unconnected.taken = 0 /\ Unconnected.answer = NoPage /\ Unconnected.script \in Seq(Chunk)
<1>1. <<>> \in Seq(Chunk)
  OBVIOUS
<1> QED  BY <1>1 DEF Unconnected, Browser

LEMMA InitServer == Init => TaskInv /\ SlotInv
<1> SUFFICES ASSUME Init PROVE TaskInv /\ SlotInv
  OBVIOUS
<1>1. TaskInv
  <2>1. 0 \in 0 .. MaxConnection
    BY ServerAssumption
  <2> QED  BY <2>1, Zenon DEF Init, TaskInv
<1>2. Closed \in Socket /\ Closed.status = "CLOSED" /\ Closed.socket = NoClient /\ Closed.response = NoPage
  BY DEF Closed, Socket, Statuses
<1>3. \A i \in Slots : client_socket[i] = Closed
  BY DEF Init
<1>4. client_socket \in [Slots -> Socket] /\ \A i \in Slots : Rests(client_socket[i])
  <2>1. Rests(Closed)
    BY <1>2 DEF Rests, NoPage
  <2>2. client_socket = [i \in Slots |-> Closed]
    BY DEF Init
  <2> QED  BY <1>2, <1>3, <2>1, <2>2
<1>5. \A c \in Client : client[c] = Unconnected
  BY DEF Init
<1>6. client \in [Client -> Browser] /\ \A c \in Client : Sane(c)
  <2>1. client = [c \in Client |-> Unconnected]
    BY DEF Init
  <2>2. Len(Unconnected.script) \in Nat
    BY UnconnectedSane, ScriptsAreSequences DEF Scripted
  <2> QED  BY <1>5, <2>1, <2>2, UnconnectedSane DEF Sane, NoPage
<1>7. Used = {}
  BY <1>2, <1>3 DEF Used
<1>8. connections = Cardinality(Used)
  BY <1>7, FS_EmptySet DEF Init
<1>9. \A c \in Client : ~ InSlot(c) /\ ~ Here(c)
  BY <1>2, <1>3, <1>5, UnconnectedSane, ServerAssumption DEF InSlot, Here
<1> QED  BY <1>1, <1>2, <1>3, <1>4, <1>6, <1>8, <1>9 DEF SlotInv

\* The slots are as they were while a browser whose connection has none changes, or one keeps its.
LEMMA BrowsersChange ==
    ASSUME SlotInv, UNCHANGED <<client_socket, connections>>, client' \in [Client -> Browser],
           \A c \in Client : Sane(c)' /\ (Here(c)' <=> Here(c)),
           \A c \in Client : Here(c) => client'[c].script = client[c].script
    PROVE  SlotInv'
<1>1. \A i \in Slots : Rests(client_socket[i])'
  BY DEF SlotInv, Rests
<1>2. Used' = Used /\ \A c \in Client : InSlot(c)' <=> InSlot(c)
  BY DEF Used, InSlot
<1> QED  BY <1>1, <1>2 DEF SlotInv

\* The browsers, and a refused or lost accept.
LEMMA ConnectSane ==
    ASSUME SlotInv, NEW c \in Client, Connect(c), UNCHANGED <<client_socket, connections>>
    PROVE  SlotInv'
<1>1. PICK script \in Scripts[c] : client' = [client EXCEPT ![c].state = "backlog", ![c].script = script]
  BY DEF Connect
<1>2. client[c] = Unconnected /\ client \in [Client -> Browser] /\ ~ Here(c)
  BY DEF Connect, SlotInv, Sane, Here
<1>10. script \in Seq(Chunk)
  BY ServerAssumption
<1> DEFINE b == [Unconnected EXCEPT !.state = "backlog", !.script = script]
<1>3. /\ b \in Browser /\ b.state = "backlog" /\ b.script = script /\ b.sent = 0 /\ b.taken = 0
      /\ b.answer = NoPage
  BY <1>10, UnconnectedSane DEF Browser, Unconnected
<1>4. client' = [client EXCEPT ![c] = b]
  BY <1>1, <1>2, Zenon
<1> HIDE DEF b
<1>5. client' \in [Client -> Browser] /\ client'[c] = b /\ \A d \in Client : d # c => client'[d] = client[d]
  BY <1>2, <1>3, <1>4
<1>6. Sane(c)'
  <2>1. Len(script) \in Nat
    BY <1>10, ScriptsAreSequences DEF Scripted
  <2> QED  BY <1>3, <1>5, <2>1 DEF Sane, NoPage
<1>7. \A d \in Client : Sane(d)' /\ (Here(d)' <=> Here(d))
  <2>1. ASSUME NEW d \in Client, d # c PROVE Sane(d)' /\ (Here(d)' <=> Here(d))
    BY <1>5, <2>1 DEF Sane, Here, SlotInv
  <2>2. ~ Here(c)'
    BY <1>3, <1>5 DEF Here
  <2> QED  BY <1>2, <1>6, <2>1, <2>2
<1>8. \A d \in Client : Here(d) => client'[d].script = client[d].script
  BY <1>2, <1>5
<1>9. UNCHANGED <<client_socket, connections>>
  OBVIOUS
<1> QED  BY <1>5, <1>7, <1>8, <1>9, BrowsersChange

\* A browser that keeps its script and its answer, and stays in its slot or out of one.
LEMMA OneBrowser ==
    ASSUME SlotInv, NEW c \in Client, NEW b \in Browser, client' = [client EXCEPT ![c] = b],
           b.script = client[c].script,
           b.taken <= b.sent, b.sent <= Len(b.script), b.state # "out"
    PROVE  /\ client' \in [Client -> Browser] /\ client'[c] = b
           /\ \A d \in Client : d # c => client'[d] = client[d]
           /\ \A d \in Client : Sane(d)'
           /\ \A d \in Client : client'[d].script = client[d].script
<1>1. /\ client' \in [Client -> Browser] /\ client'[c] = b
      /\ \A d \in Client : d # c => client'[d] = client[d]
  BY DEF SlotInv
<1>2. Sane(c)'
  BY <1>1 DEF Sane
<1>3. ASSUME NEW d \in Client, d # c PROVE Sane(d)'
  BY <1>1, <1>3 DEF SlotInv, Sane
<1> QED  BY <1>1, <1>2, <1>3

LEMMA SendSane ==
    ASSUME SlotInv, NEW c \in Client, Send(c), UNCHANGED <<client_socket, connections>>
    PROVE  SlotInv'
<1>1. client[c] \in Browser /\ client[c].state = "accepted" /\ client[c].sent < Len(client[c].script)
      /\ client[c].taken <= client[c].sent
  BY DEF Send, SlotInv, Sane
<1> DEFINE b == [client[c] EXCEPT !.sent = client[c].sent + 1]
<1>2. /\ b \in Browser /\ b.state = "accepted" /\ b.script = client[c].script
      /\ b.sent = client[c].sent + 1 /\ b.taken = client[c].taken /\ b.answer = client[c].answer
      /\ client[c].sent \in Nat /\ client[c].taken \in Nat /\ client[c].script \in Seq(Chunk)
  BY <1>1 DEF Browser
<1>3. client' = [client EXCEPT ![c] = b]
  BY Zenon DEF Send
<1> HIDE DEF b
<1>4. Len(b.script) \in Nat
  BY <1>2, ScriptsAreSequences DEF Scripted
<1>5. b.taken <= b.sent /\ b.sent <= Len(b.script)
  BY <1>1, <1>2, <1>4
<1>6. /\ client' \in [Client -> Browser] /\ client'[c] = b
      /\ \A d \in Client : d # c => client'[d] = client[d]
      /\ \A d \in Client : Sane(d)'
      /\ \A d \in Client : client'[d].script = client[d].script
  BY <1>2, <1>3, <1>5, OneBrowser
<1>7. \A d \in Client : Here(d)' <=> Here(d)
  BY <1>1, <1>2, <1>6 DEF Here
<1> QED  BY <1>6, <1>7, BrowsersChange

LEMMA LeaveSane ==
    ASSUME SlotInv, NEW c \in Client, Leave(c), UNCHANGED <<client_socket, connections>>
    PROVE  SlotInv'
<1>1. client[c] \in Browser /\ client[c].state = "accepted"
      /\ client[c].taken <= client[c].sent /\ client[c].sent <= Len(client[c].script)
  BY DEF Leave, SlotInv, Sane
<1> DEFINE b == [client[c] EXCEPT !.state = "left"]
<1>2. /\ b \in Browser /\ b.state = "left" /\ b.script = client[c].script
      /\ b.sent = client[c].sent /\ b.taken = client[c].taken /\ b.answer = client[c].answer
  BY <1>1 DEF Browser
<1>3. client' = [client EXCEPT ![c] = b]
  BY Zenon DEF Leave
<1> HIDE DEF b
<1>4. /\ client' \in [Client -> Browser] /\ client'[c] = b
      /\ \A d \in Client : d # c => client'[d] = client[d]
      /\ \A d \in Client : Sane(d)'
      /\ \A d \in Client : client'[d].script = client[d].script
  BY <1>1, <1>2, <1>3, OneBrowser
<1>5. \A d \in Client : Here(d)' <=> Here(d)
  BY <1>1, <1>2, <1>4 DEF Here
<1> QED  BY <1>4, <1>5, BrowsersChange

-----------------------------------------------------------------------------
(***************************************************************************)
(* A slot is taken, treated and given back.                                *)
(***************************************************************************)

\* The first of the free slots.
LEMMA FirstFree ==
    ASSUME NEW F \in SUBSET Slots, F # {}
    PROVE  (CHOOSE i \in F : \A j \in F : i <= j) \in F
<1> SUFFICES ASSUME \A i \in F : \E j \in F : ~ (i <= j) PROVE FALSE
  OBVIOUS
<1> DEFINE S == {n \in Nat : \A i \in F : n < i}
<1>1. F \subseteq Nat \ {0}
  BY ServerAssumption DEF Slots
<1>2. 0 \in S
  BY <1>1
<1>3. ASSUME NEW n \in Nat, n \in S PROVE n + 1 \in S
  <2>1. \A i \in F : n + 1 <= i
    BY <1>1, <1>3
  <2>2. n + 1 \notin F
    BY <2>1
  <2> QED  BY <1>1, <2>1, <2>2
<1>4. Nat \subseteq S
  <2> HIDE DEF S
  <2> QED  BY <1>2, <1>3, SetInduction
<1>5. PICK i \in F : TRUE
  OBVIOUS
<1>6. i \in S
  BY <1>1, <1>4
<1> QED  BY <1>1, <1>6

LEMMA OneSlot ==
    ASSUME SlotInv, NEW i \in Slots, NEW t \in Socket, client_socket' = [client_socket EXCEPT ![i] = t],
           Rests(t)
    PROVE  /\ client_socket' \in [Slots -> Socket] /\ client_socket'[i] = t
           /\ \A j \in Slots : j # i => client_socket'[j] = client_socket[j]
           /\ \A j \in Slots : Rests(client_socket[j])'
<1>1. /\ client_socket' \in [Slots -> Socket] /\ client_socket'[i] = t
      /\ \A j \in Slots : j # i => client_socket'[j] = client_socket[j]
  BY DEF SlotInv
<1>2. ASSUME NEW s \in Socket, Rests(s), NEW j \in Slots, client_socket'[j] = s
      PROVE  Rests(client_socket[j])'
  BY <1>2 DEF Rests
<1>3. ASSUME NEW j \in Slots, j # i PROVE Rests(client_socket[j])'
  <2>1. client_socket[j] \in Socket /\ Rests(client_socket[j]) /\ client_socket'[j] = client_socket[j]
    BY <1>1, <1>3 DEF SlotInv
  <2> QED  BY <1>2, <2>1
<1>4. Rests(client_socket[i])'
  BY <1>1, <1>2
<1> QED  BY <1>1, <1>3, <1>4

LEMMA TakeSlot ==
    ASSUME SlotInv, NEW c \in Client, client[c].state = "backlog", NEW i \in Slots,
           client_socket[i].status = "CLOSED",
           client_socket' = [client_socket EXCEPT ![i] = [Closed EXCEPT !.status = "OPENED", !.socket = c]],
           connections' = connections + 1,
           client' = [client EXCEPT ![c].state = "accepted"]
    PROVE  SlotInv'
<1> DEFINE t == [Closed EXCEPT !.status = "OPENED", !.socket = c]
           b == [client[c] EXCEPT !.state = "accepted"]
<1>1. /\ client[c] \in Browser /\ client[c].taken <= client[c].sent
      /\ client[c].sent <= Len(client[c].script) /\ ~ Here(c)
  BY DEF SlotInv, Sane, Here
<1>2. /\ b \in Browser /\ b.state = "accepted" /\ b.script = client[c].script
      /\ b.sent = client[c].sent /\ b.taken = client[c].taken /\ b.answer = client[c].answer
  BY <1>1 DEF Browser
<1>3. client' = [client EXCEPT ![c] = b]
  BY Zenon
<1>4. t \in Socket /\ t.socket = c /\ t.status = "OPENED" /\ t.response = NoPage
  BY DEF Closed, Socket, Statuses
<1>5. client_socket' = [client_socket EXCEPT ![i] = t]
  OBVIOUS
<1> HIDE DEF t, b
<1>6. /\ client' \in [Client -> Browser] /\ client'[c] = b
      /\ \A d \in Client : d # c => client'[d] = client[d]
      /\ \A d \in Client : Sane(d)'
      /\ \A d \in Client : client'[d].script = client[d].script
  BY <1>1, <1>2, <1>3, OneBrowser
<1>7. Rests(t)
  BY <1>4, ServerAssumption DEF Rests, NoPage
<1>8. /\ client_socket' \in [Slots -> Socket] /\ client_socket'[i] = t
      /\ \A j \in Slots : j # i => client_socket'[j] = client_socket[j]
      /\ \A j \in Slots : Rests(client_socket[j])'
  BY <1>4, <1>5, <1>6, <1>7, OneSlot
<1>9. \A j \in Slots : client_socket[j].socket # c
  BY <1>1 DEF SlotInv, InSlot
<1>10. client_socket[i].socket = NoClient /\ c # NoClient
  BY ServerAssumption DEF SlotInv, Rests
<1>11. connections' = Cardinality(Used')
  <2>1. Used' = Used \cup {i} /\ i \notin Used
    BY <1>4, <1>8 DEF Used
  <2>2. Cardinality(Used') = Cardinality(Used) + 1
    BY <2>1, UsedFinite, FS_AddElement
  <2> QED  BY <2>2 DEF SlotInv
<1>12. \A j, k \in Slots : client_socket'[j].socket = client_socket'[k].socket
                             => j = k \/ client_socket'[j].socket = NoClient
  BY <1>4, <1>8, <1>9 DEF SlotInv
<1>13. ASSUME NEW d \in Client PROVE InSlot(d)' <=> Here(d)'
  <2>1. CASE d = c
    BY <1>2, <1>4, <1>6, <1>8, <2>1 DEF InSlot, Here
  <2>2. CASE d # c
    <3>1. Here(d)' <=> Here(d)
      BY <1>6, <2>2 DEF Here
    <3>2. InSlot(d)' <=> InSlot(d)
      BY <1>4, <1>8, <1>10, <2>2, ServerAssumption DEF InSlot
    <3> QED  BY <3>1, <3>2 DEF SlotInv
  <2> QED  BY <2>1, <2>2
<1> QED  BY <1>6, <1>8, <1>11, <1>12, <1>13 DEF SlotInv

\* The slot goes on, with what was received.
LEMMA KeepSlot ==
    ASSUME SlotInv, NEW i \in Slots, client_socket[i].status # "CLOSED",
           NEW t, Rests(t), t.status # "CLOSED", t.socket = client_socket[i].socket,
           NEW taken \in Nat, taken <= client[t.socket].sent,
           client_socket' = [client_socket EXCEPT ![i] = t],
           connections' = connections,
           client' = [client EXCEPT ![t.socket].taken = taken]
    PROVE  SlotInv'
<1> DEFINE c == t.socket
           b == [client[c] EXCEPT !.taken = taken]
<1>1. /\ c \in Client /\ Here(c) /\ t \in Socket
      /\ client[c] \in Browser /\ client[c].sent <= Len(client[c].script)
  <2>1. t \in Socket /\ c # NoClient
    BY DEF Rests
  <2>2. c \in Client
    BY <2>1 DEF Socket
  <2> QED  BY <2>1, <2>2 DEF SlotInv, Sane, InSlot
<1>2. /\ b \in Browser /\ b.state = client[c].state /\ b.script = client[c].script
      /\ b.sent = client[c].sent /\ b.taken = taken /\ b.answer = client[c].answer
  BY <1>1 DEF Browser
<1>3. client' = [client EXCEPT ![c] = b]
  BY Zenon
<1>4. b.state # "out"
  BY <1>1, <1>2 DEF Here
<1>5. taken <= client[c].sent /\ client_socket[i].socket = c
  OBVIOUS
<1> HIDE DEF c, b
<1>6. /\ client' \in [Client -> Browser] /\ client'[c] = b
      /\ \A d \in Client : d # c => client'[d] = client[d]
      /\ \A d \in Client : Sane(d)'
      /\ \A d \in Client : client'[d].script = client[d].script
  BY <1>1, <1>2, <1>3, <1>4, <1>5, OneBrowser
<1>7. /\ client_socket' \in [Slots -> Socket] /\ client_socket'[i] = t
      /\ \A j \in Slots : j # i => client_socket'[j] = client_socket[j]
      /\ \A j \in Slots : Rests(client_socket[j])'
  BY <1>1, <1>6, OneSlot
<1>8. \A j \in Slots : client_socket'[j].socket = client_socket[j].socket
  BY <1>5, <1>7 DEF c
<1>9. Used' = Used
  BY <1>7 DEF Used
<1>10. \A d \in Client : (InSlot(d)' <=> InSlot(d)) /\ (Here(d)' <=> Here(d))
  BY <1>2, <1>6, <1>8 DEF InSlot, Here
<1> QED  BY <1>6, <1>7, <1>8, <1>9, <1>10 DEF SlotInv

\* close_client_socket
LEMMA GiveBack ==
    ASSUME SlotInv, NEW i \in Slots, client_socket[i].status # "CLOSED", NEW answer \in Answers,
           close_client_socket(i, answer)
    PROVE  SlotInv'
<1> DEFINE c == client_socket[i].socket
           b == [Unconnected EXCEPT !.state = "closed", !.script = client[c].script, !.answer = answer]
<1>1. /\ c \in Client /\ client[c] \in Browser /\ client_socket[i] \in Socket
  <2>1. client_socket[i] \in Socket /\ c # NoClient
    BY DEF SlotInv, Rests
  <2>2. c \in Client
    BY <2>1 DEF Socket
  <2> QED  BY <2>1, <2>2 DEF SlotInv
<1>2. /\ b \in Browser /\ b.state = "closed" /\ b.script = client[c].script
      /\ b.sent = 0 /\ b.taken = 0 /\ b.answer = answer
  BY <1>1, UnconnectedSane DEF Browser, Unconnected, Answers
<1>3. client' = [client EXCEPT ![c] = b]
  BY Zenon DEF close_client_socket
<1>5. client_socket' = [client_socket EXCEPT ![i] = Closed] /\ connections' = connections - 1
  BY DEF close_client_socket
<1> HIDE DEF b
<1>6. /\ client' \in [Client -> Browser] /\ client'[c] = b
      /\ \A d \in Client : d # c => client'[d] = client[d]
  BY <1>1, <1>2, <1>3 DEF SlotInv
<1>7. \A d \in Client : client'[d].script = client[d].script
  BY <1>2, <1>6
<1>8. \A d \in Client : Sane(d)'
  <2>1. ASSUME NEW d \in Client, d # c PROVE Sane(d)'
    BY <1>6, <2>1 DEF SlotInv, Sane
  <2>2. ASSUME NEW d \in Client, d = c PROVE Sane(d)'
    <3>1. b.script \in Seq(Chunk)
      BY <1>2 DEF Browser
    <3>2. Len(b.script) \in Nat
      BY <3>1, ScriptsAreSequences DEF Scripted
    <3>3. client'[d] = b
      BY <1>6, <2>2
    <3>5. b.taken <= b.sent /\ b.sent <= Len(b.script) /\ b.state # "out" /\ b \in Browser
      BY <1>2, <3>2
    <3> QED  BY <3>3, <3>5 DEF Sane
  <2> QED  BY <2>1, <2>2
<1>9. Closed \in Socket /\ Closed.status = "CLOSED" /\ Closed.socket = NoClient /\ Closed.response = NoPage
  BY DEF Closed, Socket, Statuses
<1>10. Rests(Closed)
  BY <1>9 DEF Rests, NoPage
<1>11. /\ client_socket' \in [Slots -> Socket] /\ client_socket'[i] = Closed
       /\ \A j \in Slots : j # i => client_socket'[j] = client_socket[j]
       /\ \A j \in Slots : Rests(client_socket[j])'
  BY <1>5, <1>7, <1>9, <1>10, OneSlot
<1>12. connections' = Cardinality(Used')
  <2>1. Used' = Used \ {i} /\ i \in Used
    BY <1>9, <1>11 DEF Used
  <2>2. Cardinality(Used') = Cardinality(Used) - 1
    BY <2>1, UsedFinite, FS_RemoveElement
  <2> QED  BY <1>5, <2>2 DEF SlotInv
<1>13. \A j, k \in Slots : client_socket'[j].socket = client_socket'[k].socket
                             => j = k \/ client_socket'[j].socket = NoClient
  BY <1>9, <1>11 DEF SlotInv
<1>14. ASSUME NEW d \in Client PROVE InSlot(d)' <=> Here(d)'
  <2>1. d # NoClient
    BY ServerAssumption
  <2>2. CASE d = c
    <3>1. ~ Here(d)'
      BY <1>2, <1>6, <2>2 DEF Here
    <3>2. \A j \in Slots : j # i => client_socket[j].socket # d
      BY <2>1, <2>2 DEF SlotInv
    <3>3. ~ InSlot(d)'
      BY <1>9, <1>11, <2>1, <3>2 DEF InSlot
    <3> QED  BY <3>1, <3>3
  <2>3. CASE d # c
    <3>1. Here(d)' <=> Here(d)
      BY <1>6, <2>3 DEF Here
    <3>2. InSlot(d)' <=> InSlot(d)
      BY <1>9, <1>11, <2>1, <2>3 DEF InSlot
    <3> QED  BY <3>1, <3>2 DEF SlotInv
  <2> QED  BY <2>2, <2>3
<1> QED  BY <1>6, <1>8, <1>11, <1>12, <1>13, <1>14 DEF SlotInv

LEMMA AcceptKeeps ==
    ASSUME TaskInv, SlotInv, AcceptTask
    PROVE  TaskInv' /\ SlotInv'
<1>1. TaskInv'
  <2>1. 1 \in 0 .. MaxConnection
    BY ServerAssumption
  <2>2. /\ server_socket' \in BOOLEAN /\ cfg_changed' = cfg_changed /\ clb_set' = clb_set
        /\ registered' = registered /\ at' = 1 /\ overdue' = overdue
    BY DEF AcceptTask, TaskInv
  <2> QED  BY <2>1, <2>2 DEF TaskInv
<1>2. CASE UNCHANGED <<client_socket, connections, client>>
  <2>1. \A c \in Client : Sane(c)' /\ (Here(c)' <=> Here(c))
    BY <1>2 DEF SlotInv, Sane, Here
  <2>2. client' \in [Client -> Browser]
    BY <1>2 DEF SlotInv
  <2> QED  BY <1>1, <1>2, <2>1, <2>2, BrowsersChange
<1>3. ASSUME NEW c \in Client, client[c].state = "backlog", add_client_socket(c)
      PROVE  SlotInv'
  <2> DEFINE free == {i \in Slots : client_socket[i].status = "CLOSED"}
             idx == CHOOSE i \in free : \A j \in free : i <= j
  <2>1. CASE free # {}
    <3>1. idx \in free
      <4>1. free \in SUBSET Slots
        OBVIOUS
      <4> HIDE DEF free
      <4> QED  BY <2>1, <4>1, FirstFree
    <3>2. /\ client_socket' = [client_socket EXCEPT ![idx] =
                                   [Closed EXCEPT !.status = "OPENED", !.socket = c]]
          /\ connections' = connections + 1
          /\ client' = [client EXCEPT ![c].state = "accepted"]
      BY <1>3, <2>1, Zenon DEF add_client_socket
    <3>3. PICK i \in Slots : i = idx /\ client_socket[i].status = "CLOSED"
      BY <3>1
    <3> HIDE DEF idx
    <3> QED  BY <1>3, <3>2, <3>3, TakeSlot
  <2>2. CASE free = {}
    <3>1. client' = [client EXCEPT ![c].state = "unslotted"]
      BY <1>3, <2>2, Zenon DEF add_client_socket
    <3>2. UNCHANGED <<client_socket, connections>>
      BY <1>3, <2>2, Zenon DEF add_client_socket
    <3> DEFINE b == [client[c] EXCEPT !.state = "unslotted"]
    <3>3. /\ client[c] \in Browser /\ client[c].taken <= client[c].sent
          /\ client[c].sent <= Len(client[c].script)
      BY DEF SlotInv, Sane
    <3>4. /\ b \in Browser /\ b.state = "unslotted" /\ b.script = client[c].script
          /\ b.sent = client[c].sent /\ b.taken = client[c].taken /\ b.answer = client[c].answer
      BY <3>3 DEF Browser
    <3>5. client' = [client EXCEPT ![c] = b]
      BY <3>1, Zenon
    <3> HIDE DEF b
    <3>6. /\ client' \in [Client -> Browser] /\ client'[c] = b
          /\ \A d \in Client : d # c => client'[d] = client[d]
          /\ \A d \in Client : Sane(d)'
          /\ \A d \in Client : client'[d].script = client[d].script
      BY <3>3, <3>4, <3>5, OneBrowser
    <3>7. \A d \in Client : Here(d)' <=> Here(d)
      BY <1>3, <3>4, <3>6 DEF Here
    <3> QED  BY <3>2, <3>6, <3>7, BrowsersChange
  <2> QED  BY <2>1, <2>2
<1>4. CASE /\ client' = [c \in Client |-> IF client[c].state = "backlog"
                                          THEN [Unconnected EXCEPT !.state = "closed"] ELSE client[c]]
           /\ UNCHANGED <<client_socket, connections>>
  <2> DEFINE b == [Unconnected EXCEPT !.state = "closed"]
  <2>1. /\ b \in Browser /\ b.state = "closed" /\ b.sent = 0 /\ b.taken = 0 /\ b.answer = NoPage
        /\ b.script \in Seq(Chunk)
    BY UnconnectedSane DEF Browser, Unconnected
  <2>2. client' = [c \in Client |-> IF client[c].state = "backlog" THEN b ELSE client[c]]
    BY <1>4
  <2> HIDE DEF b
  <2>3. client' \in [Client -> Browser]
    BY <2>1, <2>2 DEF SlotInv
  <2>4. \A c \in Client : client'[c] = IF client[c].state = "backlog" THEN b ELSE client[c]
    BY <2>2
  <2>5. Len(b.script) \in Nat
    BY <2>1, ScriptsAreSequences DEF Scripted
  <2>6. \A c \in Client : Sane(c)' /\ (Here(c)' <=> Here(c))
    <3> SUFFICES ASSUME NEW c \in Client PROVE Sane(c)' /\ (Here(c)' <=> Here(c))
      OBVIOUS
    <3>1. CASE client[c].state = "backlog"
      <4>1. client'[c] = b
        BY <2>4, <3>1
      <4> QED  BY <2>1, <2>5, <3>1, <4>1 DEF Sane, Here, NoPage
    <3>2. CASE client[c].state # "backlog"
      <4>1. client'[c] = client[c]
        BY <2>4, <3>2
      <4> QED  BY <4>1 DEF SlotInv, Sane, Here
    <3> QED  BY <3>1, <3>2
  <2>7. \A c \in Client : Here(c) => client'[c].script = client[c].script
    BY <2>4 DEF Here
  <2>8. UNCHANGED <<client_socket, connections>>
    BY <1>4
  <2> QED  BY <1>1, <2>3, <2>6, <2>7, <2>8, BrowsersChange
<1> QED  BY <1>1, <1>2, <1>3, <1>4 DEF AcceptTask

\* The slot is closed, or kept with what became of it.
Settle(s, recv, ready, sent) ==
    IF sent.status \in ClosingStatuses
    THEN close_client_socket(at, IF sent.status = "RESPONSE_SENT" THEN ready.response ELSE NoPage)
    ELSE /\ client_socket' = [client_socket EXCEPT ![at] = sent]
         /\ client' = [client EXCEPT ![s.socket].taken = recv.taken]
         /\ UNCHANGED connections

LEMMA SettleKeeps ==
    ASSUME SlotInv, at \in Slots, NEW s, s = client_socket[at], s.status # "CLOSED",
           NEW recv, Received(s, recv), NEW ready, NEW sent, Settle(s, recv, ready, sent),
           sent.socket = s.socket,
           sent.status \in ClosingStatuses \/ (Rests(sent) /\ sent.status # "CLOSED"),
           ready.response \in Answers
    PROVE  SlotInv'
<1>1. CASE sent.status \in ClosingStatuses
  <2> DEFINE answer == IF sent.status = "RESPONSE_SENT" THEN ready.response ELSE NoPage
  <2>1. answer \in Answers
    BY DEF Answers, NoPage
  <2>2. close_client_socket(at, answer)
    BY <1>1, Zenon DEF Settle
  <2>3. client_socket[at].status # "CLOSED"
    OBVIOUS
  <2> HIDE DEF answer
  <2> QED  BY <2>1, <2>2, <2>3, GiveBack
<1>2. CASE sent.status \notin ClosingStatuses
  <2>1. recv.taken \in Nat /\ recv.taken <= client[sent.socket].sent
    BY DEF Received
  <2>2. /\ client_socket' = [client_socket EXCEPT ![at] = sent] /\ connections' = connections
        /\ client' = [client EXCEPT ![sent.socket].taken = recv.taken]
    BY <1>2, Zenon DEF Settle
  <2>3. Rests(sent) /\ sent.status # "CLOSED" /\ sent.socket = client_socket[at].socket
        /\ client_socket[at].status # "CLOSED"
    BY <1>2
  <2> QED  BY <2>1, <2>2, <2>3, KeepSlot
<1> QED  BY <1>1, <1>2

LEMMA SlotTaskKeeps ==
    ASSUME TaskInv, SlotInv, NEW result, SlotTask(result)
    PROVE  TaskInv' /\ SlotInv'
<1>1. /\ at \in Slots /\ client_socket[at] \in Socket /\ Rests(client_socket[at])
      /\ cfg_changed \in BOOLEAN /\ clb_set \in BOOLEAN /\ overdue \in BOOLEAN
  BY ServerAssumption DEF SlotTask, TaskInv, SlotInv, Slots
<1>2. PICK s : s = client_socket[at]
  OBVIOUS
<1>3. \/ /\ UNCHANGED <<client_socket, connections, client>>
         /\ cfg_changed' = AfterCallback(cfg_changed)
      \/ /\ s.status # "CLOSED"
         /\ \E recv \in receive_task(s), ok \in BOOLEAN :
            \E page \in PagesFor(cfg_changed \/ recv.found) :
               /\ cfg_changed' = AfterCallback(cfg_changed \/ recv.found)
               /\ Settle(s, recv, set_response(recv.slot, page, ok),
                         send_task(set_response(recv.slot, page, ok), result))
  <2>1. \/ /\ UNCHANGED <<client_socket, connections, client>>
           /\ cfg_changed' = AfterCallback(cfg_changed)
        \/ /\ client_socket[at].status # "CLOSED"
           /\ \E recv \in receive_task(client_socket[at]), ok \in BOOLEAN :
              \E page \in PagesFor(cfg_changed \/ recv.found) :
                 /\ cfg_changed' = AfterCallback(cfg_changed \/ recv.found)
                 /\ Settle(client_socket[at], recv, set_response(recv.slot, page, ok),
                           send_task(set_response(recv.slot, page, ok), result))
    BY ZenonT(60) DEF SlotTask, Settle
  <2> QED  BY <1>2, <2>1, Zenon
<1>4. /\ at' = (at + 1) % (MaxConnection + 1) /\ overdue' = (overdue /\ cfg_changed')
      /\ UNCHANGED <<server_socket, clb_set, registered>>
  BY DEF SlotTask
<1>5. ASSUME NEW changed \in BOOLEAN, cfg_changed' = AfterCallback(changed)
      PROVE  TaskInv'
  <2>1. at' \in 0 .. MaxConnection
    <3>1. at \in Nat /\ MaxConnection \in Nat \ {0}
      BY <1>1, ServerAssumption DEF Slots
    <3> QED  BY <1>4, <3>1
  <2>2. cfg_changed' \in BOOLEAN /\ (cfg_changed' => ~clb_set')
    BY <1>1, <1>4, <1>5, Zenon DEF AfterCallback
  <2>3. overdue' \in BOOLEAN
    BY <1>1, <1>4, <2>2
  <2> QED  BY <1>4, <2>1, <2>2, <2>3 DEF TaskInv
<1>6. CASE UNCHANGED <<client_socket, connections, client>> /\ cfg_changed' = AfterCallback(cfg_changed)
  <2>1. \A c \in Client : Sane(c)' /\ (Here(c)' <=> Here(c))
    BY <1>6 DEF SlotInv, Sane, Here
  <2>2. client' \in [Client -> Browser] /\ UNCHANGED <<client_socket, connections, client>>
    BY <1>6 DEF SlotInv
  <2>3. SlotInv'
    BY <2>1, <2>2, BrowsersChange
  <2>4. TaskInv'
    BY <1>1, <1>5, <1>6, Zenon
  <2> QED  BY <2>3, <2>4
<1>7. ASSUME s.status # "CLOSED", NEW recv \in receive_task(s), NEW ok \in BOOLEAN,
             NEW page \in PagesFor(cfg_changed \/ recv.found),
             cfg_changed' = AfterCallback(cfg_changed \/ recv.found),
             Settle(s, recv, set_response(recv.slot, page, ok),
                    send_task(set_response(recv.slot, page, ok), result))
      PROVE  TaskInv' /\ SlotInv'
  <2>1. Rests(s) /\ s.status # "CLOSED"
    BY <1>1, <1>2, <1>7
  <2>2. Received(s, recv)
    BY <1>7, <2>1, ReceiveTask DEF SlotInv, Sane
  <2>3. PICK ready : ready = set_response(recv.slot, page, ok)
    OBVIOUS
  <2>4. PICK sent : sent = send_task(ready, result)
    OBVIOUS
  <2>5. /\ sent.socket = s.socket
        /\ sent.status \in ClosingStatuses \/ (Rests(sent) /\ sent.status # "CLOSED")
        /\ ready.response \in Answers
    BY <1>1, <2>1, <2>2, <2>3, <2>4, SlotTreated
  <2>6. Settle(s, recv, ready, sent)
    BY <1>7, <2>3, <2>4, Zenon
  <2>7. SlotInv'
    BY <1>1, <1>2, <2>1, <2>2, <2>5, <2>6, SettleKeeps
  <2>8. TaskInv'
    <3>1. (cfg_changed \/ recv.found) \in BOOLEAN
      BY <1>1, <2>2 DEF Received
    <3> QED  BY <1>5, <1>7, <3>1
  <2> QED  BY <2>7, <2>8
<1> QED  BY <1>3, <1>6, <1>7, Zenon

LEMMA ServerInductive ==
    ASSUME TaskInv, SlotInv, [Next]_vars
    PROVE  TaskInv' /\ SlotInv'
<1>1. CASE UNCHANGED vars \/ start_configurator_server
  <2>1. /\ UNCHANGED <<client_socket, connections, client>>
        /\ UNCHANGED <<server_socket, cfg_changed, at>>
        /\ registered' = registered \/ registered' = TRUE
        /\ \/ UNCHANGED <<clb_set, overdue>>
           \/ clb_set' \in BOOLEAN /\ overdue' = (overdue \/ (cfg_changed /\ ~clb_set /\ clb_set'))
    <3>1. CASE UNCHANGED vars
      BY <3>1 DEF vars
    <3>2. CASE start_configurator_server
      BY <3>2 DEF start_configurator_server
    <3> QED  BY <1>1, <3>1, <3>2
  <2>4. TaskInv'
    <3>1. registered' \in BOOLEAN /\ clb_set' \in BOOLEAN
      BY <2>1 DEF TaskInv
    <3>2. CASE UNCHANGED <<clb_set, overdue>>
      BY <2>1, <3>1, <3>2 DEF TaskInv
    <3>3. CASE clb_set' \in BOOLEAN /\ overdue' = (overdue \/ (cfg_changed /\ ~clb_set /\ clb_set'))
      <4>1. cfg_changed' = cfg_changed /\ (cfg_changed /\ clb_set => overdue)
        BY <2>1 DEF TaskInv
      <4>2. overdue' \in BOOLEAN
        BY <3>3
      <4>3. cfg_changed' /\ clb_set' => overdue'
        BY <3>3, <4>1, Zenon
      <4> QED  BY <2>1, <3>1, <4>2, <4>3 DEF TaskInv
    <3> QED  BY <2>1, <3>2, <3>3
  <2>2. \A c \in Client : Sane(c)' /\ (Here(c)' <=> Here(c))
    BY <2>1 DEF SlotInv, Sane, Here
  <2>3. client' \in [Client -> Browser]
    BY <2>1 DEF SlotInv
  <2> QED  BY <2>1, <2>2, <2>3, <2>4, BrowsersChange
<1>2. CASE Browse
  <2>1. TaskInv' /\ UNCHANGED <<client_socket, connections>>
    BY <1>2 DEF Browse, TaskInv
  <2>2. PICK c \in Client : Connect(c) \/ Send(c) \/ Leave(c)
    BY <1>2 DEF Browse
  <2> QED  BY <2>1, <2>2, ConnectSane, SendSane, LeaveSane
<1>3. CASE Task
  BY <1>3, AcceptKeeps, SlotTaskKeeps DEF Task, TreatSlot
<1> QED  BY <1>1, <1>2, <1>3 DEF Next

LEMMA ServerAlways == Spec => [](TaskInv /\ SlotInv)
BY InitServer, ServerInductive, PTL DEF Spec

\* For any number of slots and browsers, whatever they send: every variable keeps its type, no more is
\* received than was sent, and connections stays between none and all of the slots.
THEOREM ServerTypes == Spec => []TypeOK
<1>1. TaskInv /\ SlotInv => TypeOK
  <2> SUFFICES ASSUME TaskInv, SlotInv PROVE TypeOK
    OBVIOUS
  <2>1. connections \in 0 .. MaxConnection
    BY UsedFinite, ServerAssumption DEF SlotInv
  <2> QED  BY <2>1 DEF TaskInv, SlotInv, Sane, TypeOK
<1> QED  BY <1>1, ServerAlways, PTL

\* add_client_socket and close_client_socket, for any number of slots: connections counts those in use,
\* no two have the same connection, only a slot that is sending has a response, and a connection that was
\* accepted while a slot was free has one until it is closed, one that found none never.
THEOREM SlotsAgree == Spec => []SlotsConsistent
<1>1. SlotInv => SlotsConsistent
  BY DEF SlotInv, SlotsConsistent, Used, Rests, Here
<1> QED  BY <1>1, ServerAlways, PTL

-----------------------------------------------------------------------------
(***************************************************************************)
(* Who is told.                                                            *)
(***************************************************************************)

\* While the slots stay and no answer comes, nobody is told anything new.
LEMMA NobodyTold ==
    ASSUME UNCHANGED client_socket, NEW c \in Client, client'[c].answer \in {client[c].answer, NoPage},
           Told(c)'
    PROVE  Told(c)
BY DEF Told, NoPage

LEMMA BrowseTells ==
    ASSUME SlotInv, Browse, NEW c \in Client
    PROVE  client'[c].answer = client[c].answer
<1>1. client \in [Client -> Browser]
  BY DEF SlotInv
<1>2. PICK d \in Client : Connect(d) \/ Send(d) \/ Leave(d)
  BY DEF Browse
<1>3. client[d] \in Browser
  BY <1>1
<1>4. CASE Connect(d)
  <2>1. PICK script \in Scripts[d] : client' = [client EXCEPT ![d].state = "backlog", ![d].script = script]
    BY <1>4 DEF Connect
  <2> DEFINE b == [client[d] EXCEPT !.state = "backlog", !.script = script]
  <2>2. client' = [client EXCEPT ![d] = b]
    BY <1>1, <2>1, Zenon
  <2>3. b.answer = client[d].answer
    BY <1>3 DEF Browser
  <2> HIDE DEF b
  <2> QED  BY <1>1, <2>2, <2>3
<1>5. CASE Send(d)
  <2> DEFINE b == [client[d] EXCEPT !.sent = client[d].sent + 1]
  <2>1. client' = [client EXCEPT ![d] = b]
    BY <1>5, Zenon DEF Send
  <2>2. b.answer = client[d].answer
    BY <1>3 DEF Browser
  <2> HIDE DEF b
  <2> QED  BY <1>1, <2>1, <2>2
<1>6. CASE Leave(d)
  <2> DEFINE b == [client[d] EXCEPT !.state = "left"]
  <2>1. client' = [client EXCEPT ![d] = b]
    BY <1>6, Zenon DEF Leave
  <2>2. b.answer = client[d].answer
    BY <1>3 DEF Browser
  <2> HIDE DEF b
  <2> QED  BY <1>1, <2>1, <2>2
<1> QED  BY <1>2, <1>4, <1>5, <1>6

LEMMA AcceptTells ==
    ASSUME SlotInv, AcceptTask, NEW c \in Client, Told(c)'
    PROVE  Told(c)
<1>1. client \in [Client -> Browser] /\ client_socket \in [Slots -> Socket]
  BY DEF SlotInv
<1>2. CASE UNCHANGED <<client_socket, connections, client>>
  BY <1>2, NobodyTold
<1>3. ASSUME NEW d \in Client, add_client_socket(d)
      PROVE  Told(c)
  <2> DEFINE t == [Closed EXCEPT !.status = "OPENED", !.socket = d]
             A(b, state) == [b EXCEPT !.state = state]
             free == {i \in Slots : client_socket[i].status = "CLOSED"}
             idx == CHOOSE i \in free : \A j \in free : i <= j
  <2>1. \/ client_socket' = client_socket
        \/ client_socket' = [client_socket EXCEPT ![idx] = t]
    BY <1>3, Zenon DEF add_client_socket
  <2>2. t.response = NoPage
    BY DEF Closed
  <2>3. \E state \in {"accepted", "unslotted"} : client' = [client EXCEPT ![d].state = state]
    BY <1>3, Zenon DEF add_client_socket
  <2>4. PICK state \in {"accepted", "unslotted"} : client' = [client EXCEPT ![d] = A(client[d], state)]
    BY <2>3, Zenon
  <2>5. A(client[d], state).answer = client[d].answer
    BY <1>1 DEF Browser
  <2> HIDE DEF A, t, idx
  <2>6. client'[c].answer = client[c].answer
    BY <1>1, <2>4, <2>5
  <2>7. \A i \in Slots : client_socket'[i] \in {client_socket[i], t}
    BY <1>1, <2>1
  <2> QED  BY <2>2, <2>6, <2>7 DEF Told, NoPage
<1>4. CASE /\ client' = [d \in Client |-> IF client[d].state = "backlog"
                                          THEN [Unconnected EXCEPT !.state = "closed"] ELSE client[d]]
           /\ UNCHANGED <<client_socket, connections>>
  <2>1. [Unconnected EXCEPT !.state = "closed"].answer = NoPage
    BY DEF Unconnected
  <2>2. client'[c].answer \in {client[c].answer, NoPage}
    BY <1>4, <2>1
  <2> QED  BY <1>4, <2>2, NobodyTold
<1> QED  BY <1>2, <1>3, <1>4 DEF AcceptTask

\* The treatment of a slot tells its own browser, if anybody.
LEMMA SettleTells ==
    ASSUME SlotInv, at \in Slots, NEW s, s = client_socket[at], s.socket \in Client,
           NEW recv, NEW ready, NEW sent, Settle(s, recv, ready, sent), sent.socket = s.socket,
           ready.response \in {"SUCCESS", "ERROR"} => Hears(s),
           sent.response \in {"SUCCESS", "ERROR"} => Hears(s),
           NEW c \in Client, Told(c)', ~Told(c)
    PROVE  (cfg_changed /\ clb_set) \/ Wants(c)
<1>1. client \in [Client -> Browser] /\ client_socket \in [Slots -> Socket]
  BY DEF SlotInv
<1>2. Hears(s) /\ s.socket = c => (cfg_changed /\ clb_set) \/ Wants(c)
  BY DEF Hears, Told
<1>3. CASE sent.status \in ClosingStatuses
  <2> DEFINE answer == IF sent.status = "RESPONSE_SENT" THEN ready.response ELSE NoPage
             b == [Unconnected EXCEPT !.state = "closed", !.script = client[s.socket].script,
                                      !.answer = answer]
  <2>1. client_socket' = [client_socket EXCEPT ![at] = Closed] /\ client' = [client EXCEPT ![s.socket] = b]
    BY <1>3, Zenon DEF Settle, close_client_socket
  <2>2. b.answer = answer /\ Closed.response = NoPage
    BY DEF Unconnected, Closed
  <2>3. answer \in {"SUCCESS", "ERROR"} => Hears(s)
    BY DEF NoPage
  <2> HIDE DEF answer, b
  <2>4. \A i \in Slots : client_socket'[i] \in {client_socket[i], Closed}
    BY <1>1, <2>1
  <2>5. client'[s.socket] = b /\ (c # s.socket => client'[c] = client[c])
    BY <1>1, <2>1
  <2>6. CASE c = s.socket
    BY <1>2, <2>2, <2>3, <2>4, <2>5, <2>6 DEF Told, NoPage
  <2>7. CASE c # s.socket
    BY <2>2, <2>4, <2>5, <2>7 DEF Told, NoPage
  <2> QED  BY <2>6, <2>7
<1>4. CASE sent.status \notin ClosingStatuses
  <2> DEFINE b == [client[s.socket] EXCEPT !.taken = recv.taken]
  <2>1. client_socket' = [client_socket EXCEPT ![at] = sent] /\ client' = [client EXCEPT ![s.socket] = b]
    BY <1>4, Zenon DEF Settle
  <2>2. b.answer = client[s.socket].answer
    BY <1>1 DEF Browser
  <2> HIDE DEF b
  <2>3. client'[c].answer = client[c].answer
    BY <1>1, <2>1, <2>2
  <2>4. client_socket'[at] = sent /\ \A i \in Slots : i # at => client_socket'[i] = client_socket[i]
    BY <1>1, <2>1
  <2>5. s.socket = c /\ sent.response \in {"SUCCESS", "ERROR"}
    BY <2>3, <2>4 DEF Told
  <2> QED  BY <1>2, <2>5
<1> QED  BY <1>3, <1>4

LEMMA SlotTaskTells ==
    ASSUME TaskInv, SlotInv, NEW result, SlotTask(result), NEW c \in Client, Told(c)', ~Told(c)
    PROVE  (cfg_changed /\ clb_set) \/ Wants(c)
<1>1. /\ at \in Slots /\ client_socket[at] \in Socket /\ Rests(client_socket[at])
      /\ cfg_changed \in BOOLEAN /\ clb_set \in BOOLEAN
  BY ServerAssumption DEF SlotTask, TaskInv, SlotInv, Slots
<1>2. PICK s : s = client_socket[at]
  OBVIOUS
<1>3. \/ UNCHANGED <<client_socket, connections, client>>
      \/ /\ s.status # "CLOSED"
         /\ \E recv \in receive_task(s), ok \in BOOLEAN :
            \E page \in PagesFor(cfg_changed \/ recv.found) :
               Settle(s, recv, set_response(recv.slot, page, ok),
                      send_task(set_response(recv.slot, page, ok), result))
  <2>1. \/ UNCHANGED <<client_socket, connections, client>>
        \/ /\ client_socket[at].status # "CLOSED"
           /\ \E recv \in receive_task(client_socket[at]), ok \in BOOLEAN :
              \E page \in PagesFor(cfg_changed \/ recv.found) :
                 Settle(client_socket[at], recv, set_response(recv.slot, page, ok),
                        send_task(set_response(recv.slot, page, ok), result))
    BY ZenonT(60) DEF SlotTask, Settle
  <2> QED  BY <1>2, <2>1, Zenon
<1>4. CASE UNCHANGED <<client_socket, connections, client>>
  BY <1>4, NobodyTold
<1>5. ASSUME s.status # "CLOSED", NEW recv \in receive_task(s), NEW ok \in BOOLEAN,
             NEW page \in PagesFor(cfg_changed \/ recv.found),
             Settle(s, recv, set_response(recv.slot, page, ok),
                    send_task(set_response(recv.slot, page, ok), result))
      PROVE  (cfg_changed /\ clb_set) \/ Wants(c)
  <2>1. Rests(s) /\ s.status # "CLOSED" /\ s.socket \in Client
    BY <1>1, <1>2, <1>5 DEF Rests, Socket
  <2>2. Received(s, recv)
    BY <1>5, <2>1, ReceiveTask DEF SlotInv, Sane
  <2>3. PICK ready : ready = set_response(recv.slot, page, ok)
    OBVIOUS
  <2>4. PICK sent : sent = send_task(ready, result)
    OBVIOUS
  <2>5. /\ sent.socket = s.socket
        /\ ready.response \in {"SUCCESS", "ERROR"} => Hears(s)
        /\ sent.response \in {"SUCCESS", "ERROR"} => Hears(s)
    BY <1>1, <2>1, <2>2, <2>3, <2>4, SlotTreated
  <2>6. Settle(s, recv, ready, sent)
    BY <1>5, <2>3, <2>4, Zenon
  <2> QED  BY <1>1, <1>2, <2>1, <2>5, <2>6, SettleTells
<1> QED  BY <1>3, <1>4, <1>5, Zenon

LEMMA NextTells ==
    ASSUME TaskInv, SlotInv, Next, NEW c \in Client, Told(c)', ~Told(c)
    PROVE  overdue \/ Wants(c)
<1>1. (cfg_changed /\ clb_set) => overdue
  BY DEF TaskInv
<1>2. CASE start_configurator_server
  BY <1>2, NobodyTold DEF start_configurator_server
<1>3. CASE Browse
  <2>1. UNCHANGED client_socket
    BY <1>3 DEF Browse
  <2> QED  BY <1>3, <2>1, BrowseTells, NobodyTold
<1>4. CASE AcceptTask
  BY <1>4, AcceptTells
<1>5. CASE \E result \in SendResults : SlotTask(result)
  BY <1>1, <1>5, SlotTaskTells
<1> QED  BY <1>2, <1>3, <1>4, <1>5 DEF Next, Task, TreatSlot

\* configurator_server_task, for any number of slots and of browsers that send at once, and for every
\* start of the server with or without a callback: a browser that sent no settings gets the page that
\* they were taken or refused only in the one call that reports a change which had waited for a start
\* that gave a callback.
THEOREM NobodyElsesPage == Spec => PageOwn
<1> DEFINE Step == \A c \in Client : Told(c)' /\ ~Told(c) =>
                       overdue \/ \E n \in DOMAIN client[c].script : client[c].script[n] = "settings"
<1>1. TaskInv /\ SlotInv /\ [Next]_vars => [Step]_vars
  BY NextTells DEF Wants
<1>2. Spec => [][Step]_vars
  BY <1>1, ServerAlways, PTL DEF Spec
<1> QED  BY <1>2 DEF PageOwn

=============================================================================
