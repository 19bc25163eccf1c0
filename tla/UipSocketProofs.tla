--------------------------- MODULE UipSocketProofs ---------------------------
(***************************************************************************)
(* Theorems about a socket of the uIP port, for every size of the buffers, *)
(* the window and the segments, and any number of bytes and connections:   *)
(* on the ring of CbufferProofs, both streams keep their bytes and order,  *)
(* as long as the peer does not change its window under a segment and no   *)
(* segment is as long as the receive window.                               *)
(***************************************************************************)
EXTENDS UipSocket, CbufferProofs, SequenceTheorems, WellFoundedInduction, NaturalsInduction

-----------------------------------------------------------------------------
(***************************************************************************)
(* The invariant.                                                          *)
(***************************************************************************)

\* A connection that is not yet established has carried nothing, and nobody has been told that it is.
Fresh ==
    tcp.flags \in {"RESERVED", "SYN_SENT"} =>
        /\ ~pstate.connected /\ sock # "connected"
        /\ accepted = 0 /\ peer = <<>> /\ pstate.outbuf = <<>>
        /\ tcp.len = <<>> /\ tcp.una = 0 /\ tcp.rcv_nxt = 0

\* A close that was asked for on the slot before is gone once the caller has sent something.
NotClosing ==
    /\ sock = "open" => accepted = 0
    /\ sock = "connected" /\ accepted > 0 => pstate.state # "CLOSE"

\* outbuf is the end of what was accepted, and the outstanding segment its front; between una and
\* accepted lies exactly outbuf, and the peer has the bytes before, unless its window changed.
Outgoing ==
    /\ Established =>
        /\ Len(pstate.outbuf) <= accepted
        /\ pstate.outbuf = From(accepted - Len(pstate.outbuf), Len(pstate.outbuf))
        /\ Len(tcp.len) <= Len(pstate.outbuf)
        /\ \A i \in 1 .. Len(tcp.len) : tcp.len[i] \in {pstate.outbuf[i], Stale}
        /\ tcp.una <= Len(peer)
    /\ "resized" \notin trouble =>
        /\ peer = From(0, Len(peer)) /\ Len(peer) <= accepted
        /\ Established =>
            /\ tcp.una + Len(pstate.outbuf) = accepted
            /\ tcp.len # <<>> => tcp.len = From(tcp.una, Min({tcp.mss, Len(pstate.outbuf)}))

\* A segment fits into the ring, or the single buffer is free.
HasRoom(s) == IF build = "TCPBUF" THEN cbuffer_get_free(s.ring) >= Window ELSE s.inbuf = <<>>

\* The peer may send only while there is room, and only an empty buffer asks for the restart.
Room ==
    /\ ~tcp.stopped => HasRoom(pstate)
    /\ pstate.state = "RECV" => Buffered = <<>>

\* The bytes b follow r without a gap (a byte may come again), and the last of them.
InOrder(b, r) == \A i \in 1 .. Len(b) : b[i] <= 1 + (IF i = 1 THEN r ELSE b[i - 1])
LastOf(b, r) == IF b = <<>> THEN r ELSE b[Len(b)]

Incoming ==
    /\ "filled" \in trouble => Mss = Window
    /\ "filled" \notin trouble =>
        /\ InOrder(Buffered, read)
        /\ Established => tcp.rcv_nxt <= LastOf(Buffered, read)

UipInv == TypeOK /\ Fresh /\ NotClosing /\ Outgoing /\ Room /\ Incoming

-----------------------------------------------------------------------------
(***************************************************************************)
(* Minima, maxima, and the sequences of consecutive numbers.               *)
(***************************************************************************)

LEMMA MinTwo ==
    ASSUME NEW a \in Int, NEW b \in Int
    PROVE  Min({a, b}) = IF a <= b THEN a ELSE b
<1> DEFINE m == IF a <= b THEN a ELSE b
<1>1. m \in {a, b} /\ \A y \in {a, b} : m =< y
  OBVIOUS
<1>2. \A x \in {a, b} : (\A y \in {a, b} : x =< y) => x = m
  OBVIOUS
<1> HIDE DEF m
<1>3. Min({a, b}) \in {a, b} /\ \A y \in {a, b} : Min({a, b}) =< y
  BY <1>1 DEF Min
<1> QED  BY <1>2, <1>3 DEF m

LEMMA MaxTwo ==
    ASSUME NEW a \in Int, NEW b \in Int
    PROVE  Max({a, b}) = IF a >= b THEN a ELSE b
<1> DEFINE m == IF a >= b THEN a ELSE b
<1>1. m \in {a, b} /\ \A y \in {a, b} : m >= y
  OBVIOUS
<1>2. \A x \in {a, b} : (\A y \in {a, b} : x >= y) => x = m
  OBVIOUS
<1> HIDE DEF m
<1>3. Max({a, b}) \in {a, b} /\ \A y \in {a, b} : Max({a, b}) >= y
  BY <1>1 DEF Max
<1> QED  BY <1>2, <1>3 DEF m

\* A non-empty set of naturals with a bound has a maximum.
LEMMA MaxBounds ==
    ASSUME NEW S, NEW bound \in Nat, S \subseteq 0 .. bound, S # {}
    PROVE  Max(S) \in S /\ \A y \in S : Max(S) >= y
<1> DEFINE T == {n \in Nat : bound - n \in S}
           R == {ss \in Nat \X Nat : ss[1] < ss[2]}
<1>1. T # {}
  <2>1. PICK x \in S : TRUE
    OBVIOUS
  <2>2. bound - x \in Nat /\ bound - (bound - x) = x
    BY <2>1
  <2> QED  BY <2>1, <2>2
<1>2. IsWellFoundedOn(R, Nat)
  <2>1. OpToRel(<, Nat) = R
    BY DEF OpToRel
  <2> QED  BY <2>1, NatLessThanWellFounded
<1>3. PICK n \in T : \A k \in T : ~ (<<k, n>> \in R)
  <2>1. T \subseteq Nat
    OBVIOUS
  <2> HIDE DEF R, T
  <2> QED  BY <1>1, <1>2, <2>1, WFMin
<1>4. ASSUME NEW y \in S PROVE bound - n >= y
  <2>1. bound - y \in T
    <3>1. bound - y \in Nat /\ bound - (bound - y) = y
      OBVIOUS
    <3> QED  BY <3>1
  <2>2. ~ (bound - y < n)
    BY <1>3, <2>1
  <2> QED  BY <1>3, <2>2
<1>5. bound - n \in S
  BY <1>3
<1> HIDE DEF T, R
<1>6. \E x \in S : \A y \in S : x >= y
  BY <1>4, <1>5
<1> QED  BY <1>6 DEF Max

LEMMA FromProperties ==
    ASSUME NEW first \in Nat, NEW n \in Nat
    PROVE  /\ From(first, n) \in Seq(Nat) /\ Len(From(first, n)) = n
           /\ \A i \in 1 .. n : From(first, n)[i] = first + i
<1>1. From(first, n) = [i \in 1 .. n |-> first + i]
  BY DEF From
<1>2. \A i \in 1 .. n : first + i \in Nat
  OBVIOUS
<1> QED  BY <1>1, <1>2

\* A sequence of consecutive numbers is From.
LEMMA IsFrom ==
    ASSUME NEW first \in Nat, NEW s \in Seq(Nat), \A i \in 1 .. Len(s) : s[i] = first + i
    PROVE  s = From(first, Len(s))
<1> DEFINE n == Len(s)
           t == From(first, n)
<1>1. n \in Nat
  OBVIOUS
<1>2. t \in Seq(Nat) /\ Len(t) = n /\ \A i \in 1 .. n : t[i] = first + i
  BY <1>1, FromProperties
<1> HIDE DEF t
<1> QED  BY <1>2, SeqEqual DEF t

LEMMA FromNone ==
    ASSUME NEW first \in Nat, NEW n \in Nat
    PROVE  From(first, n) = <<>> <=> n = 0
<1> DEFINE s == From(first, n)
<1>1. s \in Seq(Nat) /\ Len(s) = n
  BY FromProperties
<1> HIDE DEF s
<1> QED  BY <1>1, EmptySeq DEF s

LEMMA FromType ==
    ASSUME NEW first \in Nat, NEW n \in Nat, NEW m \in Nat, first + n <= m
    PROVE  From(first, n) \in Seq(1 .. m)
<1> DEFINE s == From(first, n)
<1>1. s \in Seq(Nat) /\ Len(s) = n /\ \A i \in 1 .. n : s[i] = first + i
  BY FromProperties
<1> HIDE DEF s
<1>2. \A i \in 1 .. Len(s) : s[i] \in 1 .. m
  BY <1>1
<1> QED  BY <1>1, <1>2 DEF s

LEMMA FromPrefix ==
    ASSUME NEW first \in Nat, NEW n \in Nat, NEW k \in Nat
    PROVE  Prefix(From(first, n), k) = From(first, Min({k, n}))
<1> DEFINE s == From(first, n)
           m == Min({k, n})
           t == SubSeq(s, 1, m)
<1>1. s \in Seq(Nat) /\ Len(s) = n /\ \A i \in 1 .. n : s[i] = first + i
  BY FromProperties
<1>2. m \in Nat /\ m <= n
  BY MinTwo
<1> HIDE DEF s, m
<1>3. t \in Seq(Nat) /\ Len(t) = m /\ \A i \in 1 .. m : t[i] = s[i]
  BY <1>1, <1>2
<1> HIDE DEF t
<1>4. \A i \in 1 .. Len(t) : t[i] = first + i
  BY <1>1, <1>2, <1>3
<1>5. t = From(first, m)
  BY <1>3, <1>4, IsFrom
<1> QED  BY <1>1, <1>5 DEF s, m, t, Prefix

LEMMA FromSuffix ==
    ASSUME NEW first \in Nat, NEW n \in Nat, NEW k \in 0 .. n
    PROVE  Suffix(From(first, n), k) = From(first + k, n - k)
<1> DEFINE s == From(first, n)
           t == SubSeq(s, k + 1, n)
<1>1. s \in Seq(Nat) /\ Len(s) = n /\ \A i \in 1 .. n : s[i] = first + i
  BY FromProperties
<1> HIDE DEF s
<1>2. t \in Seq(Nat) /\ Len(t) = n - k /\ \A i \in 1 .. n - k : t[i] = s[i + k]
  BY <1>1
<1> HIDE DEF t
<1>3. \A i \in 1 .. Len(t) : t[i] = first + k + i
  BY <1>1, <1>2
<1>4. t = From(first + k, Len(t))
  BY <1>2, <1>3, IsFrom
<1> QED  BY <1>1, <1>2, <1>4 DEF s, t, Suffix

LEMMA FromConcat ==
    ASSUME NEW first \in Nat, NEW n \in Nat, NEW k \in Nat
    PROVE  From(first, n) \o From(first + n, k) = From(first, n + k)
<1> DEFINE s == From(first, n)
           t == From(first + n, k)
           u == s \o t
<1>1. s \in Seq(Nat) /\ Len(s) = n /\ \A i \in 1 .. n : s[i] = first + i
  BY FromProperties
<1>2. t \in Seq(Nat) /\ Len(t) = k /\ \A i \in 1 .. k : t[i] = first + n + i
  <2>1. first + n \in Nat
    OBVIOUS
  <2> QED  BY <2>1, FromProperties
<1> HIDE DEF s, t
<1>3. /\ u \in Seq(Nat) /\ Len(u) = n + k
      /\ \A i \in 1 .. n + k : u[i] = IF i <= n THEN s[i] ELSE t[i - n]
  BY <1>1, <1>2, ConcatProperties
<1> HIDE DEF u
<1>4. ASSUME NEW i \in 1 .. n + k PROVE u[i] = first + i
  <2>1. CASE i <= n
    BY <1>1, <1>3, <2>1
  <2>2. CASE ~ (i <= n)
    <3>1. i - n \in 1 .. k /\ u[i] = t[i - n]
      BY <1>3, <2>2
    <3> QED  BY <1>2, <3>1
  <2> QED  BY <2>1, <2>2
<1>5. u = From(first, Len(u))
  BY <1>3, <1>4, IsFrom
<1> QED  BY <1>3, <1>5 DEF s, t, u

-----------------------------------------------------------------------------
(***************************************************************************)
(* The bytes of the peer, in the buffer and before it.                     *)
(***************************************************************************)

LEMMA InOrderAppend ==
    ASSUME NEW b \in Seq(Nat), NEW r \in Nat, NEW first \in Nat, NEW n \in Nat \ {0},
           InOrder(b, r), first <= LastOf(b, r)
    PROVE  /\ InOrder(b \o From(first, n), r)
           /\ LastOf(b \o From(first, n), r) = first + n
<1> DEFINE m == Len(b)
           t == From(first, n)
           u == b \o t
<1>1. t \in Seq(Nat) /\ Len(t) = n /\ \A i \in 1 .. n : t[i] = first + i
  BY FromProperties
<1>2. m \in Nat /\ \A i \in 1 .. m : b[i] \in Nat
  OBVIOUS
<1>3. \A i \in 1 .. m : b[i] <= 1 + (IF i = 1 THEN r ELSE b[i - 1])
  BY DEF InOrder
<1>4. first <= IF m = 0 THEN r ELSE b[m]
  BY EmptySeq DEF LastOf
<1> HIDE DEF t
<1>5. /\ u \in Seq(Nat) /\ Len(u) = m + n
      /\ \A i \in 1 .. m + n : u[i] = IF i <= m THEN b[i] ELSE t[i - m]
  BY <1>1, ConcatProperties
<1> HIDE DEF u, m
<1>6. \A i \in 1 .. m + n : u[i] = IF i <= m THEN b[i] ELSE first + (i - m)
  <2> TAKE i \in 1 .. m + n
  <2>1. ~ (i <= m) => i - m \in 1 .. n
    BY <1>2
  <2> QED  BY <1>1, <1>5, <2>1
<1>7. ASSUME NEW i \in 1 .. m + n
      PROVE  u[i] <= 1 + (IF i = 1 THEN r ELSE u[i - 1])
  <2>1. CASE i = 1
    BY <1>2, <1>3, <1>4, <1>6, <2>1
  <2>2. CASE i # 1
    <3>1. i - 1 \in 1 .. m + n /\ m \in Nat
      BY <1>2, <2>2
    <3>2. u[i - 1] = IF i - 1 <= m THEN b[i - 1] ELSE first + (i - 1 - m)
      BY <1>6, <3>1
    <3>3. CASE i <= m
      <4>1. u[i] = b[i] /\ u[i - 1] = b[i - 1] /\ i \in 1 .. m
        BY <1>6, <3>1, <3>2, <3>3
      <4> QED  BY <1>3, <2>2, <4>1
    <3>4. CASE i = m + 1
      <4>1. u[i] = first + 1 /\ u[i - 1] = b[m] /\ m # 0 /\ b[m] \in Nat
        BY <1>2, <1>6, <2>2, <3>1, <3>2, <3>4
      <4> QED  BY <1>4, <2>2, <4>1
    <3>5. CASE i > m + 1
      <4>1. u[i] = first + (i - m) /\ u[i - 1] = first + (i - 1 - m)
        BY <1>6, <3>1, <3>2, <3>5
      <4> QED  BY <2>2, <3>1, <4>1
    <3> QED  BY <3>1, <3>3, <3>4, <3>5
  <2> QED  BY <2>1, <2>2
<1>8. InOrder(u, r)
  BY <1>5, <1>7 DEF InOrder
<1>9. LastOf(u, r) = first + n
  <2>1. u # <<>> /\ m + n \in 1 .. m + n
    BY <1>2, <1>5, EmptySeq
  <2>2. u[m + n] = first + n
    BY <1>2, <1>6, <2>1
  <2> QED  BY <1>5, <2>1, <2>2 DEF LastOf
<1> QED  BY <1>8, <1>9 DEF u, t

LEMMA InOrderDrop ==
    ASSUME NEW b \in Seq(Nat), NEW r \in Nat, NEW k \in 1 .. Len(b), InOrder(b, r)
    PROVE  /\ InOrder(Suffix(b, k), Max({r, b[k]}))
           /\ LastOf(b, r) <= LastOf(Suffix(b, k), Max({r, b[k]}))
           /\ Max({r, b[k]}) \in Nat
<1> DEFINE m == Len(b)
           t == SubSeq(b, k + 1, m)
           q == Max({r, b[k]})
<1>1. m \in Nat /\ \A i \in 1 .. m : b[i] \in Nat
  OBVIOUS
<1>2. \A i \in 1 .. m : b[i] <= 1 + (IF i = 1 THEN r ELSE b[i - 1])
  BY DEF InOrder
<1>3. LastOf(b, r) = b[m]
  BY EmptySeq DEF LastOf
<1>4. q \in Nat /\ b[k] <= q
  BY <1>1, MaxTwo
<1>6. k \in 1 .. m
  OBVIOUS
<1> HIDE DEF m
<1>5. t \in Seq(Nat) /\ Len(t) = m - k /\ \A i \in 1 .. m - k : t[i] = b[i + k]
  <2>1. k + 1 \in Int /\ m \in Int /\ \A i \in k + 1 .. m : b[i] \in Nat
    BY <1>1, <1>6
  <2>2. /\ t \in Seq(Nat) /\ Len(t) = IF k + 1 <= m THEN m - (k + 1) + 1 ELSE 0
        /\ \A i \in 1 .. m - (k + 1) + 1 : t[i] = b[(k + 1) + i - 1]
    BY <2>1, SubSeqProperties
  <2> HIDE DEF t
  <2> QED  BY <1>1, <1>6, <2>2
<1> HIDE DEF t, q, m
<1>7. ASSUME NEW i \in 1 .. Len(t)
      PROVE  t[i] <= 1 + (IF i = 1 THEN q ELSE t[i - 1])
  <2>1. /\ i \in 1 .. m - k /\ i + k \in 1 .. m /\ i + k # 1 /\ i + k - 1 = (i - 1) + k
        /\ i + k - 1 \in 1 .. m
    BY <1>1, <1>5, <1>6
  <2>2. t[i] = b[i + k] /\ b[i + k] <= 1 + b[i + k - 1]
    BY <1>2, <1>5, <2>1
  <2>3. CASE i = 1
    <3>1. i + k - 1 = k
      BY <1>6, <2>3
    <3> QED  BY <1>1, <1>4, <2>1, <2>2, <2>3, <3>1
  <2>4. CASE i # 1
    <3>1. i - 1 \in 1 .. m - k
      BY <1>1, <1>6, <2>1, <2>4
    <3>2. t[i - 1] = b[i + k - 1]
      BY <1>5, <2>1, <3>1
    <3> QED  BY <2>2, <2>4, <3>2
  <2> QED  BY <2>3, <2>4
<1>8. LastOf(t, q) >= b[m]
  <2>1. CASE k = m
    BY <1>1, <1>4, <1>5, <2>1, EmptySeq DEF LastOf
  <2>2. CASE k # m
    <3>1. m - k \in 1 .. m - k /\ (m - k) + k = m /\ Len(t) # 0
      BY <1>1, <1>5, <1>6, <2>2
    <3>2. t # <<>> /\ t[m - k] = b[m]
      BY <1>5, <3>1, EmptySeq
    <3>3. m \in 1 .. m
      BY <1>1, <1>6
    <3> QED  BY <1>1, <1>5, <3>2, <3>3 DEF LastOf
  <2> QED  BY <2>1, <2>2
<1>9. LastOf(t, q) \in Int /\ b[m] \in Nat
  <2>1. b[m] \in Nat
    BY <1>1, <1>6
  <2>2. t # <<>> => t[Len(t)] \in Nat
    <3>1. t # <<>> => Len(t) \in 1 .. Len(t)
      BY <1>5, EmptySeq
    <3> QED  BY <1>5, <3>1, ElementOfSeq
  <2> QED  BY <1>4, <2>1, <2>2 DEF LastOf
<1>10. InOrder(t, q) /\ b[m] <= LastOf(t, q)
  BY <1>7, <1>8, <1>9 DEF InOrder
<1> QED  BY <1>3, <1>4, <1>10 DEF t, q, m, Suffix

\* Bytes in order have no gaps, and the last of them is no more than the largest.
LEMMA InOrderNoGap ==
    ASSUME NEW bound \in Nat, NEW b \in Seq(0 .. bound), NEW r \in 0 .. bound, InOrder(b, r)
    PROVE  /\ \A i \in DOMAIN b : b[i] <= 1 + Max({r} \cup {b[j] : j \in 1 .. i - 1})
           /\ LastOf(b, r) <= Max({r} \cup {b[i] : i \in DOMAIN b})
<1> DEFINE m == Len(b)
<1>1. m \in Nat /\ DOMAIN b = 1 .. m /\ \A i \in 1 .. m : b[i] \in 0 .. bound
  OBVIOUS
<1>2. \A i \in 1 .. m : b[i] <= 1 + (IF i = 1 THEN r ELSE b[i - 1])
  BY DEF InOrder
<1>3. LastOf(b, r) = IF m = 0 THEN r ELSE b[m]
  BY EmptySeq DEF LastOf
<1> HIDE DEF m
<1> DEFINE upto(i) == {r} \cup {b[j] : j \in 1 .. i}
<1>4. ASSUME NEW i \in Int, i <= m, NEW x \in upto(i)
      PROVE  x <= Max(upto(i)) /\ Max(upto(i)) \in 0 .. bound
  <2>1. upto(i) \subseteq 0 .. bound
    BY <1>1, <1>4
  <2> HIDE DEF upto
  <2>2. Max(upto(i)) \in upto(i) /\ \A y \in upto(i) : Max(upto(i)) >= y
    BY <1>4, <2>1, MaxBounds
  <2> QED  BY <1>4, <2>1, <2>2
<1>5. ASSUME NEW i \in 1 .. m PROVE b[i] <= 1 + Max(upto(i - 1))
  <2>1. (IF i = 1 THEN r ELSE b[i - 1]) \in upto(i - 1)
    <3>1. i # 1 => i - 1 \in 1 .. i - 1
      OBVIOUS
    <3> QED  BY <3>1
  <2>2. i - 1 \in Int /\ i - 1 <= m /\ b[i] \in 0 .. bound
    BY <1>1
  <2> HIDE DEF upto
  <2> DEFINE x == IF i = 1 THEN r ELSE b[i - 1]
  <2>3. b[i] <= 1 + x /\ x \in upto(i - 1)
    BY <1>2, <2>1
  <2>4. x \in 0 .. bound
    <3>1. i # 1 => i - 1 \in 1 .. m
      BY <1>1
    <3> QED  BY <1>1, <3>1
  <2> HIDE DEF x
  <2>5. x <= Max(upto(i - 1)) /\ Max(upto(i - 1)) \in 0 .. bound
    BY <1>4, <2>2, <2>3
  <2> QED  BY <2>2, <2>3, <2>4, <2>5
<1>6. LastOf(b, r) <= Max(upto(m))
  <2>1. (IF m = 0 THEN r ELSE b[m]) \in upto(m)
    BY <1>1
  <2>2. m \in Int /\ m <= m
    BY <1>1
  <2> HIDE DEF upto
  <2> QED  BY <1>3, <1>4, <2>1, <2>2
<1> QED  BY <1>1, <1>5, <1>6

-----------------------------------------------------------------------------
(***************************************************************************)
(* The two buffers.                                                        *)
(***************************************************************************)

PStates == [inuse : BOOLEAN, connect_started : BOOLEAN, connected : BOOLEAN, state : States,
            res : Codes, ring : Cbuffer, inbuf : Seq(Byte), outbuf : Seq(1 .. MaxOut)]
Tcps == [flags : Flags, stopped : BOOLEAN, mss : 1 .. Mss, len : Seq(0 .. MaxOut), una : Nat,
         rcv_nxt : 0 .. MaxIn]

BufferOf(s) == IF build = "TCPBUF" THEN Contents(s.ring) ELSE s.inbuf

LEMMA Sizes ==
    /\ Window \in Nat \ {0} /\ Mss \in Nat \ {0} /\ OutMax \in Nat \ {0} /\ MaxIn \in Nat \ {0}
    /\ MaxOut \in Nat \ {0} /\ MaxConns \in Nat \ {0} /\ RingSize \in Nat \ {0}
    /\ Mss <= Window /\ Window <= RingSize /\ Byte = 1 .. MaxIn
BY UipAssumption, RingAssumption

LEMMA NewRing ==
    /\ cbuffer_new \in Cbuffer /\ Contents(cbuffer_new) = <<>>
    /\ cbuffer_get_free(cbuffer_new) = RingSize
<1> DEFINE buffer == [i \in Index |-> CHOOSE b \in Byte : TRUE]
<1>1. cbuffer_new = [buffer |-> buffer, read_pointer |-> 0, write_pointer |-> 0]
  BY DEF cbuffer_new
<1>2. buffer \in [Index -> Byte] /\ 0 \in Index
  <2>1. (CHOOSE b \in Byte : TRUE) \in Byte
    BY RingAssumption
  <2>2. buffer \in [Index -> Byte]
    BY <2>1
  <2>3. 0 \in Index
    BY RingAssumption DEF Index
  <2> QED  BY <2>2, <2>3
<1> HIDE DEF buffer
<1>3. cbuffer_new \in Cbuffer
  BY <1>1, <1>2 DEF Cbuffer
<1>4. cbuffer_get_used(cbuffer_new) = 0
  BY <1>1 DEF cbuffer_get_used
<1>5. Contents(cbuffer_new) \in Seq(Byte) /\ Len(Contents(cbuffer_new)) = 0
  BY <1>3, <1>4, ContentsType
<1>6. cbuffer_get_free(cbuffer_new) = RingSize
  BY <1>4, RingAssumption DEF cbuffer_get_free
<1> QED  BY <1>3, <1>5, <1>6, EmptySeq

LEMMA BufferType ==
    ASSUME NEW s \in PStates
    PROVE  BufferOf(s) \in Seq(Byte) /\ BufferOf(s) \in Seq(Nat) /\ BufferOf(s) \in Seq(0 .. MaxIn)
<1> DEFINE b == BufferOf(s)
<1>1. s.ring \in Cbuffer /\ s.inbuf \in Seq(Byte)
  BY DEF PStates
<1>2. b \in Seq(Byte)
  BY <1>1, ContentsType DEF BufferOf
<1>3. Byte \subseteq Nat /\ Byte \subseteq 0 .. MaxIn
  BY Sizes
<1> HIDE DEF b
<1> QED  BY <1>2, <1>3, SeqMonotonic DEF b

\* An empty buffer has room: a whole ring, or the single buffer.
LEMMA EmptyHasRoom ==
    ASSUME NEW s \in PStates, BufferOf(s) = <<>>
    PROVE  HasRoom(s)
<1>1. CASE build = "TCPBUF"
  <2>1. s.ring \in Cbuffer
    BY DEF PStates
  <2>2. Contents(s.ring) = <<>>
    BY <1>1 DEF BufferOf
  <2>3. cbuffer_get_used(s.ring) = 0
    BY <2>1, <2>2, ContentsType, EmptySeq
  <2>4. cbuffer_get_free(s.ring) >= Window
    BY <2>3, Sizes DEF cbuffer_get_free
  <2> QED  BY <1>1, <2>4 DEF HasRoom
<1>2. CASE build # "TCPBUF"
  BY <1>2 DEF HasRoom, BufferOf
<1> QED  BY <1>1, <1>2

\* A segment that finds room is appended, unless it fills the ring, and leaves room again or the
\* connection is stopped.
LEMMA Stored ==
    ASSUME NEW s \in PStates, HasRoom(s), NEW data \in Seq(Byte), Len(data) <= Mss
    PROVE  /\ Store(s, data) \in PStates
           /\ Fills(s, data) => Mss = Window
           /\ ~ Fills(s, data) => BufferOf(Store(s, data)) = BufferOf(s) \o data
           /\ Store(s, data).state = "IDLE" /\ Store(s, data).connected = s.connected
           /\ Store(s, data).outbuf = s.outbuf
           /\ ~ uip_stop(Store(s, data)) => HasRoom(Store(s, data))
<1> DEFINE ring == tcp_buffer_push(s.ring, data)
           t == Store(s, data)
<1>1. s.ring \in Cbuffer /\ s.inbuf \in Seq(Byte) /\ "SUCCESS" \in Codes /\ "IDLE" \in States
  BY DEF PStates, Codes, States
<1>2. CASE build = "TCPBUF"
  <2>1. cbuffer_get_free(s.ring) >= Window /\ cbuffer_get_free(s.ring) \in 1 .. RingSize
    BY <1>1, <1>2, UsedRange DEF HasRoom
  <2>2. Len(data) \in Nat /\ Len(data) <= cbuffer_get_free(s.ring) /\ Len(data) <= RingSize
    BY <2>1, Sizes
  <2>3. ring \in Cbuffer
    BY <1>1, <2>2, PushFields
  <2>4. ~ Fills(s, data) => Contents(ring) = Contents(s.ring) \o data
    <3>1. ~ Fills(s, data) => Len(data) < cbuffer_get_free(s.ring)
      BY <1>2, <2>1, <2>2 DEF Fills
    <3> QED  BY <1>1, <2>2, <3>1, PushAppends
  <2>5. t = [[s EXCEPT !.ring = ring] EXCEPT !.res = "SUCCESS", !.state = "IDLE"]
    BY <1>2, Zenon DEF Store, prep_socket_state
  <2>6. cbuffer_get_free(ring) \in 1 .. RingSize
    BY <2>3, UsedRange
  <2>10. Fills(s, data) => Mss = Window
    BY <2>1, <2>2, Sizes DEF Fills
  <2> HIDE DEF ring, t
  <2>7. /\ t \in PStates /\ t.ring = ring /\ t.state = "IDLE" /\ t.connected = s.connected
        /\ t.outbuf = s.outbuf
    BY <1>1, <2>3, <2>5 DEF PStates
  <2>8. ~ uip_stop(t) => HasRoom(t)
    BY <1>2, <2>6, <2>7, Sizes DEF uip_stop, HasRoom
  <2>9. ~ Fills(s, data) => BufferOf(t) = BufferOf(s) \o data
    BY <1>2, <2>4, <2>7 DEF BufferOf
  <2> QED  BY <2>7, <2>8, <2>9, <2>10 DEF t
<1>3. CASE build # "TCPBUF"
  <2>1. t = [[s EXCEPT !.inbuf = data] EXCEPT !.res = "SUCCESS", !.state = "IDLE"]
    BY <1>3, Zenon DEF Store, prep_socket_state
  <2> HIDE DEF t
  <2>2. /\ t \in PStates /\ t.inbuf = data /\ t.state = "IDLE" /\ t.connected = s.connected
        /\ t.outbuf = s.outbuf
    BY <1>1, <2>1 DEF PStates
  <2>3. uip_stop(t) /\ ~ Fills(s, data)
    BY <1>3 DEF uip_stop, Fills
  <2>4. s.inbuf = <<>>
    BY <1>3 DEF HasRoom
  <2>5. BufferOf(t) = BufferOf(s) \o data
    BY <1>3, <2>2, <2>4, ConcatEmptySeq DEF BufferOf
  <2> QED  BY <2>2, <2>3, <2>5 DEF t
<1> QED  BY <1>2, <1>3

\* The buffer after the caller took n bytes.
Popped(s, n) == IF build = "TCPBUF" THEN [s EXCEPT !.ring = cbuffer_pop(@, n)]
                                    ELSE [s EXCEPT !.inbuf = Suffix(@, n)]

LEMMA PoppedProperties ==
    ASSUME NEW s \in PStates, NEW n \in 1 .. Len(BufferOf(s))
    PROVE  /\ Popped(s, n) \in PStates
           /\ BufferOf(Popped(s, n)) = Suffix(BufferOf(s), n)
           /\ Popped(s, n).state = s.state /\ Popped(s, n).connected = s.connected
           /\ Popped(s, n).outbuf = s.outbuf
           /\ HasRoom(s) => HasRoom(Popped(s, n))
<1> DEFINE t == Popped(s, n)
<1>1. s.ring \in Cbuffer /\ s.inbuf \in Seq(Byte)
  BY DEF PStates
<1>2. CASE build = "TCPBUF"
  <2> DEFINE ring == cbuffer_pop(s.ring, n)
             used == cbuffer_get_used(s.ring)
  <2>1. BufferOf(s) = Contents(s.ring) /\ Len(Contents(s.ring)) = used /\ used \in 0 .. RingSize - 1
    BY <1>1, <1>2, ContentsType, UsedRange DEF BufferOf
  <2>2. n \in 0 .. used
    BY <2>1, Sizes
  <2>3. ring \in Cbuffer /\ cbuffer_get_used(ring) = used - n
    BY <1>1, <2>2, PopUsed
  <2>4. Contents(ring) = SubSeq(Contents(s.ring), n + 1, used)
    BY <1>1, <2>2, PopDrops
  <2>5. t = [s EXCEPT !.ring = ring]
    BY <1>2, Zenon DEF Popped
  <2> HIDE DEF ring, t
  <2>6. /\ t \in PStates /\ t.ring = ring /\ t.state = s.state /\ t.connected = s.connected
        /\ t.outbuf = s.outbuf
    BY <1>1, <2>3, <2>5 DEF PStates
  <2>7. HasRoom(s) => HasRoom(t)
    <3> HIDE DEF used
    <3>1. cbuffer_get_free(ring) = RingSize - (used - n) /\ cbuffer_get_free(s.ring) = RingSize - used
      BY <2>3 DEF cbuffer_get_free, used
    <3>2. cbuffer_get_free(s.ring) >= Window => cbuffer_get_free(ring) >= Window
      BY <2>1, <2>2, <3>1, Sizes
    <3> QED  BY <1>2, <2>6, <3>2 DEF HasRoom
  <2>8. BufferOf(t) = Suffix(BufferOf(s), n)
    BY <1>2, <2>1, <2>4, <2>6 DEF BufferOf, Suffix
  <2> QED  BY <2>6, <2>7, <2>8 DEF t
<1>3. CASE build # "TCPBUF"
  <2>1. t = [s EXCEPT !.inbuf = Suffix(s.inbuf, n)]
    BY <1>3, Zenon DEF Popped
  <2>2. BufferOf(s) = s.inbuf /\ n \in 1 .. Len(s.inbuf)
    BY <1>3 DEF BufferOf
  <2>3. Suffix(s.inbuf, n) \in Seq(Byte)
    <3>1. \A i \in n + 1 .. Len(s.inbuf) : s.inbuf[i] \in Byte
      BY <1>1, <2>2
    <3>2. n + 1 \in Int /\ Len(s.inbuf) \in Int
      BY <1>1, <2>2
    <3> QED  BY <3>1, <3>2, SubSeqProperties DEF Suffix
  <2> HIDE DEF t
  <2>4. /\ t \in PStates /\ t.inbuf = Suffix(s.inbuf, n) /\ t.state = s.state
        /\ t.connected = s.connected /\ t.outbuf = s.outbuf
    BY <1>1, <2>1, <2>3 DEF PStates
  <2>5. ~ HasRoom(s)
    BY <1>1, <1>3, <2>2, EmptySeq DEF HasRoom
  <2> QED  BY <1>3, <2>2, <2>4, <2>5 DEF BufferOf, t
<1> QED  BY <1>2, <1>3

-----------------------------------------------------------------------------
(***************************************************************************)
(* The calls of the application.                                           *)
(***************************************************************************)

LEMMA TypeParts ==
    TypeOK <=> /\ build \in Builds /\ pstate \in PStates /\ tcp \in Tcps /\ peer \in Seq(0 .. MaxOut)
               /\ sock \in {"none", "open", "connected"} /\ conns \in 0 .. MaxConns
               /\ accepted \in 0 .. MaxOut /\ read \in 0 .. MaxIn /\ trouble \subseteq Troubles
BY DEF TypeOK, PStates, Tcps

LEMMA Buffers == Buffered = BufferOf(pstate)
BY DEF Buffered, BufferOf

\* The buffer after a step.
LEMMA BuffersAfter ==
    ASSUME build' = build
    PROVE  /\ Buffered' = BufferOf(pstate')
           /\ HasRoom(pstate)' <=> HasRoom(pstate')
BY DEF Buffered, BufferOf, HasRoom

\* A step that leaves the bytes of the caller alone.
LEMMA SameOutgoing ==
    ASSUME Outgoing, peer' = peer, accepted' = accepted, trouble' = trouble,
           Established' => /\ Established /\ pstate'.outbuf = pstate.outbuf
                           /\ tcp'.una = tcp.una /\ tcp'.len = tcp.len /\ tcp'.mss = tcp.mss
    PROVE  Outgoing'
BY DEF Outgoing

\* A step that leaves the bytes of the peer alone.
LEMMA SameIncoming ==
    ASSUME Incoming, Buffered' = Buffered, read' = read,
           "filled" \in trouble' <=> "filled" \in trouble,
           Established' => Established /\ tcp'.rcv_nxt = tcp.rcv_nxt
    PROVE  Incoming'
BY DEF Incoming, InOrder, LastOf

LEMMA UipInit == Init => UipInv
<1> SUFFICES ASSUME Init PROVE UipInv
  OBVIOUS
<1>1. /\ pstate.ring = cbuffer_new /\ pstate.inbuf = <<>> /\ pstate.outbuf = <<>>
      /\ pstate.state = "IDLE" /\ tcp.flags = "CLOSED" /\ tcp.stopped = FALSE
      /\ peer = <<>> /\ sock = "none" /\ accepted = 0 /\ read = 0 /\ conns = 0 /\ build \in Builds
      /\ trouble = {}
  BY DEF Init
<1>2. pstate \in PStates
  <2>1. "IDLE" \in States /\ "SUCCESS" \in Codes /\ <<>> \in Seq(Byte) /\ <<>> \in Seq(1 .. MaxOut)
    BY EmptySeq DEF States, Codes
  <2> QED  BY <2>1, NewRing DEF Init, PStates
<1>3. tcp \in Tcps /\ peer \in Seq(0 .. MaxOut)
  <2>1. "CLOSED" \in Flags /\ <<>> \in Seq(0 .. MaxOut) /\ 0 \in 0 .. MaxIn /\ Mss \in 1 .. Mss
    BY EmptySeq, Sizes DEF Flags
  <2> QED  BY <2>1 DEF Init, Tcps
<1>4. TypeOK
  <2>1. /\ conns \in 0 .. MaxConns /\ accepted \in 0 .. MaxOut /\ read \in 0 .. MaxIn
        /\ trouble \subseteq Troubles
    BY <1>1, Sizes
  <2> QED  BY <1>1, <1>2, <1>3, <2>1, TypeParts
<1>5. Buffered = <<>>
  BY <1>1, NewRing DEF Buffered
<1>6. Fresh /\ NotClosing
  BY <1>1 DEF Fresh, NotClosing
<1>7. Outgoing
  <2>1. Len(peer) = 0 /\ From(0, 0) = <<>>
    BY <1>1, EmptySeq, FromNone
  <2> QED  BY <1>1, <2>1 DEF Outgoing, Established
<1>8. Room
  BY <1>1, <1>2, <1>5, Buffers, EmptyHasRoom DEF Room
<1>9. Incoming
  BY <1>1, <1>5, EmptySeq DEF Incoming, InOrder, Established
<1> QED  BY <1>4, <1>6, <1>7, <1>8, <1>9 DEF UipInv

LEMMA SocketKeeps ==
    ASSUME UipInv, net_if_socket
    PROVE  UipInv'
<1>1. /\ pstate \in PStates /\ build' = build /\ build \in Builds
      /\ conns \in 0 .. MaxConns
  BY TypeParts DEF UipInv, net_if_socket
<1> DEFINE p == [pstate EXCEPT !.inuse = TRUE, !.connect_started = FALSE, !.connected = FALSE,
                               !.res = "SUCCESS", !.ring = cbuffer_new, !.inbuf = <<>>,
                               !.outbuf = <<>>]
           t == [flags |-> "RESERVED", stopped |-> FALSE, mss |-> Mss, len |-> <<>>, una |-> 0,
                 rcv_nxt |-> 0]
<1>2. /\ p \in PStates /\ p.ring = cbuffer_new /\ p.inbuf = <<>> /\ p.outbuf = <<>>
      /\ p.connected = FALSE
  <2>1. "SUCCESS" \in Codes /\ <<>> \in Seq(Byte) /\ <<>> \in Seq(1 .. MaxOut)
    BY EmptySeq DEF Codes
  <2> QED  BY <1>1, <2>1, NewRing DEF PStates
<1>3. t \in Tcps /\ t.flags = "RESERVED" /\ t.len = <<>> /\ t.una = 0 /\ t.rcv_nxt = 0
  <2>1. "RESERVED" \in Flags /\ <<>> \in Seq(0 .. MaxOut) /\ 0 \in 0 .. MaxIn /\ Mss \in 1 .. Mss
    BY EmptySeq, Sizes DEF Flags
  <2> QED  BY <2>1 DEF Tcps
<1>4. /\ pstate' = p /\ tcp' = t /\ peer' = <<>> /\ sock' = "open" /\ accepted' = 0 /\ read' = 0
      /\ conns' = conns + 1 /\ conns < MaxConns /\ trouble' = {}
  BY Zenon DEF net_if_socket
<1> HIDE DEF p, t
<1>5. Buffered' = <<>> /\ BufferOf(p) = <<>>
  BY <1>1, <1>2, <1>4, NewRing, BuffersAfter DEF BufferOf
<1>6. TypeOK'
  <2>1. conns' \in 0 .. MaxConns /\ 0 \in 0 .. MaxOut /\ 0 \in 0 .. MaxIn
    BY <1>1, <1>4, Sizes
  <2>2. <<>> \in Seq(0 .. MaxOut)
    BY EmptySeq
  <2>3. /\ build' \in Builds /\ pstate' \in PStates /\ tcp' \in Tcps /\ peer' \in Seq(0 .. MaxOut)
        /\ sock' \in {"none", "open", "connected"} /\ accepted' \in 0 .. MaxOut /\ read' \in 0 .. MaxIn
        /\ trouble' \subseteq Troubles
    BY <1>1, <1>2, <1>3, <1>4, <2>1, <2>2
  <2> QED  BY <2>1, <2>3 DEF TypeOK, PStates, Tcps
<1>7. Fresh' /\ NotClosing'
  BY <1>2, <1>3, <1>4 DEF Fresh, NotClosing
<1>8. Outgoing'
  <2>1. Len(<<>>) = 0 /\ From(0, 0) = <<>>
    BY EmptySeq, FromNone
  <2> QED  BY <1>3, <1>4, <2>1 DEF Outgoing, Established
<1>9. Room'
  <2>1. HasRoom(p)
    BY <1>2, <1>5, EmptyHasRoom
  <2> QED  BY <1>1, <1>4, <1>5, <2>1, BuffersAfter DEF Room
<1>10. Incoming'
  BY <1>3, <1>4, <1>5, EmptySeq DEF Incoming, InOrder, Established
<1> QED  BY <1>6, <1>7, <1>8, <1>9, <1>10 DEF UipInv

\* The types of the state after a step.
LEMMA TypesAfter ==
    ASSUME build' = build, build \in Builds, pstate' \in PStates, tcp' \in Tcps,
           peer' \in Seq(0 .. MaxOut), sock' \in {"none", "open", "connected"},
           conns' \in 0 .. MaxConns, accepted' \in 0 .. MaxOut, read' \in 0 .. MaxIn,
           trouble' \subseteq Troubles
    PROVE  TypeOK'
BY DEF TypeOK, PStates, Tcps

LEMMA ConnectKeeps ==
    ASSUME UipInv, net_if_connect
    PROVE  UipInv'
<1>1. /\ pstate \in PStates /\ tcp \in Tcps /\ build \in Builds /\ peer \in Seq(0 .. MaxOut)
      /\ conns \in 0 .. MaxConns /\ accepted \in 0 .. MaxOut /\ read \in 0 .. MaxIn
      /\ trouble \subseteq Troubles
      /\ Fresh /\ NotClosing /\ Outgoing /\ Room /\ Incoming
  BY TypeParts DEF UipInv
<1> DEFINE starts == ~ pstate.connect_started
           res == IF ~pstate.connected /\ pstate.res = "SUCCESS" THEN "WOULD_BLOCK" ELSE pstate.res
           p == [pstate EXCEPT !.connect_started = ~pstate.connected, !.res = res]
           t == IF starts THEN [tcp EXCEPT !.flags = "SYN_SENT"] ELSE tcp
<1>2. /\ pstate' = p /\ tcp' = t /\ sock = "open" /\ sock' = IF res = "SUCCESS" THEN "connected" ELSE sock
      /\ starts => tcp.flags = "RESERVED"
      /\ UNCHANGED <<build, peer, conns, accepted, read, trouble>>
  BY Zenon DEF net_if_connect
<1>3. res \in Codes /\ (res = "SUCCESS" => pstate.connected)
  BY <1>1 DEF PStates, Codes
<1> HIDE DEF res
<1>4. /\ p \in PStates /\ p.ring = pstate.ring /\ p.inbuf = pstate.inbuf /\ p.outbuf = pstate.outbuf
      /\ p.state = pstate.state /\ p.connected = pstate.connected
  BY <1>1, <1>3 DEF PStates
<1>5. /\ t \in Tcps /\ t.stopped = tcp.stopped /\ t.len = tcp.len /\ t.una = tcp.una
      /\ t.rcv_nxt = tcp.rcv_nxt /\ t.mss = tcp.mss
      /\ t.flags = IF starts THEN "SYN_SENT" ELSE tcp.flags
  <2>1. "SYN_SENT" \in Flags
    BY DEF Flags
  <2>2. CASE starts
    BY <1>1, <2>1, <2>2 DEF Tcps
  <2>3. CASE ~ starts
    BY <1>1, <2>3
  <2> QED  BY <2>2, <2>3
<1> HIDE DEF p, t, starts
<1>6. TypeOK'
  BY <1>1, <1>2, <1>4, <1>5, TypesAfter
<1>7. Fresh'
  BY <1>1, <1>2, <1>3, <1>4, <1>5 DEF Fresh
<1>8. NotClosing'
  BY <1>1, <1>2 DEF NotClosing
<1>9. tcp'.flags = tcp.flags \/ tcp'.flags = "SYN_SENT"
  BY <1>2, <1>5
<1>10. Outgoing'
  BY <1>1, <1>2, <1>4, <1>5, <1>9, SameOutgoing DEF Established
<1>11. Buffered' = Buffered /\ (HasRoom(pstate)' <=> HasRoom(pstate))
  BY <1>2, <1>4 DEF Buffered, HasRoom
<1>12. Incoming'
  BY <1>1, <1>2, <1>5, <1>9, <1>11, SameIncoming DEF Established
<1>13. Room'
  BY <1>1, <1>2, <1>4, <1>5, <1>11 DEF Room
<1> QED  BY <1>6, <1>7, <1>8, <1>10, <1>12, <1>13 DEF UipInv

LEMMA SendKeeps ==
    ASSUME UipInv, NEW n \in 1 .. OutMax + 1, net_if_send(n)
    PROVE  UipInv'
<1>1. /\ pstate \in PStates /\ tcp \in Tcps /\ build \in Builds /\ peer \in Seq(0 .. MaxOut)
      /\ conns \in 0 .. MaxConns /\ accepted \in 0 .. MaxOut /\ read \in 0 .. MaxIn
      /\ trouble \subseteq Troubles
      /\ Fresh /\ NotClosing /\ Outgoing /\ Room /\ Incoming
  BY TypeParts DEF UipInv
<1> DEFINE size == Min({n, OutMax})
<1>2. size \in Nat \ {0}
  BY Sizes, MinTwo
<1>3. /\ sock = "connected" /\ accepted + size <= MaxOut /\ uip_conn_active
      /\ UNCHANGED <<build, tcp, peer, sock, conns, read, trouble>>
      /\ \/ /\ pstate.outbuf = <<>> /\ accepted' = accepted + size
            /\ pstate' = prep_socket_state([pstate EXCEPT !.outbuf = From(accepted, size)],
                                           "SUCCESS", "SEND")
         \/ /\ accepted' = accepted
            /\ pstate' = [pstate EXCEPT !.res = IF @ = "SUCCESS" THEN "WOULD_BLOCK" ELSE @]
  BY Zenon DEF net_if_send
<1> HIDE DEF size
<1>4. tcp.flags \notin {"RESERVED", "SYN_SENT"}
  BY <1>1, <1>3 DEF Fresh
<1>5. CASE /\ pstate.outbuf = <<>> /\ accepted' = accepted + size
           /\ pstate' = prep_socket_state([pstate EXCEPT !.outbuf = From(accepted, size)],
                                          "SUCCESS", "SEND")
  <2> DEFINE out == From(accepted, size)
             p == [[pstate EXCEPT !.outbuf = out] EXCEPT !.res = "SUCCESS", !.state = "SEND"]
  <2>1. out \in Seq(1 .. MaxOut) /\ Len(out) = size
    <3>1. accepted \in Nat /\ size \in Nat /\ accepted + size <= MaxOut /\ MaxOut \in Nat
      BY <1>1, <1>2, <1>3, Sizes
    <3>2. out \in Seq(1 .. MaxOut)
      BY <3>1, FromType
    <3> QED  BY <3>1, <3>2, FromProperties
  <2>2. pstate' = p
    BY <1>5, Zenon DEF prep_socket_state
  <2> HIDE DEF out
  <2>3. /\ p \in PStates /\ p.ring = pstate.ring /\ p.inbuf = pstate.inbuf /\ p.outbuf = out
        /\ p.state = "SEND" /\ p.connected = pstate.connected
    <3>1. "SUCCESS" \in Codes /\ "SEND" \in States
      BY DEF Codes, States
    <3> QED  BY <1>1, <2>1, <3>1 DEF PStates
  <2> HIDE DEF p
  <2>4. accepted' \in 0 .. MaxOut
    <3>1. accepted \in 0 .. MaxOut /\ accepted + size <= MaxOut /\ accepted' = accepted + size
      BY <1>1, <1>3, <1>5
    <3> QED  BY <1>2, <3>1, Sizes
  <2>5. TypeOK'
    BY <1>1, <1>3, <2>2, <2>3, <2>4, TypesAfter
  <2>6. Fresh'
    BY <1>3, <1>4 DEF Fresh
  <2>7. NotClosing'
    BY <1>3, <2>2, <2>3 DEF NotClosing
  <2>8. Outgoing'
    <3>1. ASSUME "resized" \notin trouble PROVE peer' = From(0, Len(peer')) /\ Len(peer') <= accepted'
      <4>1. Len(peer) \in Nat
        BY <1>1
      <4> QED  BY <1>1, <1>2, <1>3, <1>5, <3>1, <4>1 DEF Outgoing
    <3>2. Len(pstate.outbuf) = 0
      BY <1>1, <1>5, EmptySeq DEF PStates
    <3>3. ASSUME Established PROVE tcp.len = <<>> /\ tcp.una <= Len(peer)
      <4>1. Len(tcp.len) <= 0 /\ tcp.len \in Seq(0 .. MaxOut)
        BY <1>1, <3>2, <3>3 DEF Outgoing, Tcps
      <4>2. Len(tcp.len) = 0
        BY <4>1
      <4> QED  BY <1>1, <3>3, <4>1, <4>2, EmptySeq DEF Outgoing
    <3>4. ASSUME Established, "resized" \notin trouble PROVE tcp.una = accepted
      BY <1>1, <3>2, <3>4 DEF Outgoing, Tcps
    <3>5. Established' => Established
      BY <1>3 DEF Established
    <3>6. accepted \in Nat /\ (accepted + size) - size = accepted /\ size <= accepted + size
      BY <1>1, <1>2, Sizes
    <3>7. Len(<<>>) = 0
      BY EmptySeq
    <3>8. Established' => /\ Len(pstate'.outbuf) <= accepted'
                          /\ pstate'.outbuf = From(accepted' - Len(pstate'.outbuf), Len(pstate'.outbuf))
                          /\ tcp'.len = <<>> /\ Len(tcp'.len) <= Len(pstate'.outbuf)
                          /\ tcp'.una <= Len(peer')
      BY <1>2, <1>3, <1>5, <2>1, <2>2, <2>3, <3>3, <3>5, <3>6, <3>7 DEF out
    <3>9. \A i \in 1 .. Len(<<>>) : FALSE
      BY <3>7
    <3>10. Established' /\ "resized" \notin trouble => tcp'.una + Len(pstate'.outbuf) = accepted'
      BY <1>3, <1>5, <2>1, <2>2, <2>3, <3>4, <3>5
    <3> QED  BY <1>3, <3>1, <3>8, <3>9, <3>10 DEF Outgoing
  <2>9. Buffered' = Buffered /\ (HasRoom(pstate)' <=> HasRoom(pstate))
    BY <1>3, <2>2, <2>3 DEF Buffered, HasRoom
  <2>10. Incoming'
    BY <1>1, <1>3, <2>9, SameIncoming DEF Established
  <2>11. Room'
    BY <1>1, <1>3, <2>2, <2>3, <2>9 DEF Room
  <2> QED  BY <2>5, <2>6, <2>7, <2>8, <2>10, <2>11 DEF UipInv
<1>6. CASE /\ accepted' = accepted
           /\ pstate' = [pstate EXCEPT !.res = IF @ = "SUCCESS" THEN "WOULD_BLOCK" ELSE @]
  <2>1. /\ pstate' \in PStates /\ pstate'.ring = pstate.ring /\ pstate'.inbuf = pstate.inbuf
        /\ pstate'.outbuf = pstate.outbuf /\ pstate'.state = pstate.state
        /\ pstate'.connected = pstate.connected
    BY <1>1, <1>6 DEF PStates, Codes
  <2>2. TypeOK'
    BY <1>1, <1>3, <1>6, <2>1, TypesAfter
  <2>3. Fresh'
    BY <1>3, <1>4 DEF Fresh
  <2>4. NotClosing'
    BY <1>1, <1>3, <1>6, <2>1 DEF NotClosing
  <2>5. Outgoing'
    BY <1>1, <1>3, <1>6, <2>1, SameOutgoing DEF Established
  <2>6. Buffered' = Buffered /\ (HasRoom(pstate)' <=> HasRoom(pstate))
    BY <1>3, <2>1 DEF Buffered, HasRoom
  <2>7. Incoming'
    BY <1>1, <1>3, <2>6, SameIncoming DEF Established
  <2>8. Room'
    BY <1>1, <1>3, <2>1, <2>6 DEF Room
  <2> QED  BY <2>2, <2>3, <2>4, <2>5, <2>7, <2>8 DEF UipInv
<1> QED  BY <1>3, <1>5, <1>6

LEMMA LastOfType ==
    ASSUME NEW s \in Seq(Nat), NEW r \in Nat
    PROVE  LastOf(s, r) \in Nat
<1>1. s # <<>> => Len(s) \in 1 .. Len(s)
  BY EmptySeq
<1>2. s # <<>> => s[Len(s)] \in Nat
  BY <1>1, ElementOfSeq
<1> QED  BY <1>2 DEF LastOf

LEMMA ReceiveKeeps ==
    ASSUME UipInv, NEW sz \in 1 .. Mss, net_if_receive(sz)
    PROVE  UipInv'
<1>1. /\ pstate \in PStates /\ tcp \in Tcps /\ build \in Builds /\ peer \in Seq(0 .. MaxOut)
      /\ conns \in 0 .. MaxConns /\ accepted \in 0 .. MaxOut /\ read \in 0 .. MaxIn
      /\ trouble \subseteq Troubles
      /\ Fresh /\ NotClosing /\ Outgoing /\ Room /\ Incoming
  BY TypeParts DEF UipInv
<1> DEFINE n == Min({sz, Len(Buffered)})
<1>2. /\ sock = "connected" /\ UNCHANGED <<build, tcp, peer, sock, conns, accepted, trouble>>
      /\ \/ /\ Buffered = <<>> /\ read' = read
            /\ pstate' = [pstate EXCEPT !.state = "RECV",
                                        !.res = IF @ = "SUCCESS" THEN "WOULD_BLOCK" ELSE @]
         \/ /\ Buffered # <<>> /\ read' = Max({read, Buffered[n]})
            /\ pstate' = Popped(pstate, n)
  BY Zenon DEF net_if_receive, Popped
<1> HIDE DEF n
<1>3. CASE /\ Buffered = <<>> /\ read' = read
           /\ pstate' = [pstate EXCEPT !.state = "RECV",
                                       !.res = IF @ = "SUCCESS" THEN "WOULD_BLOCK" ELSE @]
  <2>1. /\ pstate' \in PStates /\ pstate'.ring = pstate.ring /\ pstate'.inbuf = pstate.inbuf
        /\ pstate'.outbuf = pstate.outbuf /\ pstate'.state = "RECV"
        /\ pstate'.connected = pstate.connected
    BY <1>1, <1>3 DEF PStates, Codes, States
  <2>2. TypeOK'
    BY <1>1, <1>2, <1>3, <2>1, TypesAfter
  <2>3. Fresh' /\ NotClosing'
    BY <1>1, <1>2, <2>1 DEF Fresh, NotClosing
  <2>4. Outgoing'
    BY <1>1, <1>2, <2>1, SameOutgoing DEF Established
  <2>5. Buffered' = Buffered /\ (HasRoom(pstate)' <=> HasRoom(pstate))
    BY <1>2, <2>1 DEF Buffered, HasRoom
  <2>6. Incoming'
    BY <1>1, <1>2, <1>3, <2>5, SameIncoming DEF Established
  <2>7. Room'
    BY <1>1, <1>2, <1>3, <2>1, <2>5 DEF Room
  <2> QED  BY <2>2, <2>3, <2>4, <2>6, <2>7 DEF UipInv
<1>4. CASE /\ Buffered # <<>> /\ read' = Max({read, Buffered[n]})
           /\ pstate' = Popped(pstate, n)
  <2> DEFINE b == Buffered
             p == Popped(pstate, n)
  <2>1. b = BufferOf(pstate) /\ b \in Seq(Nat) /\ b \in Seq(Byte)
    BY <1>1, Buffers, BufferType
  <2> HIDE DEF b
  <2>2. n = Min({sz, Len(b)}) /\ Len(b) \in Nat \ {0} /\ sz \in Nat \ {0}
    BY <1>4, <2>1, Sizes, EmptySeq DEF n, b
  <2>3. n \in 1 .. Len(b)
    BY <2>2, MinTwo
  <2>4. /\ p \in PStates /\ BufferOf(p) = Suffix(b, n)
        /\ p.state = pstate.state /\ p.connected = pstate.connected /\ p.outbuf = pstate.outbuf
        /\ HasRoom(pstate) => HasRoom(p)
    BY <1>1, <2>1, <2>3, PoppedProperties
  <2> HIDE DEF p
  <2>5. pstate' = p /\ read' = Max({read, b[n]})
    BY <1>4 DEF b, p
  <2>6. read' \in 0 .. MaxIn
    <3>1. b[n] \in 1 .. MaxIn
      BY <2>1, <2>3, Sizes
    <3>2. read \in 0 .. MaxIn /\ read \in Int /\ b[n] \in Int /\ read' = Max({read, b[n]})
      BY <1>1, <2>5, <3>1, Sizes
    <3>3. Max({read, b[n]}) = IF read >= b[n] THEN read ELSE b[n]
      BY <3>2, MaxTwo
    <3> QED  BY <3>1, <3>2, <3>3, Sizes
  <2>7. TypeOK'
    <3>1. /\ build' = build /\ build \in Builds /\ pstate' \in PStates /\ tcp' \in Tcps
          /\ peer' \in Seq(0 .. MaxOut) /\ sock' \in {"none", "open", "connected"}
          /\ conns' \in 0 .. MaxConns /\ accepted' \in 0 .. MaxOut /\ trouble' \subseteq Troubles
      BY <1>1, <1>2, <2>4, <2>5
    <3> QED  BY <2>6, <3>1, TypesAfter
  <2>8. Fresh' /\ NotClosing'
    BY <1>1, <1>2, <2>4, <2>5 DEF Fresh, NotClosing
  <2>9. Outgoing'
    BY <1>1, <1>2, <2>4, <2>5, SameOutgoing DEF Established
  <2>10. Buffered' = Suffix(b, n) /\ (HasRoom(pstate)' <=> HasRoom(p))
    BY <1>2, <2>4, <2>5, BuffersAfter
  <2>11. Incoming'
    <3> SUFFICES ASSUME "filled" \notin trouble
                 PROVE  InOrder(Buffered', read') /\ (Established => tcp.rcv_nxt <= LastOf(Buffered', read'))
      BY <1>1, <1>2 DEF Incoming, InOrder, LastOf, Established
    <3>1. InOrder(b, read) /\ (Established => tcp.rcv_nxt <= LastOf(b, read))
      BY <1>1 DEF Incoming, b
    <3>2. read \in Nat /\ tcp.rcv_nxt \in Nat
      BY <1>1, Sizes DEF Tcps
    <3>3. /\ InOrder(Suffix(b, n), Max({read, b[n]}))
          /\ LastOf(b, read) <= LastOf(Suffix(b, n), Max({read, b[n]}))
      BY <2>1, <2>3, <3>1, <3>2, InOrderDrop
    <3>4. LastOf(b, read) \in Int /\ LastOf(Suffix(b, n), Max({read, b[n]})) \in Int
      <4>1. BufferOf(p) \in Seq(Nat) /\ read' \in Nat
        BY <2>4, <2>6, BufferType, Sizes
      <4>2. LastOf(b, read) \in Nat /\ LastOf(BufferOf(p), read') \in Nat
        BY <2>1, <3>2, <4>1, LastOfType
      <4> QED  BY <2>4, <2>5, <4>2
    <3> QED  BY <2>5, <2>10, <3>1, <3>2, <3>3, <3>4
  <2>12. Room'
    <3>1. pstate.state = "RECV" => Buffered = <<>>
      BY <1>1 DEF Room
    <3>2. pstate'.state # "RECV"
      BY <1>4, <2>4, <2>5, <3>1
    <3>3. ~ tcp.stopped => HasRoom(pstate)
      BY <1>1 DEF Room
    <3> QED  BY <1>2, <2>4, <2>10, <3>2, <3>3 DEF Room
  <2> QED  BY <2>7, <2>8, <2>9, <2>11, <2>12 DEF UipInv
<1> QED  BY <1>2, <1>3, <1>4

LEMMA CloseKeeps ==
    ASSUME UipInv, net_if_close
    PROVE  UipInv'
<1>1. /\ pstate \in PStates /\ tcp \in Tcps /\ build \in Builds /\ peer \in Seq(0 .. MaxOut)
      /\ conns \in 0 .. MaxConns /\ accepted \in 0 .. MaxOut /\ read \in 0 .. MaxIn
      /\ trouble \subseteq Troubles
      /\ Fresh /\ NotClosing /\ Outgoing /\ Room /\ Incoming
  BY TypeParts DEF UipInv
<1>2. /\ sock' = "none" /\ UNCHANGED <<build, peer, conns, accepted, read, trouble>>
      /\ pstate' = [pstate EXCEPT !.inuse = FALSE, !.state = IF uip_conn_active THEN "CLOSE" ELSE @]
      /\ tcp' = [tcp EXCEPT !.flags = IF uip_conn_active THEN @ ELSE "CLOSED"]
  BY DEF net_if_close
<1>3. /\ pstate' \in PStates /\ pstate'.ring = pstate.ring /\ pstate'.inbuf = pstate.inbuf
      /\ pstate'.outbuf = pstate.outbuf /\ pstate'.connected = pstate.connected
      /\ pstate'.state = pstate.state \/ pstate'.state = "CLOSE"
  <2>1. "CLOSE" \in States
    BY DEF States
  <2> QED  BY <1>1, <1>2, <2>1 DEF PStates
<1>4. /\ tcp' \in Tcps /\ tcp'.stopped = tcp.stopped /\ tcp'.len = tcp.len /\ tcp'.una = tcp.una
      /\ tcp'.rcv_nxt = tcp.rcv_nxt /\ tcp'.mss = tcp.mss
      /\ tcp'.flags = tcp.flags \/ tcp'.flags = "CLOSED"
  <2>1. "CLOSED" \in Flags
    BY DEF Flags
  <2> QED  BY <1>1, <1>2, <2>1 DEF Tcps
<1>5. TypeOK'
  BY <1>1, <1>2, <1>3, <1>4, TypesAfter
<1>6. Fresh' /\ NotClosing'
  BY <1>1, <1>2, <1>3, <1>4 DEF Fresh, NotClosing
<1>7. Outgoing'
  BY <1>1, <1>2, <1>3, <1>4, SameOutgoing DEF Established
<1>8. Buffered' = Buffered /\ (HasRoom(pstate)' <=> HasRoom(pstate))
  BY <1>2, <1>3 DEF Buffered, HasRoom
<1>9. Incoming'
  BY <1>1, <1>2, <1>4, <1>8, SameIncoming DEF Established
<1>10. Room'
  BY <1>1, <1>2, <1>3, <1>4, <1>8 DEF Room
<1> QED  BY <1>5, <1>6, <1>7, <1>9, <1>10 DEF UipInv

-----------------------------------------------------------------------------
(***************************************************************************)
(* uip_appcall and the events of the stack.                                *)
(***************************************************************************)

LEMMA ConnectedKeeps ==
    ASSUME UipInv, Connected
    PROVE  UipInv'
<1>1. /\ pstate \in PStates /\ tcp \in Tcps /\ build \in Builds /\ peer \in Seq(0 .. MaxOut)
      /\ conns \in 0 .. MaxConns /\ accepted \in 0 .. MaxOut /\ read \in 0 .. MaxIn
      /\ trouble \subseteq Troubles
      /\ sock \in {"none", "open", "connected"}
      /\ Fresh /\ NotClosing /\ Outgoing /\ Room /\ Incoming
  BY TypeParts DEF UipInv
<1>2. /\ tcp.flags = "SYN_SENT"
      /\ pstate' = [pstate EXCEPT !.connected = TRUE, !.res = "SUCCESS"]
      /\ tcp' = [tcp EXCEPT !.flags = "ESTABLISHED", !.stopped = TRUE]
      /\ UNCHANGED <<build, peer, sock, conns, accepted, read, trouble>>
  BY DEF Connected
<1>3. /\ pstate' \in PStates /\ pstate'.ring = pstate.ring /\ pstate'.inbuf = pstate.inbuf
      /\ pstate'.outbuf = pstate.outbuf /\ pstate'.state = pstate.state
  BY <1>1, <1>2 DEF PStates, Codes
<1>4. /\ tcp' \in Tcps /\ tcp'.stopped = TRUE /\ tcp'.len = tcp.len /\ tcp'.una = tcp.una
      /\ tcp'.rcv_nxt = tcp.rcv_nxt /\ tcp'.flags = "ESTABLISHED"
  BY <1>1, <1>2 DEF Tcps, Flags
<1>5. TypeOK'
  BY <1>1, <1>2, <1>3, <1>4, TypesAfter
<1>6. Fresh' /\ NotClosing'
  BY <1>1, <1>2, <1>3, <1>4 DEF Fresh, NotClosing
<1>7. Outgoing'
  <2>1. /\ accepted = 0 /\ peer = <<>> /\ pstate.outbuf = <<>> /\ tcp.len = <<>> /\ tcp.una = 0
    BY <1>1, <1>2 DEF Fresh
  <2>2. Len(<<>>) = 0 /\ From(0, 0) = <<>> /\ \A i \in 1 .. Len(<<>>) : FALSE
    BY EmptySeq, FromNone
  <2>3. /\ pstate'.outbuf = <<>> /\ tcp'.len = <<>> /\ tcp'.una = 0 /\ peer' = <<>> /\ accepted' = 0
    BY <1>2, <1>3, <1>4, <2>1
  <2> QED  BY <2>2, <2>3 DEF Outgoing
<1>8. Buffered' = Buffered /\ (HasRoom(pstate)' <=> HasRoom(pstate))
  BY <1>2, <1>3 DEF Buffered, HasRoom
<1>9. Incoming'
  <2>1. tcp.rcv_nxt = 0 /\ read \in Nat
    BY <1>1, <1>2, Sizes DEF Fresh
  <2>2. Buffered \in Seq(Nat)
    BY <1>1, Buffers, BufferType
  <2>3. LastOf(Buffered, read) \in Nat
    BY <2>1, <2>2, LastOfType
  <2>4. tcp'.rcv_nxt <= LastOf(Buffered, read)
    BY <1>4, <2>1, <2>3
  <2>5. LastOf(Buffered', read') = LastOf(Buffered, read)
    BY <1>2, <1>8 DEF LastOf
  <2> QED  BY <1>1, <1>2, <1>8, <2>4, <2>5 DEF Incoming, InOrder
<1>10. Room'
  BY <1>1, <1>2, <1>3, <1>4, <1>8 DEF Room
<1> QED  BY <1>5, <1>6, <1>7, <1>9, <1>10 DEF UipInv

\* uip_appcall takes the request for a restart off the slot and restarts the connection.
Restarted == [pstate EXCEPT !.state = IF pstate.state = "RECV" THEN "IDLE" ELSE @]
Running(t) == [t EXCEPT !.stopped = @ /\ ~ (pstate.state = "RECV")]

LEMMA RestartProperties ==
    ASSUME UipInv, NEW t \in Tcps, t.stopped = tcp.stopped
    PROVE  /\ Restarted \in PStates /\ BufferOf(Restarted) = BufferOf(pstate)
           /\ Restarted.outbuf = pstate.outbuf /\ Restarted.connected = pstate.connected
           /\ Restarted.state \in {pstate.state, "IDLE"} /\ Restarted.state # "RECV"
           /\ Running(t) \in Tcps /\ Running(t).flags = t.flags /\ Running(t).len = t.len
           /\ Running(t).una = t.una /\ Running(t).rcv_nxt = t.rcv_nxt /\ Running(t).mss = t.mss
           /\ ~ Running(t).stopped => HasRoom(Restarted)
           /\ ~ tcp.stopped \/ pstate.state = "RECV" => HasRoom(Restarted)
<1>1. pstate \in PStates /\ tcp \in Tcps /\ Room
  BY TypeParts DEF UipInv
<1> DEFINE s == Restarted
           c == Running(t)
<1>2. /\ s \in PStates /\ s.ring = pstate.ring /\ s.inbuf = pstate.inbuf
      /\ s.outbuf = pstate.outbuf /\ s.connected = pstate.connected
      /\ s.state = IF pstate.state = "RECV" THEN "IDLE" ELSE pstate.state
  <2>1. "IDLE" \in States
    BY DEF States
  <2> QED  BY <1>1, <2>1 DEF Restarted, PStates
<1>3. /\ c \in Tcps /\ c.flags = t.flags /\ c.len = t.len /\ c.una = t.una /\ c.rcv_nxt = t.rcv_nxt
      /\ c.mss = t.mss
  BY DEF Running, Tcps
<1>4. c.stopped <=> t.stopped /\ ~ (pstate.state = "RECV")
  BY Zenon DEF Running, Tcps
<1> HIDE DEF s, c
<1>5. BufferOf(s) = BufferOf(pstate) /\ (HasRoom(s) <=> HasRoom(pstate))
  BY <1>2 DEF BufferOf, HasRoom
<1>6. ~ tcp.stopped => HasRoom(pstate)
  BY <1>1 DEF Room
<1>7. pstate.state = "RECV" => HasRoom(pstate)
  BY <1>1, Buffers, EmptyHasRoom DEF Room
<1>8. /\ ~ c.stopped => HasRoom(s)
      /\ ~ tcp.stopped \/ pstate.state = "RECV" => HasRoom(s)
  BY <1>4, <1>5, <1>6, <1>7
<1>9. s.state \in {pstate.state, "IDLE"} /\ s.state # "RECV"
  BY <1>2
<1> QED  BY <1>2, <1>3, <1>5, <1>8, <1>9 DEF s, c

\* As much as uip_mss() is leaves outbuf with an acknowledgement.
LEMMA AckProperties ==
    ASSUME NEW t \in Tcps, NEW s \in PStates, NEW ev
    PROVE  /\ AfterAck(t, s, ev) \in PStates /\ BufferOf(AfterAck(t, s, ev)) = BufferOf(s)
           /\ AfterAck(t, s, ev).state = s.state /\ AfterAck(t, s, ev).connected = s.connected
           /\ AfterAck(t, s, ev).ring = s.ring
           /\ HasRoom(AfterAck(t, s, ev)) <=> HasRoom(s)
           /\ AfterAck(t, s, ev).outbuf =
                  IF ev.acked THEN Suffix(s.outbuf, Min({Len(s.outbuf), t.mss})) ELSE s.outbuf
<1> DEFINE out == Suffix(s.outbuf, Min({Len(s.outbuf), t.mss}))
           p == [s EXCEPT !.outbuf = out]
<1>1. AfterAck(t, s, ev) = IF ev.acked THEN p ELSE s
  BY Zenon DEF AfterAck
<1>2. s.outbuf \in Seq(1 .. MaxOut) /\ t.mss \in 1 .. Mss
  BY DEF PStates, Tcps
<1>3. out \in Seq(1 .. MaxOut)
  <2> DEFINE k == Min({Len(s.outbuf), t.mss})
  <2>1. k \in Nat
    BY <1>2, Sizes, MinTwo
  <2> HIDE DEF k
  <2>2. \A i \in k + 1 .. Len(s.outbuf) : s.outbuf[i] \in 1 .. MaxOut
    <3>1. \A i \in k + 1 .. Len(s.outbuf) : i \in 1 .. Len(s.outbuf)
      BY <1>2, <2>1
    <3> QED  BY <1>2, <3>1, ElementOfSeq
  <2>3. k + 1 \in Int /\ Len(s.outbuf) \in Int
    BY <1>2, <2>1
  <2>4. SubSeq(s.outbuf, k + 1, Len(s.outbuf)) \in Seq(1 .. MaxOut)
    BY <2>2, <2>3, SubSeqProperties
  <2> QED  BY <2>4 DEF Suffix, k
<1> HIDE DEF out
<1>4. /\ p \in PStates /\ p.ring = s.ring /\ p.inbuf = s.inbuf /\ p.state = s.state
      /\ p.connected = s.connected /\ p.outbuf = out
  BY <1>3 DEF PStates
<1> HIDE DEF p
<1>5. BufferOf(p) = BufferOf(s) /\ (HasRoom(p) <=> HasRoom(s))
  BY <1>4 DEF BufferOf, HasRoom
<1>6. CASE ev.acked
  BY <1>1, <1>4, <1>5, <1>6 DEF out
<1>7. CASE ~ ev.acked
  BY <1>1, <1>7
<1> QED  BY <1>6, <1>7

\* Without an acknowledgement outbuf stays.
LEMMA NothingAcked ==
    ASSUME UipInv, NEW t, NEW ev, ~ ev.acked
    PROVE  AfterAck(t, Restarted, ev) \in PStates /\ AfterAck(t, Restarted, ev).outbuf = pstate.outbuf
<1>1. tcp \in Tcps
  BY TypeParts DEF UipInv
<1>2. Restarted \in PStates /\ Restarted.outbuf = pstate.outbuf
  BY <1>1, RestartProperties
<1>3. AfterAck(t, Restarted, ev) = Restarted
  BY Zenon DEF AfterAck
<1> QED  BY <1>2, <1>3

\* The segment len, if one is outstanding, is as long as uip_mss() and the L bytes after base allow.
InFull(len, base, mss, L) == len # <<>> => len = From(base, Min({mss, L}))

\* What is sent, for the first time or again, is the front of outbuf: all of it, unless what is
\* sent again is longer than uip_mss().
LEMMA SendProperties ==
    ASSUME NEW t \in Tcps, NEW s \in PStates, NEW ev, NEW L \in Nat, NEW base \in Nat,
           s.outbuf = From(base, L),
           Len(t.len) <= L, \A i \in 1 .. Len(t.len) : t.len[i] \in {base + i, Stale}
    PROVE  /\ AfterSend(t, s, ev) \in Tcps
           /\ AfterSend(t, s, ev).flags = t.flags /\ AfterSend(t, s, ev).stopped = t.stopped
           /\ AfterSend(t, s, ev).una = t.una /\ AfterSend(t, s, ev).rcv_nxt = t.rcv_nxt
           /\ AfterSend(t, s, ev).mss = t.mss
           /\ Len(AfterSend(t, s, ev).len) <= L
           /\ \A i \in 1 .. Len(AfterSend(t, s, ev).len) :
                  AfterSend(t, s, ev).len[i] \in {base + i, Stale}
           /\ InFull(t.len, base, t.mss, L) => InFull(AfterSend(t, s, ev).len, base, t.mss, L)
           /\ t.len # <<>> =>
                  /\ Len(AfterSend(t, s, ev).len) = Len(t.len)
                  /\ \A i \in 1 .. Len(t.len) :
                        \/ AfterSend(t, s, ev).len[i] = t.len[i] \/ t.len[i] = Stale
                        \/ AfterSend(t, s, ev).len[i] = Stale /\ i > t.mss
                  /\ InFull(t.len, base, t.mss, L) => AfterSend(t, s, ev).len = t.len
<1> DEFINE m == Min({t.mss, L})
           supplied == Prefix(s.outbuf, t.mss)
           again == [i \in 1 .. Len(t.len) |-> IF i <= Len(supplied) THEN supplied[i] ELSE Stale]
           len == IF t.len = <<>> THEN supplied ELSE again
           c == [t EXCEPT !.len = len]
<1>1. t.len \in Seq(0 .. MaxOut) /\ Len(t.len) \in Nat /\ t.mss \in Nat \ {0}
  BY Sizes DEF Tcps
<1>2. m \in Nat /\ m <= L /\ m <= t.mss /\ m = IF t.mss <= L THEN t.mss ELSE L
  BY <1>1, MinTwo
<1> HIDE DEF m
<1>3. supplied = From(base, m)
  <2>1. t.mss \in Nat
    BY <1>1
  <2> QED  BY <2>1, FromPrefix DEF m
<1> HIDE DEF supplied
<1>4. supplied \in Seq(Nat) /\ Len(supplied) = m /\ \A i \in 1 .. m : supplied[i] = base + i
  BY <1>2, <1>3, FromProperties
<1>5. \A i \in 1 .. m : base + i \in 0 .. MaxOut
  <2>1. s.outbuf \in Seq(1 .. MaxOut) /\ Len(s.outbuf) = L /\ \A i \in 1 .. L : s.outbuf[i] = base + i
    BY FromProperties DEF PStates
  <2>2. \A i \in 1 .. L : base + i \in 1 .. MaxOut
    BY <2>1, ElementOfSeq
  <2>3. ASSUME NEW i \in 1 .. m  PROVE base + i \in 0 .. MaxOut
    <3>1. i \in Nat /\ 1 <= i /\ i <= m
      BY <1>2
    <3>2. i \in 1 .. L
      BY <1>2, <3>1
    <3>3. base + i \in 1 .. MaxOut
      BY <2>2, <3>2
    <3> QED  BY <3>3
  <2> QED  BY <2>3
<1>6. supplied \in Seq(0 .. MaxOut)
  <2>1. CASE m = 0
    BY <1>4, <2>1, EmptySeq
  <2>2. CASE m # 0
    <3>1. base + m <= MaxOut /\ MaxOut \in Nat
      BY <1>2, <1>5, <2>2, Sizes
    <3>2. supplied \in Seq(1 .. MaxOut)
      BY <1>2, <1>3, <3>1, FromType
    <3>3. 1 .. MaxOut \subseteq 0 .. MaxOut
      OBVIOUS
    <3> QED  BY <3>2, <3>3, SeqMonotonic
  <2> QED  BY <2>1, <2>2
<1>7. /\ again \in Seq(0 .. MaxOut) /\ Len(again) = Len(t.len)
      /\ \A i \in 1 .. Len(t.len) : again[i] = IF i <= m THEN base + i ELSE Stale
  <2>1. \A i \in 1 .. Len(t.len) :
           /\ (IF i <= Len(supplied) THEN supplied[i] ELSE Stale) = IF i <= m THEN base + i ELSE Stale
           /\ (IF i <= m THEN base + i ELSE Stale) \in 0 .. MaxOut
    BY <1>1, <1>2, <1>4, <1>5, Sizes DEF Stale
  <2>2. again = [i \in 1 .. Len(t.len) |-> IF i <= m THEN base + i ELSE Stale]
    BY <2>1
  <2> HIDE DEF again
  <2> QED  BY <1>1, <2>1, <2>2
<1>8. AfterSend(t, s, ev) = IF ev.sends /\ s.outbuf # <<>> THEN c ELSE t
  BY Zenon DEF AfterSend, len, again, supplied
<1> HIDE DEF again
<1>9. /\ len \in Seq(0 .. MaxOut) /\ Len(len) <= L
      /\ \A i \in 1 .. Len(len) : len[i] \in {base + i, Stale}
  <2>1. CASE t.len = <<>>
    BY <1>2, <1>4, <1>6, <2>1
  <2>2. CASE t.len # <<>>
    BY <1>7, <2>2
  <2> QED  BY <2>1, <2>2
<1>10. ASSUME t.len # <<>>
       PROVE  /\ Len(len) = Len(t.len)
              /\ \A i \in 1 .. Len(t.len) :
                     len[i] = t.len[i] \/ t.len[i] = Stale \/ (len[i] = Stale /\ i > t.mss)
  <2>1. len = again
    BY <1>10
  <2>2. ASSUME NEW i \in 1 .. Len(t.len)
        PROVE  again[i] = t.len[i] \/ t.len[i] = Stale \/ (again[i] = Stale /\ i > t.mss)
    <3>1. again[i] = (IF i <= m THEN base + i ELSE Stale) /\ t.len[i] \in {base + i, Stale}
      BY <1>7
    <3>2. ~ (i <= m) => i > t.mss
      BY <1>1, <1>2
    <3> QED  BY <3>1, <3>2
  <2> QED  BY <1>7, <2>1, <2>2
<1>11. ASSUME InFull(t.len, base, t.mss, L)
       PROVE  InFull(len, base, t.mss, L) /\ (t.len # <<>> => len = t.len)
  <2>1. CASE t.len = <<>>
    BY <1>3, <2>1 DEF InFull, m
  <2>2. CASE t.len # <<>>
    <3>1. t.len = From(base, m)
      BY <1>11, <2>2 DEF InFull, m
    <3>2. Len(t.len) = m /\ \A i \in 1 .. m : t.len[i] = base + i
      <4>1. Len(From(base, m)) = m /\ \A i \in 1 .. m : From(base, m)[i] = base + i
        BY <1>2, FromProperties
      <4> QED  BY <3>1, <4>1
    <3>3. \A i \in 1 .. Len(t.len) : again[i] = t.len[i]
      BY <1>7, <3>2
    <3>4. again = t.len
      BY <1>1, <1>7, <3>3, SeqEqual
    <3> QED  BY <2>2, <3>1, <3>4 DEF InFull, m
  <2> QED  BY <2>1, <2>2
<1> HIDE DEF len
<1>12. /\ c \in Tcps /\ c.flags = t.flags /\ c.stopped = t.stopped /\ c.una = t.una
       /\ c.rcv_nxt = t.rcv_nxt /\ c.mss = t.mss /\ c.len = len
  BY <1>9 DEF Tcps
<1> HIDE DEF c
<1>13. CASE ev.sends /\ s.outbuf # <<>>
  BY <1>8, <1>9, <1>10, <1>11, <1>12, <1>13
<1>14. CASE ~ (ev.sends /\ s.outbuf # <<>>)
  BY <1>8, <1>14
<1> QED  BY <1>13, <1>14

\* An outstanding segment is sent again.
LEMMA SendsAgain ==
    ASSUME NEW t \in Tcps, NEW s \in PStates, NEW ev, NEW L \in Nat, NEW base \in Nat,
           s.outbuf = From(base, L), t.len # <<>>,
           Len(t.len) <= L, \A i \in 1 .. Len(t.len) : t.len[i] \in {base + i, Stale}
    PROVE  /\ AfterSend(t, s, ev) \in Tcps /\ Len(AfterSend(t, s, ev).len) = Len(t.len)
           /\ \A i \in 1 .. Len(t.len) :
                 \/ AfterSend(t, s, ev).len[i] = t.len[i] \/ t.len[i] = Stale
                 \/ AfterSend(t, s, ev).len[i] = Stale /\ i > t.mss
           /\ InFull(t.len, base, t.mss, L) => AfterSend(t, s, ev).len = t.len
BY SendProperties

\* uip_appcall for a connection that is over: it only reports the error.
LEMMA AppcallEnds ==
    ASSUME UipInv, NEW t \in Tcps, t.flags \in {"LAST_ACK", "CLOSED"}, t.stopped = tcp.stopped,
           NEW ev, ev.error \in NetErrors, uip_appcall(t, ev)
    PROVE  UipInv'
<1>1. /\ pstate \in PStates /\ tcp \in Tcps /\ build \in Builds /\ peer \in Seq(0 .. MaxOut)
      /\ conns \in 0 .. MaxConns /\ accepted \in 0 .. MaxOut /\ read \in 0 .. MaxIn
      /\ trouble \subseteq Troubles
      /\ sock \in {"none", "open", "connected"}
      /\ Fresh /\ NotClosing /\ Outgoing /\ Room /\ Incoming
  BY TypeParts DEF UipInv
<1> DEFINE s == Restarted
           c == Running(t)
           p == [s EXCEPT !.res = ev.error]
<1>2. ev.error # "SUCCESS" /\ ev.error \in Codes
  BY DEF NetErrors, Codes
<1>3. pstate' = p /\ tcp' = c /\ UNCHANGED <<build, peer, sock, conns, accepted, read, trouble>>
  BY <1>2, Zenon DEF uip_appcall, Restarted, Running
<1>4. /\ s \in PStates /\ BufferOf(s) = BufferOf(pstate)
      /\ s.state \in {pstate.state, "IDLE"} /\ s.state # "RECV"
      /\ c \in Tcps /\ c.flags = t.flags /\ (~ c.stopped => HasRoom(s))
  BY RestartProperties
<1> HIDE DEF s, c
<1>5. p \in PStates /\ p.ring = s.ring /\ p.inbuf = s.inbuf /\ p.state = s.state
  BY <1>2, <1>4 DEF PStates
<1> HIDE DEF p
<1>6. TypeOK'
  BY <1>1, <1>3, <1>4, <1>5, TypesAfter
<1>7. Fresh' /\ NotClosing'
  BY <1>1, <1>3, <1>4, <1>5 DEF Fresh, NotClosing
<1>8. ~ Established'
  BY <1>3, <1>4 DEF Established
<1>9. Outgoing'
  BY <1>1, <1>3, <1>8, SameOutgoing
<1>10. Buffered' = Buffered /\ (HasRoom(pstate)' <=> HasRoom(s))
  <2>1. BufferOf(p) = BufferOf(s) /\ (HasRoom(p) <=> HasRoom(s))
    BY <1>5 DEF BufferOf, HasRoom
  <2> QED  BY <1>3, <1>4, <2>1, Buffers, BuffersAfter
<1>11. Incoming'
  BY <1>1, <1>3, <1>8, <1>10, SameIncoming
<1>12. Room'
  BY <1>3, <1>4, <1>5, <1>10 DEF Room
<1> QED  BY <1>6, <1>7, <1>9, <1>11, <1>12 DEF UipInv

\* Outgoing, from the L bytes after base that outbuf holds.
LEMMA OutgoingHolds ==
    ASSUME NEW base \in Nat, NEW L \in Nat, pstate'.outbuf = From(base, L), base + L = accepted',
           tcp'.una <= Len(peer'), Len(tcp'.len) <= L,
           \A i \in 1 .. Len(tcp'.len) : tcp'.len[i] \in {base + i, Stale},
           Len(tcp'.len) \in Nat,
           "resized" \notin trouble' => /\ peer' = From(0, Len(peer')) /\ Len(peer') <= accepted'
                                       /\ base = tcp'.una /\ InFull(tcp'.len, base, tcp'.mss, L)
    PROVE  Outgoing'
<1>1. Len(pstate'.outbuf) = L /\ \A i \in 1 .. L : pstate'.outbuf[i] = base + i
  <2>1. Len(From(base, L)) = L /\ \A i \in 1 .. L : From(base, L)[i] = base + i
    BY FromProperties
  <2> QED  BY <2>1
<1>2. accepted' - L = base /\ L <= accepted'
  OBVIOUS
<1>3. \A i \in 1 .. Len(tcp'.len) : tcp'.len[i] \in {pstate'.outbuf[i], Stale}
  <2>1. \A i \in 1 .. Len(tcp'.len) : i \in 1 .. L
    OBVIOUS
  <2> QED  BY <1>1, <2>1
<1>4. /\ Len(pstate'.outbuf) <= accepted'
      /\ pstate'.outbuf = From(accepted' - Len(pstate'.outbuf), Len(pstate'.outbuf))
      /\ Len(tcp'.len) <= Len(pstate'.outbuf)
  BY <1>1, <1>2
<1>5. "resized" \notin trouble' =>
        /\ tcp'.una + Len(pstate'.outbuf) = accepted'
        /\ tcp'.len # <<>> => tcp'.len = From(tcp'.una, Min({tcp'.mss, Len(pstate'.outbuf)}))
  BY <1>1 DEF InFull
<1> QED  BY <1>3, <1>4, <1>5 DEF Outgoing

\* uip_appcall for a live connection, on which n bytes of the peer may have come and after
\* whose acknowledgement L bytes are left in outbuf: each outcome keeps the invariant.
LEMMA AppcallKeeps ==
    ASSUME UipInv, NEW t \in Tcps, t.flags = "ESTABLISHED", t.stopped = tcp.stopped, Established,
           NEW ev, ev.error = "SUCCESS", uip_appcall(t, ev),
           NEW L \in Nat, NEW base \in Nat, AfterAck(t, Restarted, ev).outbuf = From(base, L),
           base + L = accepted, t.una <= Len(peer),
           Len(t.len) <= L, \A i \in 1 .. Len(t.len) : t.len[i] \in {base + i, Stale},
           "resized" \notin trouble => base = t.una /\ InFull(t.len, base, t.mss, L),
           NEW n \in 0 .. Mss, ev.data = From(tcp.rcv_nxt, n), tcp.rcv_nxt + n <= MaxIn,
           ev.newdata => ~ tcp.stopped,
           t.rcv_nxt = tcp.rcv_nxt \/ (ev.newdata /\ t.rcv_nxt = tcp.rcv_nxt + n)
    PROVE  UipInv'
<1>1. /\ pstate \in PStates /\ tcp \in Tcps /\ build \in Builds /\ peer \in Seq(0 .. MaxOut)
      /\ conns \in 0 .. MaxConns /\ accepted \in 0 .. MaxOut /\ read \in 0 .. MaxIn
      /\ trouble \subseteq Troubles
      /\ sock \in {"none", "open", "connected"}
      /\ Fresh /\ NotClosing /\ Outgoing /\ Room /\ Incoming
  BY TypeParts DEF UipInv
<1> DEFINE restart == pstate.state = "RECV"
           s == Restarted
           c == Running(t)
           acked == AfterAck(t, s, ev)
           sent == AfterSend(c, acked, ev)
           new == (ev.newdata \/ restart) /\ ev.data # <<>>
           stored == Store(acked, ev.data)
<1>2. /\ \/ /\ s.state = "CLOSE"
            /\ pstate' = [s EXCEPT !.state = "IDLE"]
            /\ tcp' = [c EXCEPT !.flags = "CLOSING", !.len = <<>>] /\ trouble' = trouble
         \/ /\ ~ new /\ pstate' = acked /\ tcp' = sent /\ trouble' = trouble
         \/ /\ new /\ pstate' = stored /\ tcp' = [sent EXCEPT !.stopped = @ \/ uip_stop(stored)]
            /\ trouble' = trouble \cup (IF Fills(acked, ev.data) THEN {"filled"} ELSE {})
      /\ UNCHANGED <<build, peer, sock, conns, accepted, read>>
  BY Zenon DEF uip_appcall, Restarted, Running
<1>3. /\ s \in PStates /\ BufferOf(s) = BufferOf(pstate)
      /\ s.state \in {pstate.state, "IDLE"} /\ s.state # "RECV"
      /\ c \in Tcps /\ c.flags = "ESTABLISHED" /\ c.len = t.len
      /\ c.una = t.una /\ c.rcv_nxt = t.rcv_nxt /\ c.mss = t.mss
      /\ (~ c.stopped => HasRoom(s)) /\ (~ tcp.stopped \/ restart => HasRoom(s))
  BY RestartProperties
<1> HIDE DEF s, c
<1>4. /\ acked \in PStates /\ BufferOf(acked) = BufferOf(pstate) /\ acked.state = s.state
      /\ acked.connected = s.connected /\ (HasRoom(acked) <=> HasRoom(s))
      /\ acked.outbuf = From(base, L)
  <2>1. acked.outbuf = From(base, L)
    BY DEF s
  <2>2. /\ acked \in PStates /\ BufferOf(acked) = BufferOf(s) /\ acked.state = s.state
        /\ acked.connected = s.connected /\ (HasRoom(acked) <=> HasRoom(s))
    <3>1. t \in Tcps /\ s \in PStates
      BY <1>3
    <3> HIDE DEF acked
    <3> QED  BY <3>1, AckProperties DEF acked
  <2> HIDE DEF acked
  <2> QED  BY <1>3, <2>1, <2>2
<1> HIDE DEF acked
<1>5. /\ sent \in Tcps /\ sent.flags = "ESTABLISHED" /\ sent.stopped = c.stopped
      /\ sent.una = t.una /\ sent.rcv_nxt = t.rcv_nxt /\ sent.mss = t.mss
      /\ Len(sent.len) <= L /\ \A i \in 1 .. Len(sent.len) : sent.len[i] \in {base + i, Stale}
      /\ InFull(t.len, base, t.mss, L) => InFull(sent.len, base, t.mss, L)
  <2>1. Len(c.len) <= L /\ \A i \in 1 .. Len(c.len) : c.len[i] \in {base + i, Stale}
    BY <1>3
  <2> QED  BY <1>3, <1>4, <2>1, SendProperties
<1> HIDE DEF sent, new
<1>6. ASSUME pstate'.state \in {pstate.state, "IDLE"}, tcp'.flags \in {"ESTABLISHED", "CLOSING"}
      PROVE  Fresh' /\ NotClosing'
  BY <1>1, <1>2, <1>6 DEF Fresh, NotClosing
<1>7. ASSUME pstate'.outbuf = From(base, L), tcp'.una = t.una, tcp'.len = sent.len, tcp'.mss = t.mss,
             "resized" \in trouble' <=> "resized" \in trouble
      PROVE  Outgoing'
  <2>1. /\ base + L = accepted' /\ tcp'.una <= Len(peer')
        /\ Len(tcp'.len) <= L /\ \A i \in 1 .. Len(tcp'.len) : tcp'.len[i] \in {base + i, Stale}
    BY <1>2, <1>5, <1>7
  <2>2. ASSUME "resized" \notin trouble'
        PROVE  /\ peer' = From(0, Len(peer')) /\ Len(peer') <= accepted'
               /\ base = tcp'.una /\ InFull(tcp'.len, base, tcp'.mss, L)
    BY <1>1, <1>2, <1>5, <1>7, <2>2 DEF Outgoing
  <2>3. Len(tcp'.len) \in Nat
    <3>1. sent.len \in Seq(0 .. MaxOut)
      BY <1>5 DEF Tcps
    <3> QED  BY <1>7, <3>1
  <2> QED  BY <1>7, <2>1, <2>2, <2>3, OutgoingHolds
<1>8. read \in Nat /\ tcp.rcv_nxt \in Nat /\ t.rcv_nxt \in Nat /\ n \in Nat
  BY <1>1, Sizes DEF Tcps
<1>9. BufferOf(pstate) \in Seq(Nat) /\ LastOf(BufferOf(pstate), read) \in Nat
  BY <1>1, <1>8, BufferType, LastOfType
<1>10. "filled" \notin trouble =>
         InOrder(BufferOf(pstate), read) /\ tcp.rcv_nxt <= LastOf(BufferOf(pstate), read)
  BY <1>1, Buffers DEF Incoming
<1>11. Buffered' = BufferOf(pstate') /\ (HasRoom(pstate)' <=> HasRoom(pstate'))
  BY <1>2, BuffersAfter
<1>12. CASE /\ s.state = "CLOSE"
            /\ pstate' = [s EXCEPT !.state = "IDLE"]
            /\ tcp' = [c EXCEPT !.flags = "CLOSING", !.len = <<>>] /\ trouble' = trouble
  <2>1. /\ pstate' \in PStates /\ pstate'.ring = s.ring /\ pstate'.inbuf = s.inbuf
        /\ pstate'.state = "IDLE"
    <3>1. "IDLE" \in States
      BY DEF States
    <3> QED  BY <1>3, <1>12, <3>1 DEF PStates
  <2>2. tcp' \in Tcps /\ tcp'.flags = "CLOSING" /\ tcp'.stopped = c.stopped
    <3>1. "CLOSING" \in Flags /\ <<>> \in Seq(0 .. MaxOut)
      BY EmptySeq DEF Flags
    <3>2. c \in Tcps /\ tcp' = [c EXCEPT !.flags = "CLOSING", !.len = <<>>]
      BY <1>3, <1>12
    <3> QED  BY <3>1, <3>2 DEF Tcps
  <2>3. TypeOK'
    BY <1>1, <1>2, <1>12, <2>1, <2>2, TypesAfter
  <2>4. ~ Established'
    BY <2>2 DEF Established
  <2>5. Outgoing'
    BY <1>1, <1>2, <1>12, <2>4, SameOutgoing
  <2>6. BufferOf(pstate') = BufferOf(pstate) /\ (HasRoom(pstate') <=> HasRoom(s))
    BY <1>3, <2>1 DEF BufferOf, HasRoom
  <2>7. Incoming'
    BY <1>1, <1>2, <1>11, <1>12, <2>4, <2>6, Buffers, SameIncoming
  <2>8. Room'
    BY <1>3, <1>11, <2>1, <2>2, <2>6 DEF Room
  <2> QED  BY <1>6, <2>1, <2>2, <2>3, <2>5, <2>7, <2>8 DEF UipInv
<1>13. CASE ~ new /\ pstate' = acked /\ tcp' = sent /\ trouble' = trouble
  <2>1. TypeOK'
    BY <1>1, <1>2, <1>4, <1>5, <1>13, TypesAfter
  <2>2. Fresh' /\ NotClosing'
    BY <1>3, <1>4, <1>5, <1>6, <1>13
  <2>3. Outgoing'
    BY <1>4, <1>5, <1>7, <1>13
  <2>4. tcp'.rcv_nxt = tcp.rcv_nxt
    <3>1. ev.newdata => n = 0
      BY <1>8, <1>13, FromNone DEF new
    <3> QED  BY <1>5, <1>8, <1>13, <3>1
  <2>5. Incoming'
    BY <1>1, <1>2, <1>4, <1>11, <1>13, <2>4, Buffers, SameIncoming
  <2>6. Room'
    BY <1>3, <1>4, <1>5, <1>11, <1>13 DEF Room
  <2> QED  BY <2>1, <2>2, <2>3, <2>5, <2>6 DEF UipInv
<1>14. CASE /\ new /\ pstate' = stored /\ tcp' = [sent EXCEPT !.stopped = @ \/ uip_stop(stored)]
            /\ trouble' = trouble \cup (IF Fills(acked, ev.data) THEN {"filled"} ELSE {})
  <2>1. n # 0 /\ HasRoom(acked)
    <3>1. ev.data # <<>> /\ (ev.newdata \/ restart)
      BY <1>14 DEF new
    <3> QED  BY <1>3, <1>4, <1>8, <3>1, FromNone
  <2>2. ev.data \in Seq(Byte) /\ Len(ev.data) <= Mss
    <3>1. From(tcp.rcv_nxt, n) \in Seq(1 .. MaxIn)
      BY <1>8, Sizes, FromType
    <3>2. Len(From(tcp.rcv_nxt, n)) = n
      BY <1>8, FromProperties
    <3> QED  BY <3>1, <3>2, Sizes
  <2> DEFINE fills == Fills(acked, ev.data)
  <2>3. /\ stored \in PStates /\ (fills => Mss = Window)
        /\ ~ fills => BufferOf(stored) = BufferOf(pstate) \o ev.data
        /\ stored.state = "IDLE" /\ stored.outbuf = acked.outbuf
        /\ ~ uip_stop(stored) => HasRoom(stored)
    BY <1>4, <2>1, <2>2, Stored
  <2>14. /\ trouble' \subseteq Troubles /\ ("resized" \in trouble' <=> "resized" \in trouble)
         /\ "filled" \in trouble' <=> "filled" \in trouble \/ fills
    BY <1>1, <1>14 DEF Troubles
  <2> HIDE DEF stored, fills
  <2> DEFINE stop == uip_stop(stored)
  <2>4. stop \in BOOLEAN
    BY DEF uip_stop
  <2>5. tcp' = [sent EXCEPT !.stopped = @ \/ stop]
    BY <1>14
  <2> HIDE DEF stop
  <2>6. /\ tcp' \in Tcps /\ tcp'.flags = "ESTABLISHED" /\ tcp'.una = t.una
        /\ tcp'.rcv_nxt = t.rcv_nxt /\ tcp'.len = sent.len /\ tcp'.mss = t.mss
    BY <1>5, <2>4, <2>5 DEF Tcps
  <2>7. ~ tcp'.stopped => ~ stop
    BY <1>5, <2>5, Zenon DEF Tcps
  <2>8. TypeOK'
    BY <1>1, <1>2, <1>14, <2>3, <2>6, <2>14, TypesAfter
  <2>9. Fresh' /\ NotClosing'
    BY <1>6, <1>14, <2>3, <2>6
  <2>10. Outgoing'
    BY <1>4, <1>7, <1>14, <2>3, <2>6, <2>14
  <2>11. "filled" \notin trouble =>
            /\ InOrder(BufferOf(pstate) \o ev.data, read)
            /\ LastOf(BufferOf(pstate) \o ev.data, read) = tcp.rcv_nxt + n
    <3>1. n \in Nat \ {0}
      BY <1>8, <2>1
    <3>2. ASSUME "filled" \notin trouble
          PROVE  /\ InOrder(BufferOf(pstate) \o From(tcp.rcv_nxt, n), read)
                 /\ LastOf(BufferOf(pstate) \o From(tcp.rcv_nxt, n), read) = tcp.rcv_nxt + n
      <4>1. InOrder(BufferOf(pstate), read) /\ tcp.rcv_nxt <= LastOf(BufferOf(pstate), read)
        BY <1>10, <3>2
      <4> QED  BY <1>8, <1>9, <3>1, <4>1, InOrderAppend
    <3> QED  BY <3>2
  <2>12. Incoming'
    <3>1. "filled" \in trouble' => Mss = Window
      BY <1>1, <2>3, <2>14 DEF Incoming
    <3>2. ASSUME "filled" \notin trouble'
          PROVE  InOrder(Buffered', read') /\ tcp'.rcv_nxt <= LastOf(Buffered', read')
      <4>1. Buffered' = BufferOf(pstate) \o ev.data /\ read' = read
        BY <1>2, <1>11, <1>14, <2>3, <2>14, <3>2
      <4>2. tcp'.rcv_nxt <= tcp.rcv_nxt + n
        BY <1>8, <2>6
      <4> QED  BY <2>11, <2>14, <3>2, <4>1, <4>2
    <3> QED  BY <3>1, <3>2 DEF Incoming, InOrder, LastOf
  <2>13. Room'
    <3>1. pstate'.state # "RECV" /\ (~ tcp'.stopped => HasRoom(pstate'))
      BY <1>14, <2>3, <2>7 DEF stop
    <3> QED  BY <1>11, <3>1 DEF Room
  <2> QED  BY <2>8, <2>9, <2>10, <2>12, <2>13 DEF UipInv
<1> QED  BY <1>2, <1>12, <1>13, <1>14

\* What a connection that is live knows of its two streams.
LEMMA LiveParts ==
    ASSUME UipInv, Established
    PROVE  /\ tcp \in Tcps /\ tcp.una \in Nat /\ tcp.rcv_nxt \in 0 .. MaxIn
           /\ tcp.len \in Seq(0 .. MaxOut) /\ tcp.mss \in 1 .. Mss
           /\ Len(pstate.outbuf) \in Nat /\ accepted \in 0 .. MaxOut
           /\ accepted - Len(pstate.outbuf) \in Nat
           /\ pstate.outbuf = From(accepted - Len(pstate.outbuf), Len(pstate.outbuf))
           /\ Len(tcp.len) <= Len(pstate.outbuf)
           /\ \A i \in 1 .. Len(tcp.len) :
                  tcp.len[i] \in {accepted - Len(pstate.outbuf) + i, Stale}
           /\ tcp.una <= Len(peer) /\ Len(peer) \in Nat
           /\ "resized" \notin trouble =>
                  /\ accepted - Len(pstate.outbuf) = tcp.una
                  /\ InFull(tcp.len, tcp.una, tcp.mss, Len(pstate.outbuf))
                  /\ peer = From(0, Len(peer)) /\ Len(peer) <= accepted
<1>1. /\ pstate \in PStates /\ tcp \in Tcps /\ peer \in Seq(0 .. MaxOut)
      /\ accepted \in 0 .. MaxOut /\ Outgoing
  BY TypeParts DEF UipInv
<1>2. pstate.outbuf \in Seq(1 .. MaxOut)
  BY <1>1 DEF PStates
<1>3. /\ tcp.una \in Nat /\ tcp.rcv_nxt \in 0 .. MaxIn /\ tcp.len \in Seq(0 .. MaxOut)
      /\ tcp.mss \in 1 .. Mss
  BY <1>1 DEF Tcps
<1> DEFINE L == Len(pstate.outbuf)
           base == accepted - L
<1>4. L \in Nat /\ Len(peer) \in Nat /\ Len(tcp.len) \in Nat
  BY <1>1, <1>2, <1>3
<1>5. /\ L <= accepted /\ pstate.outbuf = From(base, L) /\ Len(tcp.len) <= L
      /\ \A i \in 1 .. Len(tcp.len) : tcp.len[i] \in {pstate.outbuf[i], Stale}
      /\ tcp.una <= Len(peer)
  BY <1>1 DEF Outgoing
<1>6. "resized" \notin trouble => /\ peer = From(0, Len(peer)) /\ Len(peer) <= accepted
                                 /\ tcp.una + L = accepted /\ InFull(tcp.len, tcp.una, tcp.mss, L)
  BY <1>1 DEF Outgoing, InFull
<1> HIDE DEF L
<1>7. base \in Nat /\ (tcp.una + L = accepted => base = tcp.una)
  <2>1. accepted \in Nat /\ L <= accepted
    BY <1>1, <1>5, Sizes
  <2> QED  BY <1>3, <1>4, <2>1
<1> HIDE DEF base
<1>8. \A i \in 1 .. Len(tcp.len) : tcp.len[i] \in {base + i, Stale}
  <2>1. \A i \in 1 .. L : From(base, L)[i] = base + i
    BY <1>4, <1>7, FromProperties
  <2>2. \A i \in 1 .. Len(tcp.len) : i \in 1 .. L
    BY <1>4, <1>5
  <2> QED  BY <1>5, <2>1, <2>2
<1> QED  BY <1>1, <1>3, <1>4, <1>5, <1>6, <1>7, <1>8 DEF L, base

\* A segment of the peer stays within the largest segment and the bytes of the peer.
LEMMA SegmentRange ==
    ASSUME tcp.rcv_nxt \in 0 .. MaxIn, NEW n \in {0} \cup Segments
    PROVE  n \in 0 .. Mss /\ tcp.rcv_nxt + n \in 0 .. MaxIn /\ (n = 0 \/ n \in Nat \ {0})
<1> DEFINE m == Min({Mss, MaxIn - tcp.rcv_nxt})
<1>1. m \in Nat /\ m <= Mss /\ m <= MaxIn - tcp.rcv_nxt
  BY Sizes, MinTwo
<1> HIDE DEF m
<1>2. n = 0 \/ n \in 1 .. m
  BY DEF Segments, m
<1> QED  BY <1>1, <1>2, Sizes

\* The stack announces the window of the peer anew.
LEMMA AnnouncesKeeps ==
    ASSUME UipInv, NEW mss \in 1 .. Mss, Announces(mss)
    PROVE  UipInv'
<1>1. /\ pstate \in PStates /\ tcp \in Tcps /\ build \in Builds /\ peer \in Seq(0 .. MaxOut)
      /\ conns \in 0 .. MaxConns /\ accepted \in 0 .. MaxOut /\ read \in 0 .. MaxIn
      /\ trouble \subseteq Troubles
      /\ sock \in {"none", "open", "connected"}
      /\ Fresh /\ NotClosing /\ Outgoing /\ Room /\ Incoming
  BY TypeParts DEF UipInv
<1>2. /\ Established /\ tcp' = [tcp EXCEPT !.mss = mss]
      /\ trouble' = trouble \cup (IF tcp.len = <<>> THEN {} ELSE {"resized"})
      /\ UNCHANGED <<build, pstate, peer, sock, conns, accepted, read>>
  BY Zenon DEF Announces
<1>3. /\ tcp' \in Tcps /\ tcp'.flags = tcp.flags /\ tcp'.stopped = tcp.stopped
      /\ tcp'.len = tcp.len /\ tcp'.una = tcp.una /\ tcp'.rcv_nxt = tcp.rcv_nxt
  BY <1>1, <1>2 DEF Tcps
<1>4. /\ trouble' \subseteq Troubles /\ ("filled" \in trouble' <=> "filled" \in trouble)
      /\ "resized" \notin trouble' => "resized" \notin trouble /\ tcp.len = <<>>
  BY <1>1, <1>2 DEF Troubles
<1>5. TypeOK'
  BY <1>1, <1>2, <1>3, <1>4, TypesAfter
<1>6. Fresh' /\ NotClosing'
  BY <1>1, <1>2, <1>3 DEF Fresh, NotClosing
<1>7. Outgoing'
  BY <1>1, <1>2, <1>3, <1>4 DEF Outgoing, Established
<1>8. Buffered' = Buffered /\ (HasRoom(pstate)' <=> HasRoom(pstate))
  BY <1>2 DEF Buffered, HasRoom
<1>9. Incoming'
  BY <1>1, <1>2, <1>3, <1>4, <1>8, SameIncoming DEF Established
<1>10. Room'
  BY <1>1, <1>2, <1>3, <1>8 DEF Room
<1> QED  BY <1>5, <1>6, <1>7, <1>9, <1>10 DEF UipInv

\* Polled, or asked to send again: nothing is acknowledged and nothing has come.
LEMMA PollKeeps ==
    ASSUME UipInv, Poll \/ Rexmit
    PROVE  UipInv'
<1> DEFINE ev == [Quiet EXCEPT !.sends = TRUE]
<1>1. Established /\ uip_appcall(tcp, ev)
  BY Zenon DEF Poll, Rexmit
<1>2. ev.error = "SUCCESS" /\ ev.data = <<>> /\ ~ ev.newdata /\ ~ ev.acked
  BY DEF Quiet
<1> HIDE DEF ev
<1> DEFINE L == Len(pstate.outbuf)
           base == accepted - L
<1>3. /\ tcp \in Tcps /\ tcp.rcv_nxt \in 0 .. MaxIn
      /\ L \in Nat /\ accepted \in 0 .. MaxOut /\ base \in Nat /\ pstate.outbuf = From(base, L)
      /\ Len(tcp.len) <= L /\ \A i \in 1 .. Len(tcp.len) : tcp.len[i] \in {base + i, Stale}
      /\ tcp.una <= Len(peer)
      /\ "resized" \notin trouble => base = tcp.una /\ InFull(tcp.len, tcp.una, tcp.mss, L)
  BY <1>1, LiveParts
<1>4. base + L = accepted
  <2>1. accepted \in Nat
    BY <1>3, Sizes
  <2> HIDE DEF L
  <2> QED  BY <1>3, <2>1
<1>5. "resized" \notin trouble => base = tcp.una /\ InFull(tcp.len, base, tcp.mss, L)
  BY <1>3
<1>6. AfterAck(tcp, Restarted, ev).outbuf = From(base, L)
  BY <1>2, <1>3, NothingAcked
<1> HIDE DEF L, base
<1>7. ev.data = From(tcp.rcv_nxt, 0) /\ tcp.rcv_nxt + 0 <= MaxIn /\ 0 \in 0 .. Mss
  BY <1>2, <1>3, Sizes, FromNone
<1>8. tcp.flags = "ESTABLISHED"
  BY <1>1 DEF Established
<1> QED  BY <1>1, <1>2, <1>3, <1>4, <1>5, <1>6, <1>7, <1>8, AppcallKeeps

\* The outstanding segment is acknowledged: what uip_mss() is now is taken off outbuf, with data
\* of the peer or without.
LEMMA AckedKeeps ==
    ASSUME UipInv, NEW n \in {0} \cup Segments, Acked(Segment(n))
    PROVE  UipInv'
<1> DEFINE data == Segment(n)
           t == [tcp EXCEPT !.una = @ + Len(tcp.len), !.len = <<>>,
                            !.rcv_nxt = IF tcp.stopped THEN @ ELSE @ + Len(data)]
           ev == [Quiet EXCEPT !.acked = TRUE, !.sends = TRUE,
                               !.newdata = ~tcp.stopped /\ data # <<>>, !.data = data]
           m == Len(tcp.len)
           out == Len(pstate.outbuf)
           k == Min({out, tcp.mss})
           base == accepted - out
<1>1. /\ Established /\ tcp.len # <<>> /\ Len(peer) >= tcp.una + m
      /\ uip_appcall(t, ev)
  BY Zenon DEF Acked
<1>2. /\ tcp \in Tcps /\ tcp.una \in Nat /\ tcp.rcv_nxt \in 0 .. MaxIn
      /\ tcp.len \in Seq(0 .. MaxOut) /\ tcp.mss \in 1 .. Mss
      /\ out \in Nat /\ accepted \in 0 .. MaxOut /\ base \in Nat
      /\ pstate.outbuf = From(base, out) /\ Len(peer) \in Nat
      /\ "resized" \notin trouble => base = tcp.una /\ InFull(tcp.len, tcp.una, tcp.mss, out)
  BY <1>1, LiveParts
<1>3. m \in Nat /\ accepted \in Nat /\ tcp.mss \in Nat
  BY <1>2, Sizes
<1>4. base + out = accepted
  <2> HIDE DEF out
  <2> QED  BY <1>2, <1>3
<1> HIDE DEF out, base
<1>5. k \in 0 .. out /\ out - k \in Nat /\ base + k \in Nat /\ (base + k) + (out - k) = accepted
  <2>0. out \in Nat /\ tcp.mss \in Nat /\ base \in Nat /\ accepted \in Nat
    BY <1>2, <1>3
  <2>1. k = IF out <= tcp.mss THEN out ELSE tcp.mss
    BY <2>0, MinTwo
  <2> HIDE DEF k
  <2> QED  BY <1>4, <2>0, <2>1
<1>6. "resized" \notin trouble => base + k = tcp.una + m
  <2> SUFFICES ASSUME "resized" \notin trouble PROVE base + k = tcp.una + m
    OBVIOUS
  <2>1. base = tcp.una /\ tcp.len = From(tcp.una, Min({tcp.mss, out}))
    BY <1>1, <1>2 DEF InFull
  <2>2. Min({tcp.mss, out}) = k
    <3>1. {tcp.mss, out} = {out, tcp.mss}
      OBVIOUS
    <3> QED  BY <3>1, Zenon
  <2>3. Len(From(tcp.una, k)) = k
    <3>1. tcp.una \in Nat /\ k \in Nat
      BY <1>2, <1>5
    <3> HIDE DEF k
    <3> QED  BY <3>1, FromProperties
  <2>4. m = k
    BY <2>1, <2>2, <2>3
  <2> QED  BY <2>1, <2>4
<1>7. n \in 0 .. Mss /\ tcp.rcv_nxt + n \in 0 .. MaxIn
  BY <1>2, SegmentRange
<1>8. data = From(tcp.rcv_nxt, n) /\ Len(data) = n
  <2>1. tcp.rcv_nxt \in Nat /\ n \in Nat
    BY <1>2, <1>7, Sizes
  <2> QED  BY <2>1, FromProperties DEF Segment
<1>9. /\ ev.error = "SUCCESS" /\ ev.acked /\ ev.data = data
      /\ ev.newdata <=> ~tcp.stopped /\ data # <<>>
  BY Zenon DEF Quiet
<1> HIDE DEF ev, data, k
<1>10. /\ t \in Tcps /\ t.flags = "ESTABLISHED" /\ t.stopped = tcp.stopped
       /\ t.una = tcp.una + m /\ t.len = <<>> /\ t.mss = tcp.mss
       /\ t.rcv_nxt = IF tcp.stopped THEN tcp.rcv_nxt ELSE tcp.rcv_nxt + n
  <2>1. tcp.una + m \in Nat
    <3> HIDE DEF m
    <3> QED  BY <1>2, <1>3
  <2>2. (IF tcp.stopped THEN tcp.rcv_nxt ELSE tcp.rcv_nxt + Len(data)) \in 0 .. MaxIn
    BY <1>2, <1>7, <1>8
  <2>3. <<>> \in Seq(0 .. MaxOut)
    BY EmptySeq
  <2> HIDE DEF m
  <2>4. t = [tcp EXCEPT !.una = tcp.una + m, !.len = <<>>,
                        !.rcv_nxt = IF tcp.stopped THEN tcp.rcv_nxt ELSE tcp.rcv_nxt + Len(data)]
    BY Zenon DEF m
  <2> HIDE DEF t
  <2> QED  BY <1>1, <1>2, <1>8, <2>1, <2>2, <2>3, <2>4 DEF Tcps, Established
<1> HIDE DEF t, m
<1>11. AfterAck(t, Restarted, ev).outbuf = From(base + k, out - k)
  <2>1. Restarted \in PStates /\ Restarted.outbuf = pstate.outbuf
    BY <1>10, RestartProperties
  <2>2. AfterAck(t, Restarted, ev).outbuf
            = Suffix(Restarted.outbuf, Min({Len(Restarted.outbuf), t.mss}))
    BY <1>9, <1>10, <2>1, AckProperties
  <2>3. Suffix(From(base, out), k) = From(base + k, out - k)
    BY <1>2, <1>5, FromSuffix
  <2> QED  BY <1>2, <1>10, <2>1, <2>2, <2>3 DEF out, k
<1>12. ev.newdata => ~ tcp.stopped
  BY <1>9
<1>13. t.rcv_nxt = tcp.rcv_nxt \/ (ev.newdata /\ t.rcv_nxt = tcp.rcv_nxt + n)
  <2>1. tcp.rcv_nxt \in Nat /\ n \in Nat
    BY <1>2, <1>7, Sizes
  <2>2. data = <<>> => n = 0
    BY <1>8, <2>1, FromNone
  <2> QED  BY <1>9, <1>10, <2>1, <2>2
<1> DEFINE L == out - k
           base2 == base + k
<1>14. /\ L \in Nat /\ base2 \in Nat /\ base2 + L = accepted /\ t.una <= Len(peer)
       /\ AfterAck(t, Restarted, ev).outbuf = From(base2, L)
       /\ "resized" \notin trouble => base2 = t.una
  BY <1>1, <1>5, <1>6, <1>10, <1>11
<1> HIDE DEF L, base2
<1>15. Len(t.len) <= L /\ \A i \in 1 .. Len(t.len) : t.len[i] \in {base2 + i, Stale}
  <2>1. Len(t.len) = 0
    BY <1>10, EmptySeq
  <2> QED  BY <1>14, <2>1
<1>16. InFull(t.len, base2, t.mss, L)
  BY <1>10 DEF InFull
<1>17. tcp.rcv_nxt + n <= MaxIn /\ ev.data = From(tcp.rcv_nxt, n)
  BY <1>7, <1>8, <1>9
<1> QED  BY <1>1, <1>7, <1>9, <1>10, <1>12, <1>13, <1>14, <1>15, <1>16, <1>17, AppcallKeeps

\* Data alone.
LEMMA NewDataKeeps ==
    ASSUME UipInv, NEW n \in Segments, NewData(n)
    PROVE  UipInv'
<1> DEFINE t == [tcp EXCEPT !.rcv_nxt = @ + n]
           ev == [Quiet EXCEPT !.newdata = TRUE, !.data = Segment(n)]
           L == Len(pstate.outbuf)
           base == accepted - L
<1>1. Established /\ ~ tcp.stopped /\ uip_appcall(t, ev)
  BY Zenon DEF NewData
<1>2. /\ tcp \in Tcps /\ tcp.rcv_nxt \in 0 .. MaxIn
      /\ L \in Nat /\ accepted \in 0 .. MaxOut /\ base \in Nat /\ pstate.outbuf = From(base, L)
      /\ Len(tcp.len) <= L /\ \A i \in 1 .. Len(tcp.len) : tcp.len[i] \in {base + i, Stale}
      /\ tcp.una <= Len(peer)
      /\ "resized" \notin trouble => base = tcp.una /\ InFull(tcp.len, tcp.una, tcp.mss, L)
  BY <1>1, LiveParts
<1>3. base + L = accepted
  <2>1. accepted \in Nat
    BY <1>2, Sizes
  <2> HIDE DEF L
  <2> QED  BY <1>2, <2>1
<1>4. n \in 0 .. Mss /\ tcp.rcv_nxt + n \in 0 .. MaxIn
  BY <1>2, SegmentRange
<1>5. /\ ev.error = "SUCCESS" /\ ~ ev.acked /\ ev.newdata /\ ev.data = From(tcp.rcv_nxt, n)
  BY DEF Quiet, Segment
<1> HIDE DEF ev
<1>6. /\ t \in Tcps /\ t.flags = "ESTABLISHED" /\ t.stopped = tcp.stopped /\ t.una = tcp.una
      /\ t.len = tcp.len /\ t.mss = tcp.mss /\ t.rcv_nxt = tcp.rcv_nxt + n
  BY <1>1, <1>2, <1>4 DEF Tcps, Established
<1> HIDE DEF t
<1>7. AfterAck(t, Restarted, ev).outbuf = From(base, L)
  BY <1>2, <1>5, <1>6, NothingAcked
<1> HIDE DEF L, base
<1>8. /\ Len(t.len) <= L /\ \A i \in 1 .. Len(t.len) : t.len[i] \in {base + i, Stale}
      /\ "resized" \notin trouble => base = t.una /\ InFull(t.len, base, t.mss, L)
  BY <1>2, <1>6
<1>9. tcp.rcv_nxt + n <= MaxIn /\ t.una <= Len(peer)
  BY <1>2, <1>4, <1>6
<1> QED  BY <1>1, <1>2, <1>3, <1>4, <1>5, <1>6, <1>7, <1>8, <1>9, AppcallKeeps

\* The peer closes: the connection is over, and what came with it is not stored.
LEMMA PeerClosesKeeps ==
    ASSUME UipInv, NEW n \in {0} \cup Segments, PeerCloses(n)
    PROVE  UipInv'
<1> DEFINE t == [tcp EXCEPT !.rcv_nxt = @ + n, !.flags = "LAST_ACK"]
           ev == [Quiet EXCEPT !.newdata = n > 0, !.data = Segment(n), !.error = "CLOSED"]
<1>1. Established /\ uip_appcall(t, ev)
  BY Zenon DEF PeerCloses
<1>2. tcp \in Tcps /\ tcp.rcv_nxt \in 0 .. MaxIn
  BY <1>1, LiveParts
<1>3. tcp.rcv_nxt + n \in 0 .. MaxIn
  BY <1>2, SegmentRange
<1>4. ev.error \in NetErrors
  BY DEF Quiet, NetErrors
<1> HIDE DEF ev
<1>5. t \in Tcps /\ t.flags = "LAST_ACK" /\ t.stopped = tcp.stopped
  BY <1>2, <1>3 DEF Tcps, Flags
<1> HIDE DEF t
<1> QED  BY <1>1, <1>4, <1>5, AppcallEnds

LEMMA EndsKeeps ==
    ASSUME UipInv, NEW error \in NetErrors, Ends(error)
    PROVE  UipInv'
<1> DEFINE t == [tcp EXCEPT !.flags = "CLOSED", !.len = <<>>]
           ev == [Quiet EXCEPT !.error = error]
<1>1. uip_appcall(t, ev)
  BY Zenon DEF Ends
<1>2. ev.error \in NetErrors
  BY DEF Quiet
<1> HIDE DEF ev
<1>3. t \in Tcps /\ t.flags = "CLOSED" /\ t.stopped = tcp.stopped
  <2>1. tcp \in Tcps
    BY TypeParts DEF UipInv
  <2>2. "CLOSED" \in Flags /\ <<>> \in Seq(0 .. MaxOut)
    BY EmptySeq DEF Flags
  <2> QED  BY <2>1, <2>2 DEF Tcps
<1> HIDE DEF t
<1> QED  BY <1>1, <1>2, <1>3, AppcallEnds

\* The peer takes what it lacks of the outstanding segment.
LEMMA PeerReceivesKeeps ==
    ASSUME UipInv, PeerReceives
    PROVE  UipInv'
<1>1. /\ pstate \in PStates /\ build \in Builds /\ sock \in {"none", "open", "connected"}
      /\ conns \in 0 .. MaxConns /\ read \in 0 .. MaxIn /\ trouble \subseteq Troubles
      /\ peer \in Seq(0 .. MaxOut)
      /\ Fresh /\ NotClosing /\ Outgoing /\ Room /\ Incoming
  BY TypeParts DEF UipInv
<1> DEFINE m == Len(tcp.len)
           out == Len(pstate.outbuf)
           base == accepted - out
           k == Len(peer)
<1>2. /\ Established /\ k < tcp.una + m /\ peer' = peer \o Suffix(tcp.len, k - tcp.una)
      /\ UNCHANGED <<build, pstate, tcp, sock, conns, accepted, read, trouble>>
  BY Zenon DEF PeerReceives
<1>3. /\ tcp \in Tcps /\ tcp.una \in Nat /\ tcp.len \in Seq(0 .. MaxOut) /\ tcp.mss \in 1 .. Mss
      /\ out \in Nat /\ base \in Nat /\ accepted \in 0 .. MaxOut
      /\ pstate.outbuf = From(base, out) /\ Len(tcp.len) <= out
      /\ \A i \in 1 .. Len(tcp.len) : tcp.len[i] \in {base + i, Stale}
      /\ tcp.una <= k /\ k \in Nat
      /\ "resized" \notin trouble => /\ base = tcp.una /\ InFull(tcp.len, tcp.una, tcp.mss, out)
                                     /\ peer = From(0, k) /\ k <= accepted
  BY <1>2, LiveParts
<1>4. base + out = accepted
  <2>1. accepted \in Nat
    BY <1>3, Sizes
  <2> HIDE DEF out
  <2> QED  BY <1>3, <2>1
<1>5. m \in Nat /\ m <= out
  BY <1>3
<1> HIDE DEF k, out, base
<1>6. tcp.len # <<>>
  <2>1. m # 0
    <3> HIDE DEF m
    <3> QED  BY <1>2, <1>3, <1>5
  <2> QED  BY <1>3, <2>1, EmptySeq
<1>7. "resized" \notin trouble => tcp.len = From(tcp.una, m)
  <2> SUFFICES ASSUME "resized" \notin trouble PROVE tcp.len = From(tcp.una, m)
    OBVIOUS
  <2>1. tcp.len = From(tcp.una, Min({tcp.mss, out}))
    BY <1>3, <1>6 DEF InFull
  <2>2. Min({tcp.mss, out}) \in Nat
    <3>1. tcp.mss \in Nat /\ out \in Nat
      BY <1>3, Sizes
    <3> QED  BY <3>1, MinTwo
  <2>3. Len(From(tcp.una, Min({tcp.mss, out}))) = Min({tcp.mss, out})
    BY <1>3, <2>2, FromProperties
  <2> QED  BY <2>1, <2>3
<1> HIDE DEF m
<1> DEFINE u == tcp.una
<1>8. k \in Nat /\ u \in Nat /\ m \in Nat /\ u <= k /\ k < u + m
  BY <1>2, <1>3, <1>5
<1> HIDE DEF u
<1>9. /\ k - u \in 0 .. m /\ m - (k - u) \in Nat /\ k - u + 1 \in Int
      /\ u + (k - u) = 0 + k /\ k + (m - (k - u)) = u + m
  BY <1>8
<1>10. peer' \in Seq(0 .. MaxOut) /\ Len(peer') = u + m
  <2> DEFINE rest == SubSeq(tcp.len, k - u + 1, m)
  <2>1. \A i \in k - u + 1 .. m : tcp.len[i] \in 0 .. MaxOut
    <3>1. \A i \in k - u + 1 .. m : i \in 1 .. m
      BY <1>9
    <3> QED  BY <1>3, <3>1, ElementOfSeq DEF m
  <2>2. rest \in Seq(0 .. MaxOut) /\ Len(rest) = m - (k - u)
    <3>1. m \in Int
      BY <1>8
    <3>2. /\ rest \in Seq(0 .. MaxOut)
          /\ Len(rest) = IF k - u + 1 <= m THEN m - (k - u + 1) + 1 ELSE 0
      BY <1>9, <2>1, <3>1, SubSeqProperties
    <3> HIDE DEF rest
    <3> QED  BY <1>8, <3>2
  <2>3. peer' = peer \o rest
    BY <1>2 DEF Suffix, m, u
  <2> HIDE DEF rest
  <2>4. Len(peer) = k
    BY DEF k
  <2>5. peer \o rest \in Seq(0 .. MaxOut) /\ Len(peer \o rest) = Len(peer) + Len(rest)
    BY <1>1, <2>2, ConcatProperties
  <2> QED  BY <1>9, <2>2, <2>3, <2>4, <2>5
<1>11. "resized" \notin trouble => peer' = From(0, u + m) /\ u + m <= accepted
  <2> SUFFICES ASSUME "resized" \notin trouble PROVE peer' = From(0, u + m) /\ u + m <= accepted
    OBVIOUS
  <2>1. peer = From(0, k) /\ tcp.len = From(u, m) /\ base = u
    BY <1>3, <1>7 DEF u
  <2>2. Suffix(From(u, m), k - u) = From(u + (k - u), m - (k - u))
    BY <1>8, <1>9, FromSuffix
  <2>3. From(0, k) \o From(0 + k, m - (k - u)) = From(0, k + (m - (k - u)))
    BY <1>8, <1>9, FromConcat
  <2>4. peer' = From(0, k) \o Suffix(From(u, m), k - u)
    BY <1>2, <2>1 DEF u
  <2>5. u + m <= accepted
    BY <1>3, <1>4, <1>5, <1>8, <2>1
  <2> QED  BY <1>9, <2>2, <2>3, <2>4, <2>5
<1>12. TypeOK'
  BY <1>1, <1>2, <1>3, <1>10, TypesAfter
<1>13. Fresh' /\ NotClosing'
  BY <1>1, <1>2 DEF Fresh, NotClosing, Established
<1>14. Outgoing'
  <2>1. /\ pstate' = pstate /\ tcp' = tcp /\ accepted' = accepted /\ trouble' = trouble
    BY <1>2
  <2>2. tcp.una <= Len(peer')
    BY <1>8, <1>10 DEF u
  <2>3. "resized" \notin trouble => peer' = From(0, Len(peer')) /\ Len(peer') <= accepted
    BY <1>10, <1>11
  <2> QED  BY <1>1, <2>1, <2>2, <2>3 DEF Outgoing, Established
<1>15. Buffered' = Buffered /\ (HasRoom(pstate)' <=> HasRoom(pstate))
  BY <1>2 DEF Buffered, HasRoom
<1>16. Incoming'
  BY <1>1, <1>2, <1>15, SameIncoming DEF Established
<1>17. Room'
  BY <1>1, <1>2, <1>15 DEF Room
<1> QED  BY <1>12, <1>13, <1>14, <1>16, <1>17 DEF UipInv

-----------------------------------------------------------------------------
(***************************************************************************)
(* The theorems.                                                           *)
(***************************************************************************)

LEMMA UipStep ==
    ASSUME UipInv, [Next]_vars
    PROVE  UipInv'
<1>1. CASE net_if_socket
  BY <1>1, SocketKeeps
<1>2. CASE net_if_connect
  BY <1>2, ConnectKeeps
<1>3. CASE Sends
  BY <1>3, SendKeeps DEF Sends
<1>4. CASE Receive
  BY <1>4, ReceiveKeeps DEF Receive
<1>5. CASE net_if_close
  BY <1>5, CloseKeeps
<1>6. CASE Connected
  BY <1>6, ConnectedKeeps
<1>7. CASE Poll \/ Rexmit
  BY <1>7, PollKeeps
<1>8. CASE Acknowledged
  BY <1>8, AckedKeeps DEF Acknowledged
<1>9. CASE Arrives
  BY <1>9, NewDataKeeps DEF Arrives
<1>10. CASE Closes
  BY <1>10, PeerClosesKeeps DEF Closes
<1>11. CASE Dies
  BY <1>11, EndsKeeps DEF Dies
<1>12. CASE PeerReceives
  BY <1>12, PeerReceivesKeeps
<1>13. CASE Resizes
  BY <1>13, AnnouncesKeeps DEF Resizes
<1>14. CASE UNCHANGED vars
  BY <1>14 DEF vars, UipInv, TypeOK, Fresh, NotClosing, Outgoing, Room, HasRoom, Incoming,
               InOrder, LastOf, Buffered, Established
<1> QED  BY <1>1, <1>2, <1>3, <1>4, <1>5, <1>6, <1>7, <1>8, <1>9, <1>10, <1>11, <1>12, <1>13, <1>14
         DEF Next

\* UipInv is inductive, and so an invariant.
THEOREM UipAlways == Spec => []UipInv
<1>1. UipInv /\ [Next]_vars => UipInv'
  BY UipStep
<1> QED  BY UipInit, <1>1, PTL DEF Spec

\* The slot, the stack's connection and the socket of the caller keep their types: no call or
\* event stores more than the ring, outbuf or a segment holds.
THEOREM SocketTypes == Spec => []TypeOK
<1>1. UipInv => TypeOK
  BY DEF UipInv
<1> QED  BY UipAlways, <1>1, PTL

\* net_if_send and the acknowledgements in uip_appcall: whatever is sent again, acknowledged or
\* cut short, and however the peer changes its window, outbuf keeps the end of what was accepted and
\* the outstanding segment is taken from its front; the peer receives the accepted bytes in order and
\* once, and outbuf has the rest, until the window changes between a send and its acknowledgement.
THEOREM OutgoingKept == Spec => []OutStream
<1>1. ASSUME UipInv PROVE OutStream
  <2>1. Outgoing /\ NotClosing
    BY <1>1 DEF UipInv
  <2> DEFINE out == Len(pstate.outbuf)
  <2>2. ASSUME Established, "resized" \notin trouble
        PROVE  accepted - out = tcp.una
    <3>1. tcp.una \in Nat /\ out \in Nat
      BY <1>1, <2>2, LiveParts
    <3>2. tcp.una + out = accepted
      BY <2>1, <2>2 DEF Outgoing
    <3> HIDE DEF out
    <3> QED  BY <3>1, <3>2
  <2>3. Established =>
            /\ pstate.outbuf = From(accepted - out, out)
            /\ Len(tcp.len) <= out
            /\ \A i \in 1 .. Len(tcp.len) : tcp.len[i] \in {pstate.outbuf[i], Stale}
            /\ tcp.una <= Len(peer)
    BY <2>1 DEF Outgoing
  <2>4. "resized" \notin trouble => peer = From(0, Len(peer)) /\ Len(peer) <= accepted
    BY <2>1 DEF Outgoing
  <2> QED  BY <2>1, <2>2, <2>3, <2>4, Zenon DEF OutStream, NotClosing
<1> QED  BY UipAlways, <1>1, PTL

\* uip_appcall, the buffers and net_recv_internal: with uip_stop at the window, the caller misses no
\* byte of the peer, and every byte the stack acknowledged is read or still in the buffer, until a
\* segment fills the ring, which only a segment as long as the receive window does.
THEOREM IncomingKept == Spec => []InStream
<1>1. ASSUME UipInv PROVE InStream
  <2>0. "filled" \in trouble => Mss = Window
    BY <1>1 DEF UipInv, Incoming
  <2> SUFFICES ASSUME "filled" \notin trouble
               PROVE  /\ \A i \in DOMAIN Buffered :
                            Buffered[i] <= 1 + Max({read} \cup {Buffered[j] : j \in 1 .. i - 1})
                      /\ Established /\ sock # "none"
                            => tcp.rcv_nxt <= Max({read} \cup {Buffered[i] : i \in DOMAIN Buffered})
    BY <2>0, Zenon DEF InStream
  <2>1. pstate \in PStates /\ read \in 0 .. MaxIn /\ Incoming
    BY <1>1, TypeParts DEF UipInv
  <2> DEFINE b == Buffered
             top == Max({read} \cup {b[i] : i \in DOMAIN b})
  <2>2. b \in Seq(0 .. MaxIn) /\ b \in Seq(Nat)
    BY <2>1, Buffers, BufferType
  <2>3. InOrder(b, read) /\ (Established => tcp.rcv_nxt <= LastOf(b, read))
    BY <2>1 DEF Incoming
  <2> HIDE DEF b
  <2>4. /\ \A i \in DOMAIN b : b[i] <= 1 + Max({read} \cup {b[j] : j \in 1 .. i - 1})
        /\ LastOf(b, read) <= top
    <3>1. MaxIn \in Nat
      BY Sizes
    <3> QED  BY <2>1, <2>2, <2>3, <3>1, InOrderNoGap
  <2>5. top \in 0 .. MaxIn
    <3> DEFINE S == {read} \cup {b[i] : i \in DOMAIN b}
    <3>1. S \subseteq 0 .. MaxIn /\ S # {}
      <4>1. b \in Seq(0 .. MaxIn)
        BY <2>2
      <4>2. DOMAIN b = 1 .. Len(b)
        BY <4>1, LenProperties
      <4>3. \A i \in DOMAIN b : b[i] \in 0 .. MaxIn
        BY <4>1, <4>2, ElementOfSeq
      <4> QED  BY <2>1, <4>3
    <3>2. MaxIn \in Nat
      BY Sizes
    <3> HIDE DEF S
    <3>3. Max(S) \in S
      BY <3>1, <3>2, MaxBounds
    <3> QED  BY <3>1, <3>3 DEF S
  <2> HIDE DEF top
  <2>6. ASSUME Established PROVE tcp.rcv_nxt <= top
    <3>1. tcp.rcv_nxt \in 0 .. MaxIn
      BY <1>1, <2>6, LiveParts
    <3>2. LastOf(b, read) \in Nat
      <4>1. read \in Nat
        BY <2>1, Sizes
      <4> QED  BY <2>2, <4>1, LastOfType
    <3> QED  BY <2>3, <2>4, <2>5, <2>6, <3>1, <3>2, Sizes
  <2> QED  BY <2>4, <2>6, Zenon DEF b, top
<1> QED  BY UipAlways, <1>1, PTL

-----------------------------------------------------------------------------
(***************************************************************************)
(* What is sent again.                                                     *)
(***************************************************************************)

Sent(t, ev) == AfterSend(Running(t), AfterAck(t, Restarted, ev), ev)
Stopped(t, ev) == Sent(t, ev).stopped \/ uip_stop(Store(AfterAck(t, Restarted, ev), ev.data))

\* What uip_appcall may leave of the connection.
LEMMA AppcallCases ==
    ASSUME NEW t, NEW ev, uip_appcall(t, ev)
    PROVE  \/ ev.error # "SUCCESS" /\ tcp' = Running(t)
           \/ tcp' = [Running(t) EXCEPT !.flags = "CLOSING", !.len = <<>>]
           \/ tcp' = Sent(t, ev) \/ tcp' = [Sent(t, ev) EXCEPT !.stopped = Stopped(t, ev)]
BY Zenon DEF uip_appcall, Restarted, Running, Sent, Stopped

\* It neither acknowledges nor revives: una is the stack's, and a connection it leaves
\* established was established when it was called.
LEMMA AppcallStack ==
    ASSUME NEW t \in Tcps, NEW ev, uip_appcall(t, ev)
    PROVE  tcp'.una = t.una /\ (Established' => t.flags = "ESTABLISHED")
<1> DEFINE c == Running(t)
           x == Sent(t, ev)
           stop == Stopped(t, ev)
<1>1. c = [t EXCEPT !.stopped = c.stopped]
  BY DEF Running, Tcps
<1>2. x = c \/ \E len : x = [c EXCEPT !.len = len]
  BY Zenon DEF Sent, AfterSend
<1>3. \/ tcp' = c
      \/ tcp' = [c EXCEPT !.flags = "CLOSING", !.len = <<>>]
      \/ tcp' = x \/ tcp' = [x EXCEPT !.stopped = stop]
  BY AppcallCases
<1> HIDE DEF c, x, stop
<1>4. c.una = t.una /\ c.flags = t.flags /\ DOMAIN c = DOMAIN t
  BY <1>1 DEF Tcps
<1>5. x.una = t.una /\ x.flags = t.flags
  BY <1>2, <1>4 DEF Tcps
<1>6. DOMAIN x = DOMAIN t
  BY <1>2, <1>4
<1>7. "una" \in DOMAIN t /\ "flags" \in DOMAIN t
  BY DEF Tcps
<1>8. CASE tcp' = [c EXCEPT !.flags = "CLOSING", !.len = <<>>]
  BY <1>4, <1>7, <1>8 DEF Established
<1>9. CASE tcp' = [x EXCEPT !.stopped = stop]
  BY <1>5, <1>6, <1>7, <1>9 DEF Established
<1> QED  BY <1>3, <1>4, <1>5, <1>8, <1>9 DEF Established

\* What becomes of the outstanding segment, len before and again afterwards.
Again(len, again, mss, changed) ==
    /\ Len(again) = Len(len)
    /\ \A i \in 1 .. Len(len) :
          \/ again[i] = len[i] \/ len[i] = Stale
          \/ again[i] = Stale /\ i > mss
    /\ ~ changed => again = len

\* A segment that is outstanding when uip_appcall is called, and not acknowledged, goes out again
\* as long as it was, with the bytes of outbuf it had.
LEMMA AppcallSendsAgain ==
    ASSUME UipInv, NEW t \in Tcps, t.stopped = tcp.stopped, t.una = tcp.una, t.len = tcp.len,
           t.mss = tcp.mss,
           t.len # <<>>, Established, NEW ev, ev.error = "SUCCESS", ~ ev.acked,
           uip_appcall(t, ev), Established'
    PROVE  Again(tcp.len, tcp'.len, tcp.mss, "resized" \in trouble)
<1> DEFINE L == Len(pstate.outbuf)
           base == accepted - L
           x == Sent(t, ev)
           stop == Stopped(t, ev)
<1>1. /\ L \in Nat /\ base \in Nat /\ pstate.outbuf = From(base, L) /\ Len(t.len) <= L
      /\ \A i \in 1 .. Len(t.len) : t.len[i] \in {base + i, Stale}
      /\ "resized" \notin trouble => InFull(t.len, base, t.mss, L)
  BY LiveParts
<1> HIDE DEF L, base
<1>2. /\ AfterAck(t, Restarted, ev) \in PStates
      /\ AfterAck(t, Restarted, ev).outbuf = From(base, L)
  BY <1>1, NothingAcked
<1>3. /\ Running(t) \in Tcps /\ Running(t).len = t.len /\ Running(t).mss = t.mss
  BY RestartProperties
<1>4. /\ Len(Running(t).len) <= L
      /\ \A i \in 1 .. Len(Running(t).len) : Running(t).len[i] \in {base + i, Stale}
  BY <1>1, <1>3
<1>5. x \in Tcps /\ Again(t.len, x.len, t.mss, "resized" \in trouble)
  <2> DEFINE r == Running(t)
             s == AfterAck(t, Restarted, ev)
             y == AfterSend(r, s, ev)
  <2>1. r \in Tcps /\ s \in PStates /\ s.outbuf = From(base, L) /\ L \in Nat /\ base \in Nat
    BY <1>1, <1>2, <1>3
  <2>2. Len(r.len) <= L /\ \A i \in 1 .. Len(r.len) : r.len[i] \in {base + i, Stale}
    BY <1>4
  <2>3. r.len # <<>> /\ r.len = t.len /\ r.mss = t.mss
    BY <1>3
  <2> HIDE DEF r, s
  <2>4. /\ y \in Tcps /\ Len(y.len) = Len(r.len)
        /\ \A i \in 1 .. Len(r.len) :
              y.len[i] = r.len[i] \/ r.len[i] = Stale \/ (y.len[i] = Stale /\ i > r.mss)
        /\ InFull(r.len, base, r.mss, L) => y.len = r.len
    <3>1. r.len # <<>>
      BY <2>3
    <3> QED  BY <2>1, <2>2, <3>1, SendsAgain
  <2>5. x = y
    BY DEF Sent, r, s
  <2> HIDE DEF y, x
  <2> QED  BY <1>1, <2>3, <2>4, <2>5 DEF Again
<1> HIDE DEF x
<1>6. \/ tcp' = [Running(t) EXCEPT !.flags = "CLOSING", !.len = <<>>]
      \/ tcp' = x \/ tcp' = [x EXCEPT !.stopped = stop]
  BY AppcallCases DEF x
<1> HIDE DEF stop
<1>7. tcp' # [Running(t) EXCEPT !.flags = "CLOSING", !.len = <<>>]
  BY <1>3 DEF Established, Tcps
<1>8. tcp'.len = x.len
  <2>1. CASE tcp' = [x EXCEPT !.stopped = stop]
    BY <1>5, <2>1 DEF Tcps
  <2> QED  BY <1>6, <1>7, <2>1
<1> QED  BY <1>5, <1>8

SameSegment ==
    Established /\ Established' /\ tcp.len # <<>> /\ tcp'.una = tcp.una =>
        /\ Len(tcp'.len) = Len(tcp.len)
        /\ \A i \in 1 .. Len(tcp.len) :
              \/ tcp'.len[i] = tcp.len[i] \/ tcp.len[i] = Stale
              \/ tcp'.len[i] = Stale /\ i > tcp.mss
        /\ "resized" \notin trouble => tcp'.len = tcp.len

\* The bytes of a segment until it is acknowledged: uip_rexmit is served from outbuf, which no
\* send replaces meanwhile; the segment keeps its length and its bytes, except that those beyond a
\* smaller uip_mss() may be missing while the window of the peer has changed.
THEOREM SegmentsStay == Spec => SentAgain
<1>1. UipInv /\ [Next]_vars => [SameSegment]_vars
  <2> SUFFICES ASSUME UipInv, [Next]_vars,
                      Established, Established', tcp.len # <<>>, tcp'.una = tcp.una
               PROVE  Again(tcp.len, tcp'.len, tcp.mss, "resized" \in trouble)
    BY DEF SameSegment, Again
  <2>1. tcp \in Tcps /\ tcp.una \in Nat /\ tcp.rcv_nxt \in 0 .. MaxIn /\ tcp.len \in Seq(0 .. MaxOut)
    BY LiveParts
  <2>2. tcp'.len = tcp.len => Again(tcp.len, tcp'.len, tcp.mss, "resized" \in trouble)
    BY DEF Again
  <2>3. CASE net_if_socket \/ Connected \/ Poll
    BY <2>3 DEF net_if_socket, Connected, Poll, Established
  <2>4. CASE net_if_connect
    BY <2>2, <2>4 DEF net_if_connect, Established
  <2>5. CASE net_if_close
    <3>1. tcp' = [tcp EXCEPT !.flags = IF uip_conn_active THEN @ ELSE "CLOSED"]
      BY <2>5 DEF net_if_close
    <3> QED  BY <2>1, <2>2, <3>1 DEF Tcps
  <2>6. CASE Sends \/ Receive \/ PeerReceives \/ UNCHANGED vars
    <3>1. tcp' = tcp
      BY <2>6, Zenon DEF Sends, Receive, net_if_send, net_if_receive, PeerReceives, vars
    <3> QED  BY <2>2, <3>1
  <2>7. CASE Resizes
    <3>1. \E mss : tcp' = [tcp EXCEPT !.mss = mss]
      BY <2>7, Zenon DEF Resizes, Announces
    <3> QED  BY <2>1, <2>2, <3>1 DEF Tcps
  <2>8. CASE Rexmit
    <3> DEFINE ev == [Quiet EXCEPT !.sends = TRUE]
    <3>1. uip_appcall(tcp, ev)
      BY <2>8, Zenon DEF Rexmit
    <3>2. ev.error = "SUCCESS" /\ ~ ev.acked
      BY DEF Quiet
    <3> HIDE DEF ev
    <3> QED  BY <2>1, <3>1, <3>2, AppcallSendsAgain
  <2>9. CASE Acknowledged
    <3>1. PICK n \in {0} \cup Segments : Acked(Segment(n))
      BY <2>9 DEF Acknowledged
    <3>2. tcp.rcv_nxt + n \in 0 .. MaxIn /\ tcp.rcv_nxt \in Nat /\ n \in Nat
      BY <2>1, <3>1, SegmentRange, Sizes
    <3> DEFINE m == Len(tcp.len)
               nxt == IF tcp.stopped THEN tcp.rcv_nxt ELSE tcp.rcv_nxt + Len(Segment(n))
               t == [tcp EXCEPT !.una = @ + m, !.len = <<>>, !.rcv_nxt = nxt]
    <3>3. Len(peer) >= tcp.una + m /\ \E ev : uip_appcall(t, ev)
      BY <3>1, Zenon DEF Acked
    <3>4. m \in Nat \ {0}
      BY <2>1, EmptySeq
    <3>5. tcp.una + m \in Nat
      BY <2>1, <3>4
    <3>6. nxt \in 0 .. MaxIn
      BY <2>1, <3>2, FromProperties DEF Segment
    <3>7. t \in Tcps /\ t.una = tcp.una + m
      <4>1. <<>> \in Seq(0 .. MaxOut)
        BY EmptySeq
      <4> HIDE DEF m, nxt
      <4> QED  BY <2>1, <3>5, <3>6, <4>1 DEF Tcps
    <3> HIDE DEF t, m
    <3>8. tcp'.una = tcp.una + m
      BY <3>3, <3>7, AppcallStack
    <3> QED  BY <2>1, <3>4, <3>8
  <2>10. CASE Arrives
    <3>1. PICK n \in Segments : NewData(n)
      BY <2>10 DEF Arrives
    <3> DEFINE t == [tcp EXCEPT !.rcv_nxt = @ + n]
               ev == [Quiet EXCEPT !.newdata = TRUE, !.data = Segment(n)]
    <3>2. uip_appcall(t, ev)
      BY <3>1, Zenon DEF NewData
    <3>3. ev.error = "SUCCESS" /\ ~ ev.acked
      BY DEF Quiet
    <3> HIDE DEF ev
    <3>4. tcp.rcv_nxt + n \in 0 .. MaxIn
      BY <2>1, <3>1, SegmentRange
    <3>5. /\ t \in Tcps /\ t.stopped = tcp.stopped /\ t.una = tcp.una /\ t.len = tcp.len
          /\ t.mss = tcp.mss
      BY <2>1, <3>4 DEF Tcps
    <3> HIDE DEF t
    <3> QED  BY <3>2, <3>3, <3>5, AppcallSendsAgain
  <2>11. CASE Closes
    <3>1. PICK n \in {0} \cup Segments : PeerCloses(n)
      BY <2>11 DEF Closes
    <3> DEFINE t == [tcp EXCEPT !.rcv_nxt = @ + n, !.flags = "LAST_ACK"]
    <3>2. \E ev : uip_appcall(t, ev)
      BY <3>1, Zenon DEF PeerCloses
    <3>3. tcp.rcv_nxt + n \in 0 .. MaxIn
      BY <2>1, <3>1, SegmentRange
    <3>4. t \in Tcps /\ t.flags = "LAST_ACK"
      BY <2>1, <3>3 DEF Tcps, Flags
    <3> HIDE DEF t
    <3> QED  BY <3>2, <3>4, AppcallStack
  <2>12. CASE Dies
    <3> DEFINE t == [tcp EXCEPT !.flags = "CLOSED", !.len = <<>>]
    <3>1. \E ev : uip_appcall(t, ev)
      BY <2>12, Zenon DEF Dies, Ends
    <3>2. t \in Tcps /\ t.flags = "CLOSED"
      <4>1. "CLOSED" \in Flags /\ <<>> \in Seq(0 .. MaxOut)
        BY EmptySeq DEF Flags
      <4> QED  BY <2>1, <4>1 DEF Tcps
    <3> HIDE DEF t
    <3> QED  BY <3>1, <3>2, AppcallStack
  <2> QED  BY <2>3, <2>4, <2>5, <2>6, <2>7, <2>8, <2>9, <2>10, <2>11, <2>12, Zenon DEF Next
<1>2. Spec => [][SameSegment]_vars
  BY UipAlways, <1>1, PTL DEF Spec
<1> QED  BY <1>2 DEF SameSegment, SentAgain

=============================================================================
