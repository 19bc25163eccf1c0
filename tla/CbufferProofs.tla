--------------------------- MODULE CbufferProofs ---------------------------
(***************************************************************************)
(* What the ring of Cbuffer keeps, for every size and every byte: pushes   *)
(* append and pops take from the front, as long as a push leaves one byte  *)
(* free; one that does not empties the ring.                               *)
(***************************************************************************)
EXTENDS Cbuffer, TLAPS

\* The number of the bytes in the ring lies between 0 and RingSize - 1.
LEMMA UsedRange ==
    ASSUME NEW cb \in Cbuffer
    PROVE  /\ cbuffer_get_used(cb) \in 0 .. RingSize - 1
           /\ cbuffer_get_free(cb) \in 1 .. RingSize
           /\ cb.read_pointer \in 0 .. RingSize - 1 /\ cb.write_pointer \in 0 .. RingSize - 1
           /\ cb.buffer \in [Index -> Byte]
  <1>1. /\ cb.read_pointer \in 0 .. RingSize - 1 /\ cb.write_pointer \in 0 .. RingSize - 1
        /\ cb.buffer \in [Index -> Byte]
    BY DEF Cbuffer, Index
  <1>2. cbuffer_get_used(cb) \in 0 .. RingSize - 1
    BY <1>1, RingAssumption DEF cbuffer_get_used
  <1>3. cbuffer_get_free(cb) \in 1 .. RingSize
    BY <1>2, RingAssumption DEF cbuffer_get_free
  <1> QED BY <1>1, <1>2, <1>3

\* A pointer that moves by at most RingSize stays in the ring.
LEMMA WrappedRange ==
    ASSUME NEW i \in 0 .. 2 * RingSize - 1
    PROVE  Wrapped(i) \in 0 .. RingSize - 1
  BY RingAssumption DEF Wrapped

\* Contents is a sequence of bytes as long as the used part of the ring.
LEMMA ContentsType ==
    ASSUME NEW cb \in Cbuffer
    PROVE  /\ Contents(cb) \in Seq(Byte)
           /\ Len(Contents(cb)) = cbuffer_get_used(cb)
           /\ \A k \in 1 .. cbuffer_get_used(cb) :
                 Contents(cb)[k] = cb.buffer[Wrapped(cb.read_pointer + k - 1)]
  <1> DEFINE used == cbuffer_get_used(cb)
             byte(k) == cb.buffer[Wrapped(cb.read_pointer + k - 1)]
  <1>1. used \in 0 .. RingSize - 1 /\ used \in Nat
    BY UsedRange, RingAssumption
  <1>2. ASSUME NEW k \in 1 .. used PROVE byte(k) \in Byte
    <2>1. cb.read_pointer + k - 1 \in 0 .. 2 * RingSize - 1
      BY <1>1, UsedRange, RingAssumption
    <2>2. Wrapped(cb.read_pointer + k - 1) \in Index
      BY <2>1, WrappedRange DEF Index
    <2> QED BY <2>2, UsedRange
  <1>3. Contents(cb) = [k \in 1 .. used |-> byte(k)]
    BY DEF Contents
  <1> HIDE DEF used, byte
  <1>4. [k \in 1 .. used |-> byte(k)] \in Seq(Byte)
    BY <1>1, <1>2
  <1>5. Len([k \in 1 .. used |-> byte(k)]) = used
    BY <1>1
  <1> QED BY <1>3, <1>4, <1>5 DEF used, byte

\* A pop of n bytes leaves the ring well formed, with n bytes fewer.
LEMMA PopUsed ==
    ASSUME NEW cb \in Cbuffer, NEW n \in 0 .. cbuffer_get_used(cb)
    PROVE  /\ cbuffer_pop(cb, n) \in Cbuffer
           /\ cbuffer_get_used(cbuffer_pop(cb, n)) = cbuffer_get_used(cb) - n
           /\ cbuffer_pop(cb, n).buffer = cb.buffer
           /\ cbuffer_pop(cb, n).read_pointer = Wrapped(cb.read_pointer + n)
  <1> DEFINE after == cbuffer_pop(cb, n)
  <1>1. /\ after.buffer = cb.buffer /\ after.write_pointer = cb.write_pointer
        /\ after.read_pointer = Wrapped(cb.read_pointer + n)
        /\ after \in [buffer : {cb.buffer}, read_pointer : {Wrapped(cb.read_pointer + n)},
                      write_pointer : {cb.write_pointer}]
    BY DEF cbuffer_pop, Cbuffer
  <1>2. cb.read_pointer + n \in 0 .. 2 * RingSize - 1
    BY UsedRange, RingAssumption
  <1>3. Wrapped(cb.read_pointer + n) \in Index
    BY <1>2, WrappedRange DEF Index
  <1>4. after \in Cbuffer
    BY <1>1, <1>3, UsedRange DEF Cbuffer, Index
  <1>5. cbuffer_get_used(after) = cbuffer_get_used(cb) - n
    <2> HIDE DEF after
    <2> QED BY <1>1, UsedRange, RingAssumption DEF cbuffer_get_used, Wrapped
  <1> QED BY <1>1, <1>4, <1>5

\* cbuffer_pop returns the first n bytes of the ring: what stays is the rest, in the same order.
THEOREM PopDrops ==
    ASSUME NEW cb \in Cbuffer, NEW n \in 0 .. cbuffer_get_used(cb)
    PROVE  Contents(cbuffer_pop(cb, n)) = SubSeq(Contents(cb), n + 1, cbuffer_get_used(cb))
  <1> DEFINE after == cbuffer_pop(cb, n)
             used == cbuffer_get_used(cb)
             rest == SubSeq(Contents(cb), n + 1, used)
  <1>1. /\ after \in Cbuffer /\ cbuffer_get_used(after) = used - n
        /\ after.buffer = cb.buffer /\ after.read_pointer = Wrapped(cb.read_pointer + n)
    BY PopUsed
  <1>2. used \in Nat /\ n \in Nat /\ n <= used /\ used < RingSize
    BY UsedRange, RingAssumption
  <1>3. Contents(cb) \in Seq(Byte) /\ Len(Contents(cb)) = used
    BY ContentsType
  <1>4. /\ rest \in Seq(Byte) /\ Len(rest) = used - n
        /\ \A k \in 1 .. used - n : rest[k] = Contents(cb)[k + n]
    BY <1>2, <1>3
  <1>5. Contents(after) \in Seq(Byte) /\ Len(Contents(after)) = used - n
    BY <1>1, ContentsType
  <1>6. ASSUME NEW k \in 1 .. used - n PROVE Contents(after)[k] = rest[k]
    <2>1. Contents(after)[k] = after.buffer[Wrapped(after.read_pointer + k - 1)]
      BY <1>1, ContentsType
    <2>2. Contents(cb)[k + n] = cb.buffer[Wrapped(cb.read_pointer + (k + n) - 1)]
      <3>1. k + n \in 1 .. used
        BY <1>2
      <3> QED BY <3>1, ContentsType
    <2>3. Wrapped(Wrapped(cb.read_pointer + n) + k - 1) = Wrapped(cb.read_pointer + (k + n) - 1)
      BY <1>2, UsedRange, RingAssumption DEF Wrapped
    <2> QED BY <1>1, <1>4, <2>1, <2>2, <2>3
  <1> HIDE DEF after, rest, used
  <1>7. Contents(after) = rest
    BY <1>2, <1>4, <1>5, <1>6
  <1> QED BY <1>7 DEF after, rest, used

\* tcp_buffer_push moves the write pointer, and overwrites the places from the old one on.
LEMMA PushFields ==
    ASSUME NEW cb \in Cbuffer, NEW bytes \in Seq(Byte), Len(bytes) <= RingSize
    PROVE  /\ tcp_buffer_push(cb, bytes) \in Cbuffer
           /\ tcp_buffer_push(cb, bytes).read_pointer = cb.read_pointer
           /\ tcp_buffer_push(cb, bytes).write_pointer = Wrapped(cb.write_pointer + Len(bytes))
           /\ \A k \in 1 .. Len(bytes) :
                 tcp_buffer_push(cb, bytes).buffer[Wrapped(cb.write_pointer + k - 1)] = bytes[k]
           /\ \A i \in Index :
                 (\A k \in 1 .. Len(bytes) : i # Wrapped(cb.write_pointer + k - 1))
                     => tcp_buffer_push(cb, bytes).buffer[i] = cb.buffer[i]
  <1> DEFINE w == cb.write_pointer
             Nth(i) == IF i >= w THEN i - w + 1 ELSE i + RingSize - w + 1
             buffer == [i \in Index |-> IF Nth(i) <= Len(bytes) THEN bytes[Nth(i)] ELSE cb.buffer[i]]
             after == tcp_buffer_push(cb, bytes)
  <1>1. /\ after.buffer = buffer /\ after.read_pointer = cb.read_pointer
        /\ after.write_pointer = Wrapped(w + Len(bytes))
        /\ after \in [buffer : {buffer}, read_pointer : {cb.read_pointer},
                      write_pointer : {Wrapped(w + Len(bytes))}]
    BY DEF tcp_buffer_push, Cbuffer
  <1>2. w \in 0 .. RingSize - 1 /\ Len(bytes) \in 0 .. RingSize /\ RingSize \in Nat \ {0}
    BY UsedRange, RingAssumption
  <1>3. \A i \in Index : Nth(i) \in 1 .. RingSize
    BY <1>2 DEF Index
  <1>4. buffer \in [Index -> Byte]
    <2>1. ASSUME NEW i \in Index
          PROVE  (IF Nth(i) <= Len(bytes) THEN bytes[Nth(i)] ELSE cb.buffer[i]) \in Byte
      <3>1. cb.buffer[i] \in Byte
        BY UsedRange
      <3>2. Nth(i) <= Len(bytes) => bytes[Nth(i)] \in Byte
        <4> HIDE DEF Nth
        <4> QED BY <1>2, <1>3
      <3> QED BY <3>1, <3>2
    <2> QED BY <2>1
  <1>5. Wrapped(w + Len(bytes)) \in Index
    BY <1>2 DEF Wrapped, Index
  <1>6. after \in Cbuffer
    <2>1. cb.read_pointer \in Index
      BY UsedRange DEF Index
    <2> HIDE DEF after, buffer
    <2> QED BY <1>1, <1>4, <1>5, <2>1 DEF Cbuffer
  <1>7. ASSUME NEW k \in 1 .. Len(bytes)
        PROVE  after.buffer[Wrapped(w + k - 1)] = bytes[k]
    <2>1. Wrapped(w + k - 1) \in Index /\ Nth(Wrapped(w + k - 1)) = k
      BY <1>2 DEF Wrapped, Index
    <2> QED BY <1>1, <2>1
  <1>8. ASSUME NEW i \in Index, \A k \in 1 .. Len(bytes) : i # Wrapped(w + k - 1)
        PROVE  after.buffer[i] = cb.buffer[i]
    <2>1. Wrapped(w + Nth(i) - 1) = i
      BY <1>2 DEF Wrapped, Index
    <2>2. ~(Nth(i) <= Len(bytes))
      <3> HIDE DEF Nth
      <3> QED BY <1>2, <1>3, <1>8, <2>1
    <2> QED BY <1>1, <2>2
  <1> QED BY <1>1, <1>6, <1>7, <1>8

\* tcp_buffer_push of fewer bytes than cbuffer_get_free appends them: what was in the ring stays
\* before them, and nothing is overwritten that was not popped.
THEOREM PushAppends ==
    ASSUME NEW cb \in Cbuffer, NEW bytes \in Seq(Byte), Len(bytes) < cbuffer_get_free(cb)
    PROVE  Contents(tcp_buffer_push(cb, bytes)) = Contents(cb) \o bytes
  <1> DEFINE after == tcp_buffer_push(cb, bytes)
             used == cbuffer_get_used(cb)
             n == Len(bytes)
             r == cb.read_pointer
             w == cb.write_pointer
  <1>1. /\ used \in 0 .. RingSize - 1 /\ n \in Nat /\ used + n < RingSize
        /\ r \in 0 .. RingSize - 1 /\ w \in 0 .. RingSize - 1 /\ RingSize \in Nat \ {0}
        /\ w = Wrapped(r + used)
    BY UsedRange, RingAssumption DEF cbuffer_get_free, cbuffer_get_used, Wrapped
  <1>2. /\ after \in Cbuffer /\ after.read_pointer = r /\ after.write_pointer = Wrapped(w + n)
        /\ \A k \in 1 .. n : after.buffer[Wrapped(w + k - 1)] = bytes[k]
        /\ \A i \in Index : (\A k \in 1 .. n : i # Wrapped(w + k - 1)) => after.buffer[i] = cb.buffer[i]
    <2>1. n <= RingSize
      BY <1>1
    <2> QED BY <2>1, PushFields
  <1>3. cbuffer_get_used(after) = used + n
    <2> HIDE DEF after
    <2>1. cbuffer_get_used(after) = IF Wrapped(w + n) >= r THEN Wrapped(w + n) - r
                                                       ELSE RingSize - (r - Wrapped(w + n))
      BY <1>2 DEF cbuffer_get_used
    <2> HIDE DEF used, n, r, w
    <2> QED BY <1>1, <2>1 DEF Wrapped
  <1>4. /\ Contents(after) \in Seq(Byte) /\ Len(Contents(after)) = used + n
        /\ \A k \in 1 .. used + n : Contents(after)[k] = after.buffer[Wrapped(r + k - 1)]
    BY <1>2, <1>3, ContentsType
  <1>5. /\ Contents(cb) \in Seq(Byte) /\ Len(Contents(cb)) = used
        /\ \A k \in 1 .. used : Contents(cb)[k] = cb.buffer[Wrapped(r + k - 1)]
    BY ContentsType
  <1>6. ASSUME NEW k \in 1 .. used PROVE Contents(after)[k] = Contents(cb)[k]
    <2>1. Wrapped(r + k - 1) \in Index
      <3> HIDE DEF used, n, r, w
      <3> QED BY <1>1 DEF Wrapped, Index
    <2>2. \A j \in 1 .. n : Wrapped(r + k - 1) # Wrapped(w + j - 1)
      <3> HIDE DEF used, n, r, w
      <3> QED BY <1>1 DEF Wrapped
    <2>3. k \in 1 .. used + n
      BY <1>1
    <2> QED BY <1>2, <1>4, <1>5, <2>1, <2>2, <2>3
  <1>7. ASSUME NEW k \in 1 .. n PROVE Contents(after)[used + k] = bytes[k]
    <2>1. Wrapped(r + (used + k) - 1) = Wrapped(w + k - 1)
      <3> HIDE DEF used, n, r, w
      <3> QED BY <1>1 DEF Wrapped
    <2>2. used + k \in 1 .. used + n
      BY <1>1
    <2> QED BY <1>2, <1>4, <2>1, <2>2
  <1>8. \A k \in 1 .. used + n :
            Contents(after)[k] = IF k <= used THEN Contents(cb)[k] ELSE bytes[k - used]
    <2> TAKE k \in 1 .. used + n
    <2>1. CASE k <= used
      BY <1>1, <1>6, <2>1
    <2>2. CASE k > used
      <3>1. k - used \in 1 .. n /\ used + (k - used) = k
        BY <1>1, <2>2
      <3> QED BY <1>1, <1>7, <2>2, <3>1
    <2> QED BY <1>1, <2>1, <2>2
  <1> HIDE DEF after, used, n, r, w
  <1>9. Contents(after) = Contents(cb) \o bytes
    <2> DEFINE before == Contents(cb)
    <2>1. before \in Seq(Byte) /\ bytes \in Seq(Byte) /\ Len(before) = used /\ Len(bytes) = n
      BY <1>5 DEF n
    <2> HIDE DEF before
    <2>2. /\ before \o bytes \in Seq(Byte) /\ Len(before \o bytes) = used + n
          /\ \A k \in 1 .. used + n :
                (before \o bytes)[k] = IF k <= used THEN before[k] ELSE bytes[k - used]
      BY <1>1, <2>1
    <2>3. \A k \in 1 .. used + n : Contents(after)[k] = (before \o bytes)[k]
      BY <1>8, <2>2 DEF before
    <2>4. used + n \in Nat
      BY <1>1
    <2>5. Contents(after) = before \o bytes
      BY <1>4, <2>2, <2>3, <2>4
    <2> QED BY <2>5 DEF before
  <1> QED BY <1>9 DEF after

\* A push of exactly cbuffer_get_free bytes loses everything: the pointers meet, and the ring reads
\* as empty.  (uip_appcall stops the peer before that can happen.)
THEOREM FullReadsEmpty ==
    ASSUME NEW cb \in Cbuffer, NEW bytes \in Seq(Byte), Len(bytes) = cbuffer_get_free(cb)
    PROVE  Contents(tcp_buffer_push(cb, bytes)) = << >>
  <1> DEFINE after == tcp_buffer_push(cb, bytes)
  <1>1. Len(bytes) \in 1 .. RingSize
    BY UsedRange
  <1>2. /\ after \in Cbuffer /\ after.read_pointer = cb.read_pointer
        /\ after.write_pointer = Wrapped(cb.write_pointer + Len(bytes))
    BY <1>1, RingAssumption, PushFields
  <1>3. Wrapped(cb.write_pointer + Len(bytes)) = cb.read_pointer
    BY <1>1, UsedRange, RingAssumption DEF cbuffer_get_free, cbuffer_get_used, Wrapped
  <1> HIDE DEF after
  <1>4. cbuffer_get_used(after) = 0
    <2>1. after.read_pointer \in Int
      BY <1>2, UsedRange, RingAssumption
    <2> QED BY <1>2, <1>3, <2>1 DEF cbuffer_get_used
  <1>5. Contents(after) \in Seq(Byte) /\ Len(Contents(after)) = 0
    BY <1>2, <1>4, ContentsType
  <1> QED BY <1>5 DEF after

=============================================================================
