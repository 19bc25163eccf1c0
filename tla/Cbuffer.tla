------------------------------ MODULE Cbuffer ------------------------------
(***************************************************************************)
(* The ring of bytes of src/lib/cbuffer.c, as ts_cbuffer.c and             *)
(* tcp_buffer.c offer it (each call inside a critical section).            *)
(*                                                                         *)
(* A ring whose pointers are equal is empty, so one that is filled to its  *)
(* size reads as empty: Contents is what pops can return, and a push adds  *)
(* to it only while it is shorter than cbuffer_get_free.                   *)
(***************************************************************************)
EXTENDS Integers, Sequences

CONSTANTS
    Byte,       \* the bytes of the streams
    RingSize    \* the size given to cbuffer_new

ASSUME RingAssumption == RingSize \in Nat \ {0} /\ Byte # {}

Index == 0 .. RingSize - 1

Cbuffer == [buffer : [Index -> Byte], read_pointer : Index, write_pointer : Index]

\* Faulty: the pointer stays at the end.
Wrapped_OffByOne(i) == IF i > RingSize THEN i - RingSize ELSE i

\* A pointer that reaches the end of the buffer goes back to its start.
Wrapped(i) == IF i >= RingSize THEN i - RingSize ELSE i

\* sf_malloc leaves the bytes of the buffer undefined: any of them will do.
cbuffer_new ==
    [buffer |-> [i \in Index |-> CHOOSE b \in Byte : TRUE], read_pointer |-> 0, write_pointer |-> 0]

cbuffer_get_used(cb) ==
    IF cb.write_pointer >= cb.read_pointer
    THEN cb.write_pointer - cb.read_pointer
    ELSE RingSize - (cb.read_pointer - cb.write_pointer)

cbuffer_get_free(cb) == RingSize - cbuffer_get_used(cb)

\* tcp_buffer_push: cbuffer_push of at most RingSize bytes, one after the other.
tcp_buffer_push(cb, bytes) ==
    LET Nth(i) == IF i >= cb.write_pointer
                  THEN i - cb.write_pointer + 1
                  ELSE i + RingSize - cb.write_pointer + 1
    IN [cb EXCEPT !.buffer = [i \in Index |-> IF Nth(i) <= Len(bytes) THEN bytes[Nth(i)] ELSE @[i]],
                  !.write_pointer = Wrapped(@ + Len(bytes))]

\* The bytes that are in the ring, in the order a pop returns them.
Contents(cb) ==
    [k \in 1 .. cbuffer_get_used(cb) |-> cb.buffer[Wrapped(cb.read_pointer + k - 1)]]

\* The ring after a pop of n of its bytes (cbuffer_pop returns the first n of Contents).
cbuffer_pop(cb, n) == [cb EXCEPT !.read_pointer = Wrapped(@ + n)]

=============================================================================
