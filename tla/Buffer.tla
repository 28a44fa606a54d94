------------------------------- MODULE Buffer -------------------------------
(***************************************************************************)
(* The ring buffer of src/buffer.c.  A buffer_t is a record of its b_size, *)
(* its two indices and its data; the operators are the functions of the    *)
(* file, with the same branches on lo and hi.  The state machine runs two  *)
(* buffers, src and dst, the way hdmi2usb_process and the device handlers  *)
(* do: bytes are put into one, copied or moved into the other and taken    *)
(* out at the front.                                                       *)
(***************************************************************************)
EXTENDS ByteQueue

CONSTANTS Byte,     \* the bytes
          Sizes,    \* the b_size a buffer may be created with
          Inputs,   \* the byte strings a caller may put
          Lengths   \* the lengths a caller may ask for

ASSUME BufferAssumption == /\ Sizes \subseteq Nat
                           /\ Inputs \subseteq Seq(Byte)
                           /\ Lengths \subseteq Nat

VARIABLES src, dst, reply

vars == <<src, dst, reply>>

------------------------------------------------------------------------------
(* The functions of buffer.c.                                              *)

Used(b) == IF b.hi >= b.lo THEN b.hi - b.lo ELSE b.size - b.lo + b.hi

Available(b) == IF b.size = 0 THEN 0 ELSE b.size - Used(b) - 1

(* Mutated form: wraps one position late.                                  *)
IncLate(b, val, by) == IF val + by > b.size THEN 0 ELSE val + by
Inc(b, val, by) == IF val + by >= b.size THEN 0 ELSE val + by

(* buffer_put: into the room above hi first, then from the bottom.         *)
PutBytes(b, s) ==
  LET n    == Lesser(Len(s), Available(b))
      top  == Lesser(IF b.lo > b.hi THEN b.lo - b.hi ELSE b.size - b.hi, n)
      rest == n - top
      mid  == IF top > 0 THEN Inc(b, b.hi, top) ELSE b.hi
  IN [b EXCEPT !.hi   = IF rest > 0 THEN Inc(b, mid, rest) ELSE mid,
               !.data = [i \in DOMAIN b.data |->
                           IF i < rest THEN s[top + i + 1]
                           ELSE IF b.hi <= i /\ i < b.hi + top THEN s[i - b.hi + 1]
                           ELSE b.data[i]]]

(* The part of the first n bytes that lies above lo in a wrapped ring, and *)
(* where the bytes after it are.                                           *)
TopOf(b, n) == IF b.lo > b.hi THEN Lesser(b.size - b.lo, n) ELSE 0
MidOf(b, n) == IF b.lo > b.hi THEN Inc(b, b.lo, TopOf(b, n)) ELSE b.lo

(* buffer_peek: what it stores at the caller's address.                    *)
PeekBytes(b, len) ==
  LET n == Lesser(len, Used(b))
  IN [i \in 1 .. n |-> IF i <= TopOf(b, n) THEN b.data[b.lo + i - 1]
                       ELSE b.data[MidOf(b, n) + i - TopOf(b, n) - 1]]

(* buffer_get and buffer_copymove: lo after the first n bytes are taken.   *)
Advanced(b, n) ==
  [b EXCEPT !.lo = IF n > TopOf(b, n) THEN Inc(b, MidOf(b, n), n - TopOf(b, n))
                   ELSE MidOf(b, n)]

(* buffer_copymove: how much, and the destination after at most two puts.  *)
MoveCount(d, b, len) == Lesser(Lesser(len, Available(d)), Used(b))

(* Mutated form: the bytes below the wrap are not transferred.             *)
TransferredTopOnly(d, b, n) ==
  IF TopOf(b, n) > 0 THEN PutBytes(d, PeekBytes(b, TopOf(b, n))) ELSE PutBytes(d, PeekBytes(b, n))
Transferred(d, b, n) ==
  LET top == TopOf(b, n)
      upper == [i \in 1 .. top |-> b.data[b.lo + i - 1]]
      lower == [i \in 1 .. n - top |-> b.data[MidOf(b, n) + i - 1]]
      d1    == IF top > 0 THEN PutBytes(d, upper) ELSE d
  IN IF n > top THEN PutBytes(d1, lower) ELSE d1

Flushed(b) == [size |-> b.size, lo |-> 0, hi |-> 0, data |-> b.data]

------------------------------------------------------------------------------
(* Two buffers in use.                                                     *)

(* buffer_init: malloc leaves the data as it finds it.                     *)
Fresh(size) == [size : {size}, lo : {0}, hi : {0}, data : [0 .. size - 1 -> Byte]]

Init == /\ \E m, n \in Sizes : src \in Fresh(m) /\ dst \in Fresh(n)
        /\ reply = [n |-> 0, bytes |-> <<>>]

Put(s) == /\ src' = PutBytes(src, s)
          /\ reply' = [n |-> Lesser(Len(s), Available(src)), bytes |-> <<>>]
          /\ UNCHANGED dst

Peek(len) == /\ reply' = [n |-> Lesser(len, Used(src)), bytes |-> PeekBytes(src, len)]
             /\ UNCHANGED <<src, dst>>

Get(len) == /\ src' = Advanced(src, Lesser(len, Used(src)))
            /\ reply' = [n |-> Lesser(len, Used(src)), bytes |-> PeekBytes(src, len)]
            /\ UNCHANGED dst

(* buffer_get with a NULL address, as the write handlers call it.          *)
Discard(len) == /\ src' = Advanced(src, Lesser(len, Used(src)))
                /\ reply' = [n |-> Lesser(len, Used(src)), bytes |-> <<>>]
                /\ UNCHANGED dst

Copy(len) == LET n == MoveCount(dst, src, len)
             IN /\ dst' = Transferred(dst, src, n)
                /\ reply' = [n |-> n, bytes |-> <<>>]
                /\ UNCHANGED src

Move(len) == LET n == MoveCount(dst, src, len)
             IN /\ dst' = Transferred(dst, src, n)
                /\ src' = Advanced(src, n)
                /\ reply' = [n |-> n, bytes |-> <<>>]

Flush == /\ src' = Flushed(src)
         /\ reply' = [n |-> 0, bytes |-> <<>>]
         /\ UNCHANGED dst

Drain(len) == /\ dst' = Advanced(dst, Lesser(len, Used(dst)))
              /\ reply' = [n |-> Lesser(len, Used(dst)), bytes |-> PeekBytes(dst, len)]
              /\ UNCHANGED src

Next == \/ \E s \in Inputs : Put(s)
        \/ \E len \in Lengths : \/ Peek(len) \/ Get(len) \/ Discard(len)
                                \/ Copy(len) \/ Move(len) \/ Drain(len)
        \/ Flush

Spec == Init /\ [][Next]_vars

------------------------------------------------------------------------------
(* Correctness.                                                            *)

(* The indices of a ring stay below b_size, so that every access to data   *)
(* is inside the allocation (a ring of size 0 has no data and never moves).*)
RingOK(b) == /\ b = [size |-> b.size, lo |-> b.lo, hi |-> b.hi, data |-> b.data]
             /\ b.size \in Nat
             /\ b.lo \in Nat
             /\ b.hi \in Nat
             /\ b.data \in [0 .. b.size - 1 -> Byte]
             /\ IF b.size = 0 THEN b.lo = 0 /\ b.hi = 0
                ELSE b.lo < b.size /\ b.hi < b.size

(* Type invariant: both rings are well formed, whatever was put in or      *)
(* taken out of them.                                                      *)
TypeOK == /\ RingOK(src)
          /\ RingOK(dst)
          /\ reply.n \in Nat
          /\ reply.bytes \in Seq(Byte)

(* The bytes a ring holds, oldest first.                                   *)
Slot(b, i)  == IF b.lo + i - 1 < b.size THEN b.lo + i - 1 ELSE b.lo + i - 1 - b.size
Contents(b) == [i \in 1 .. Used(b) |-> b.data[Slot(b, i)]]

(* The ring buffers implement bounded queues of b_size - 1 bytes: each     *)
(* call of buffer.c changes the contents, and answers its caller, as the   *)
(* queue operation of the same name, whatever the position of the wrap.    *)
Abstract(b) == [cap |-> Capacity(b.size), bytes |-> Contents(b)]

F == INSTANCE Fifo WITH src <- Abstract(src), dst <- Abstract(dst)

ImplementsFifo == F!Spec
==============================================================================
