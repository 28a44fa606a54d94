-------------------------------- MODULE Fifo --------------------------------
(***************************************************************************)
(* What include/buffer.h promises: two bounded byte queues, src and dst,   *)
(* as the callers of buffer_put, buffer_get, buffer_peek, buffer_copy and  *)
(* buffer_move see them.  Nothing here knows of a ring, an index or a      *)
(* wrap; Buffer is shown to implement it.                                  *)
(***************************************************************************)
EXTENDS ByteQueue

CONSTANTS Byte,     \* the bytes
          Sizes,    \* the b_size a buffer may be created with
          Inputs,   \* the byte strings a caller may put
          Lengths   \* the lengths a caller may ask for

VARIABLES src, dst, \* [cap, bytes]: a queue and what it can hold
          reply     \* [n, bytes]: the last call's result and the bytes it
                    \* stored at the caller's address

vars == <<src, dst, reply>>

Queues == [cap : Nat, bytes : Seq(Byte)]

Init == /\ \E m, n \in Sizes : /\ src = [cap |-> Capacity(m), bytes |-> <<>>]
                               /\ dst = [cap |-> Capacity(n), bytes |-> <<>>]
        /\ reply = [n |-> 0, bytes |-> <<>>]

Put(s) == /\ src' = [src EXCEPT !.bytes = Added(@, src.cap, s)]
          /\ reply' = [n |-> Fitting(src.bytes, src.cap, s), bytes |-> <<>>]
          /\ UNCHANGED dst

Peek(len) == /\ reply' = [n |-> Lesser(len, Len(src.bytes)),
                          bytes |-> First(src.bytes, len)]
             /\ UNCHANGED <<src, dst>>

Get(len) == /\ src' = [src EXCEPT !.bytes = Rest(@, len)]
            /\ reply' = [n |-> Lesser(len, Len(src.bytes)),
                         bytes |-> First(src.bytes, len)]
            /\ UNCHANGED dst

Discard(len) == /\ src' = [src EXCEPT !.bytes = Rest(@, len)]
                /\ reply' = [n |-> Lesser(len, Len(src.bytes)), bytes |-> <<>>]
                /\ UNCHANGED dst

Copy(len) == /\ dst' = [dst EXCEPT !.bytes = Added(@, dst.cap, First(src.bytes, len))]
             /\ reply' = [n |-> Fitting(dst.bytes, dst.cap, First(src.bytes, len)),
                          bytes |-> <<>>]
             /\ UNCHANGED src

Move(len) == LET n == Fitting(dst.bytes, dst.cap, First(src.bytes, len))
             IN /\ dst' = [dst EXCEPT !.bytes = @ \o First(src.bytes, n)]
                /\ src' = [src EXCEPT !.bytes = Rest(@, n)]
                /\ reply' = [n |-> n, bytes |-> <<>>]

Flush == /\ src' = [src EXCEPT !.bytes = <<>>]
         /\ reply' = [n |-> 0, bytes |-> <<>>]
         /\ UNCHANGED dst

(* The consumer of dst takes bytes from its front, as a device's write     *)
(* handler does from a transmit buffer.                                    *)
Drain(len) == /\ dst' = [dst EXCEPT !.bytes = Rest(@, len)]
              /\ reply' = [n |-> Lesser(len, Len(dst.bytes)),
                           bytes |-> First(dst.bytes, len)]
              /\ UNCHANGED src

Next == \/ \E s \in Inputs : Put(s)
        \/ \E len \in Lengths : \/ Peek(len) \/ Get(len) \/ Discard(len)
                                \/ Copy(len) \/ Move(len) \/ Drain(len)
        \/ Flush

Spec == Init /\ [][Next]_vars
==============================================================================
