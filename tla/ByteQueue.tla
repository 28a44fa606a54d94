------------------------------ MODULE ByteQueue ------------------------------
(***************************************************************************)
(* Bounded byte queues as sequences: the vocabulary in which Fifo says     *)
(* what buffer.h promises, and in which Gateway uses the buffers of the    *)
(* devices.  A queue of capacity c holds at most c bytes; what does not    *)
(* fit is left out, never written over what is there.                      *)
(***************************************************************************)
EXTENDS Naturals, Sequences

Lesser(m, n) == IF m <= n THEN m ELSE n

(* The bytes a ring of b_size bytes can hold: one slot always stays empty. *)
Capacity(size) == IF size = 0 THEN 0 ELSE size - 1

(* How many of the bytes s a queue q of capacity cap takes, and the queue  *)
(* after it took them.                                                     *)
Fitting(q, cap, s) == Lesser(Len(s), cap - Len(q))
Added(q, cap, s)   == q \o SubSeq(s, 1, Fitting(q, cap, s))

(* The first n bytes of q, fewer when q holds fewer, and what they leave.  *)
First(q, n) == SubSeq(q, 1, Lesser(n, Len(q)))
Rest(q, n)  == SubSeq(q, Lesser(n, Len(q)) + 1, Len(q))
==============================================================================
