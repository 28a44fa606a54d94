---------------------------- MODULE StringStore ----------------------------
(***************************************************************************)
(* stringstore_t, which buffers what a client sends until it makes a line. *)
(* A store is a record of the allocated bytes, at offsets from 0, their    *)
(* number, how many of them are in use, and the step by which it grows.    *)
(* A byte is a newline, a NUL, or any other.                               *)
(***************************************************************************)
EXTENDS Integers, Sequences

Bytes == {"x", "nl", "nul"}
Ends  == {"nl", "nul"}    \* what stringstore_nextstr takes for the end of a string

IsStore(store) ==
  /\ store.inc \in Nat \ {0} /\ store.size \in Nat /\ store.used \in 0 .. store.size
  /\ store.buff \in [0 .. store.size - 1 -> Bytes]

(* stringstore_init_n; calloc clears the bytes.                            *)
Fresh(size) == [buff |-> [i \in 0 .. size - 1 |-> "nul"], size |-> size, used |-> 0, inc |-> size]

(* strstore_resize: a new allocation with the bytes in use.                *)
Resized(store, length) ==
  LET size == IF length < store.used THEN store.used ELSE length
  IN IF size = store.size THEN store
     ELSE [buff |-> [i \in 0 .. size - 1 |-> IF i < store.used THEN store.buff[i] ELSE "nul"],
           size |-> size, used |-> store.used, inc |-> store.inc]

(* What the store grows by to take the given number of bytes: the first    *)
(* multiple of its step that is enough.  Mutated form: one step.           *)
IncrementOnce(store, length) == store.inc
Increment(store, length) ==
  store.inc * ((store.used + length - store.size + store.inc - 1) \div store.inc)

(* stringstore_append, by way of stringstore_store.                        *)
Grown(store, length) ==
  IF store.used + length > store.size
  THEN Resized(store, store.size + Increment(store, length)) ELSE store

Appended(store, value) ==
  LET room == Grown(store, Len(value))
  IN [buff |-> [i \in DOMAIN room.buff |->
                  IF i \in store.used .. store.used + Len(value) - 1
                  THEN value[i - store.used + 1] ELSE room.buff[i]],
      size |-> room.size, used |-> room.used + Len(value), inc |-> room.inc]

(* stringstore_nextstr from the start: the length of the first string, its *)
(* end included, or 0 when the bytes in use have no end of a string.       *)
(* Mutated forms: bytes that are no longer in use are looked at too; the   *)
(* last one in use is not.                                                 *)
FirstEnd(store, bound) ==
  LET ends == {i \in 0 .. bound - 1 : store.buff[i] \in Ends}
  IN IF ends = {} THEN 0 ELSE (CHOOSE i \in ends : \A j \in ends : i <= j) + 1

NextLengthAllocated(store) == IF store.used = 0 THEN 0 ELSE FirstEnd(store, store.size)
NextLengthShort(store) == FirstEnd(store, store.used - 1)
NextLength(store) == FirstEnd(store, store.used)

(* stringstore_consume: what follows moves to the front, and leaves behind *)
(* a copy of its last bytes.  Mutated form: nothing moves.                 *)
ConsumedAtEnd(store, bytes) == [store EXCEPT !.used = IF bytes >= @ THEN 0 ELSE @ - bytes]
Consumed(store, bytes) ==
  LET left == IF bytes >= store.used THEN 0 ELSE store.used - bytes
  IN [buff |-> [i \in DOMAIN store.buff |->
                  IF i < left THEN store.buff[i + bytes] ELSE store.buff[i]],
      size |-> store.size, used |-> left, inc |-> store.inc]

(* The bytes in use, and the first of them, as a sequence.                 *)
First(store, length) == [i \in 1 .. length |-> store.buff[i - 1]]
Contents(store) == First(store, store.used)
=============================================================================
