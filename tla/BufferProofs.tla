---------------------------- MODULE BufferProofs ----------------------------
(***************************************************************************)
(* Proofs about Buffer, for every set of bytes, sizes, inputs and lengths. *)
(***************************************************************************)
EXTENDS Buffer, QueueProofs, TLAPS

(* A ring never counts more bytes than fit below its size.                 *)
LEMMA UsedBound ==
  ASSUME NEW b, RingOK(b)
  PROVE  /\ Used(b) \in Nat
         /\ Available(b) \in Nat
         /\ IF b.size = 0 THEN Used(b) = 0 /\ Available(b) = 0
            ELSE Used(b) + Available(b) = b.size - 1
BY DEF RingOK, Used, Available

(* min of two numbers.                                                     *)
LEMMA LesserNat ==
  ASSUME NEW m \in Nat, NEW n \in Nat
  PROVE  Lesser(m, n) \in Nat /\ Lesser(m, n) <= m /\ Lesser(m, n) <= n
BY DEF Lesser

(* An index advanced by the bytes it may move over stays an index.         *)
LEMMA IncIndex ==
  ASSUME NEW b, RingOK(b), b.size > 0, NEW val \in Nat, NEW by \in Nat
  PROVE  Inc(b, val, by) \in Nat /\ Inc(b, val, by) < b.size
BY DEF RingOK, Inc

(* buffer_put keeps the ring a ring.                                       *)
LEMMA PutRing ==
  ASSUME NEW b, RingOK(b), NEW s \in Seq(Byte)
  PROVE  RingOK(PutBytes(b, s))
<1> DEFINE n    == Lesser(Len(s), Available(b))
           top  == Lesser(IF b.lo > b.hi THEN b.lo - b.hi ELSE b.size - b.hi, n)
           rest == n - top
           mid  == IF top > 0 THEN Inc(b, b.hi, top) ELSE b.hi
           hi   == IF rest > 0 THEN Inc(b, mid, rest) ELSE mid
           data == [i \in DOMAIN b.data |->
                           IF i < rest THEN s[top + i + 1]
                           ELSE IF b.hi <= i /\ i < b.hi + top THEN s[i - b.hi + 1]
                           ELSE b.data[i]]
<1>1. PutBytes(b, s) = [b EXCEPT !.hi = hi, !.data = data]
  BY DEF PutBytes
<1>2. /\ n \in Nat /\ top \in Nat /\ rest \in Nat
      /\ top + rest <= Len(s)
      /\ b.size = 0 => top = 0 /\ rest = 0
  <2>1. n \in Nat /\ n <= Len(s) /\ (b.size = 0 => n = 0)
    BY UsedBound DEF Lesser
  <2> HIDE DEF n
  <2>2. top \in Nat /\ top <= n
    BY <2>1 DEF Lesser, RingOK
  <2> HIDE DEF top
  <2> QED BY <2>1, <2>2
<1>3. hi \in Nat /\ IF b.size = 0 THEN hi = 0 ELSE hi < b.size
  BY <1>2 DEF RingOK, Inc
<1>4. data \in [0 .. b.size - 1 -> Byte]
  <2> HIDE DEF n, top, rest
  <2>1. DOMAIN b.data = 0 .. b.size - 1
    BY DEF RingOK
  <2>2. SUFFICES ASSUME NEW i \in 0 .. b.size - 1
                 PROVE  (IF i < rest THEN s[top + i + 1]
                         ELSE IF b.hi <= i /\ i < b.hi + top THEN s[i - b.hi + 1]
                         ELSE b.data[i]) \in Byte
    BY <2>1
  <2>3. CASE i < rest
    BY <2>3, <1>2
  <2>4. CASE ~(i < rest) /\ b.hi <= i /\ i < b.hi + top
    <3>1. i - b.hi + 1 \in 1 .. Len(s)
      BY <2>4, <1>2 DEF RingOK
    <3> QED BY <2>4, <3>1
  <2>5. CASE ~(i < rest) /\ ~(b.hi <= i /\ i < b.hi + top)
    BY <2>5 DEF RingOK
  <2> QED BY <2>3, <2>4, <2>5
<1> HIDE DEF n, top, rest, mid, hi, data
<1> QED BY <1>1, <1>3, <1>4 DEF RingOK

(* The two pieces of a read stay inside the array.                         *)
LEMMA TopBound ==
  ASSUME NEW b, RingOK(b), NEW n \in Nat, n <= Used(b)
  PROVE  /\ TopOf(b, n) \in Nat /\ TopOf(b, n) <= n
         /\ MidOf(b, n) \in Nat
         /\ b.lo + TopOf(b, n) <= b.size
         /\ MidOf(b, n) + (n - TopOf(b, n)) <= b.size
BY DEF RingOK, TopOf, MidOf, Lesser, Inc, Used

(* buffer_peek gives bytes.                                                *)
LEMMA PeekSeq ==
  ASSUME NEW b, RingOK(b), NEW len \in Nat
  PROVE  PeekBytes(b, len) \in Seq(Byte)
<1> DEFINE n == Lesser(len, Used(b))
<1>1. n \in Nat /\ n <= Used(b)
  BY UsedBound, LesserNat
<1> HIDE DEF n
<1>2. /\ TopOf(b, n) \in Nat /\ MidOf(b, n) \in Nat
      /\ b.lo + TopOf(b, n) <= b.size
      /\ MidOf(b, n) + (n - TopOf(b, n)) <= b.size
  BY <1>1, TopBound
<1>3. ASSUME NEW i \in 1 .. n
      PROVE  (IF i <= TopOf(b, n) THEN b.data[b.lo + i - 1]
              ELSE b.data[MidOf(b, n) + i - TopOf(b, n) - 1]) \in Byte
  <2>1. CASE i <= TopOf(b, n)
    <3>1. b.lo + i - 1 \in 0 .. b.size - 1
      BY <2>1, <1>1, <1>2 DEF RingOK
    <3> QED BY <2>1, <3>1 DEF RingOK
  <2>2. CASE ~(i <= TopOf(b, n))
    <3>1. MidOf(b, n) + i - TopOf(b, n) - 1 \in 0 .. b.size - 1
      BY SMTT(30), <2>2, <1>1, <1>2 DEF RingOK
    <3> QED BY <2>2, <3>1 DEF RingOK
  <2> QED BY <2>1, <2>2
<1> QED BY <1>1, <1>3 DEF PeekBytes, n

(* buffer_get keeps the ring a ring.                                       *)
LEMMA AdvancedRing ==
  ASSUME NEW b, RingOK(b), NEW n \in Nat, n <= Used(b)
  PROVE  RingOK(Advanced(b, n))
<1> DEFINE lo == IF n > TopOf(b, n) THEN Inc(b, MidOf(b, n), n - TopOf(b, n))
                 ELSE MidOf(b, n)
<1>1. lo \in Nat /\ IF b.size = 0 THEN lo = 0 ELSE lo < b.size
  BY DEF RingOK, TopOf, MidOf, Lesser, Inc, Used
<1>2. Advanced(b, n) = [b EXCEPT !.lo = lo]
  BY DEF Advanced
<1> HIDE DEF lo
<1> QED BY <1>1, <1>2 DEF RingOK

(* What buffer_copymove takes is there.                                    *)
LEMMA MoveCountBound ==
  ASSUME NEW b, NEW d, RingOK(b), RingOK(d), NEW len \in Nat
  PROVE  /\ MoveCount(d, b, len) \in Nat
         /\ MoveCount(d, b, len) <= Used(b)
BY UsedBound DEF MoveCount, Lesser

(* buffer_copymove keeps its target a ring.                                *)
LEMMA TransferredRing ==
  ASSUME NEW b, NEW d, RingOK(b), RingOK(d), NEW n \in Nat, n <= Used(b)
  PROVE  RingOK(Transferred(d, b, n))
<1> DEFINE top == TopOf(b, n)
           upper == [i \in 1 .. top |-> b.data[b.lo + i - 1]]
           lower == [i \in 1 .. n - top |-> b.data[MidOf(b, n) + i - 1]]
           d1    == IF top > 0 THEN PutBytes(d, upper) ELSE d
<1>1. /\ top \in Nat /\ n - top \in Nat /\ MidOf(b, n) \in Nat
      /\ b.lo + top <= b.size
      /\ MidOf(b, n) + (n - top) <= b.size
  BY TopBound
<1>2. Transferred(d, b, n) = IF n > top THEN PutBytes(d1, lower) ELSE d1
  BY DEF Transferred
<1>0. b.lo \in Nat /\ b.size \in Nat /\ b.data \in [0 .. b.size - 1 -> Byte]
  BY DEF RingOK
<1> HIDE DEF top, upper, lower, d1
<1>3. upper \in Seq(Byte)
  <2>1. ASSUME NEW i \in 1 .. top PROVE b.data[b.lo + i - 1] \in Byte
    <3>1. b.lo + i - 1 \in 0 .. b.size - 1
      BY SMTT(30), <1>0, <1>1
    <3> QED BY <1>0, <3>1
  <2> QED BY <1>1, <2>1 DEF upper
<1>4. lower \in Seq(Byte)
  <2>1. ASSUME NEW i \in 1 .. n - top PROVE b.data[MidOf(b, n) + i - 1] \in Byte
    <3>1. MidOf(b, n) + i - 1 \in 0 .. b.size - 1
      BY <1>0, <1>1
    <3> QED BY <1>0, <3>1
  <2> QED BY <1>1, <2>1 DEF lower
<1>5. RingOK(d1)
  BY <1>3, PutRing DEF d1
<1> QED BY <1>2, <1>4, <1>5, PutRing

(* buffer_flush keeps the ring a ring.                                     *)
LEMMA FlushedRing ==
  ASSUME NEW b, RingOK(b)
  PROVE  RingOK(Flushed(b))
BY DEF RingOK, Flushed

------------------------------------------------------------------------------
(* Both rings stay well formed and every index stays inside the allocated  *)
(* data, whatever a caller puts in, takes out, copies or moves.            *)
THEOREM TypeCorrect == Spec => []TypeOK
<1>1. Init => TypeOK
  <2> SUFFICES ASSUME Init PROVE TypeOK
    OBVIOUS
  <2>1. ASSUME NEW size \in Sizes, NEW b \in Fresh(size) PROVE RingOK(b)
    BY <2>1, BufferAssumption DEF Fresh, RingOK
  <2> QED BY <2>1 DEF Init, TypeOK
<1>2. TypeOK /\ [Next]_vars => TypeOK'
  <2> SUFFICES ASSUME TypeOK, [Next]_vars PROVE TypeOK'
    OBVIOUS
  <2>0. ASSUME NEW b, RingOK(b), NEW len \in Nat
        PROVE  Lesser(len, Used(b)) \in Nat /\ Lesser(len, Used(b)) <= Used(b)
    BY <2>0, UsedBound, LesserNat
  <2>1. ASSUME NEW s \in Inputs, Put(s) PROVE TypeOK'
    <3>1. s \in Seq(Byte)
      BY BufferAssumption
    <3>2. Len(s) \in Nat /\ Lesser(Len(s), Available(src)) \in Nat
      BY <3>1, UsedBound, LesserNat DEF TypeOK
    <3> QED BY <2>1, <3>1, <3>2, PutRing DEF Put, TypeOK
  <2>2. ASSUME NEW len \in Lengths, Peek(len) PROVE TypeOK'
    BY <2>0, <2>2, BufferAssumption, PeekSeq DEF Peek, TypeOK
  <2>3. ASSUME NEW len \in Lengths, Get(len) PROVE TypeOK'
    BY <2>0, <2>3, BufferAssumption, PeekSeq, AdvancedRing DEF Get, TypeOK
  <2>4. ASSUME NEW len \in Lengths, Discard(len) PROVE TypeOK'
    BY <2>0, <2>4, BufferAssumption, AdvancedRing DEF Discard, TypeOK
  <2>5. ASSUME NEW len \in Lengths, Copy(len) PROVE TypeOK'
    BY <2>5, BufferAssumption, MoveCountBound, TransferredRing DEF Copy, TypeOK
  <2>6. ASSUME NEW len \in Lengths, Move(len) PROVE TypeOK'
    BY <2>6, BufferAssumption, MoveCountBound, TransferredRing, AdvancedRing DEF Move, TypeOK
  <2>7. ASSUME NEW len \in Lengths, Drain(len) PROVE TypeOK'
    BY <2>0, <2>7, BufferAssumption, PeekSeq, AdvancedRing DEF Drain, TypeOK
  <2>8. CASE Flush
    BY <2>8, FlushedRing DEF Flush, TypeOK
  <2>9. CASE UNCHANGED vars
    BY <2>9 DEF vars, TypeOK
  <2> QED BY <2>1, <2>2, <2>3, <2>4, <2>5, <2>6, <2>7, <2>8, <2>9 DEF Next
<1> QED BY <1>1, <1>2, PTL DEF Spec

------------------------------------------------------------------------------
(* What each function does to the contents of a ring.                      *)

(* The contents are bytes, each in a slot of the data.                     *)
LEMMA ContentsOK ==
  ASSUME NEW b, RingOK(b)
  PROVE  /\ Used(b) \in Nat
         /\ Contents(b) \in Seq(Byte) /\ Len(Contents(b)) = Used(b)
         /\ \A i \in 1 .. Used(b) : /\ Slot(b, i) \in 0 .. b.size - 1
                                    /\ Contents(b)[i] = b.data[Slot(b, i)]
<1>1. Used(b) \in Nat
  BY UsedBound
<1>2. \A i \in 1 .. Used(b) : Slot(b, i) \in 0 .. b.size - 1
  BY DEF RingOK, Used, Slot
<1>3. \A i \in 1 .. Used(b) : b.data[Slot(b, i)] \in Byte
  BY <1>2 DEF RingOK
<1> QED BY <1>1, <1>2, <1>3 DEF Contents

(* The slots go up from lo to the end of the data and on from its start.   *)
LEMMA SlotOK ==
  ASSUME NEW b, b.size \in Nat, b.lo \in Nat, b.lo < b.size, NEW i \in Nat, 1 <= i, i <= b.size
  PROVE  IF i <= b.size - b.lo THEN Slot(b, i) = b.lo + i - 1
         ELSE Slot(b, i) = b.lo + i - 1 - b.size
BY DEF Slot

(* buffer_put leaves the bytes that are there where they are, and stores   *)
(* the new ones in the slots after them.                                   *)
LEMMA PutShape ==
  ASSUME NEW b, RingOK(b), NEW s \in Seq(Byte),
         NEW n \in Nat, n = Lesser(Len(s), Available(b))
  PROVE  LET r == PutBytes(b, s)
         IN /\ r.size = b.size /\ r.lo = b.lo /\ Used(r) = Used(b) + n
            /\ \A i \in 1 .. Used(b) : r.data[Slot(b, i)] = b.data[Slot(b, i)]
            /\ \A i \in 1 .. n : r.data[Slot(b, Used(b) + i)] = s[i]
<1> DEFINE top  == Lesser(IF b.lo > b.hi THEN b.lo - b.hi ELSE b.size - b.hi, n)
           rest == n - top
           mid  == IF top > 0 THEN Inc(b, b.hi, top) ELSE b.hi
           hi   == IF rest > 0 THEN Inc(b, mid, rest) ELSE mid
           data == [i \in DOMAIN b.data |->
                           IF i < rest THEN s[top + i + 1]
                           ELSE IF b.hi <= i /\ i < b.hi + top THEN s[i - b.hi + 1]
                           ELSE b.data[i]]
           r    == PutBytes(b, s)
<1>1. r.size = b.size /\ r.lo = b.lo /\ r.hi = hi /\ r.data = data
  <2>1. r = [b EXCEPT !.hi = hi, !.data = data]
    BY DEF PutBytes
  <2> HIDE DEF r, hi, data
  <2> QED BY <2>1 DEF RingOK
<1>0. CASE b.size = 0
  <2>1. b.lo = 0 /\ b.hi = 0 /\ n = 0 /\ Used(b) = 0
    BY <1>0 DEF RingOK, Used, Available, Lesser
  <2>2. hi = 0
    BY <1>0, <2>1 DEF Lesser
  <2> HIDE DEF r, hi, data
  <2> QED BY <1>0, <1>1, <2>1, <2>2 DEF Used, r
<1> SUFFICES ASSUME b.size /= 0
             PROVE  /\ r.size = b.size /\ r.lo = b.lo /\ Used(r) = Used(b) + n
                    /\ \A i \in 1 .. Used(b) : r.data[Slot(b, i)] = b.data[Slot(b, i)]
                    /\ \A i \in 1 .. n : r.data[Slot(b, Used(b) + i)] = s[i]
  BY <1>0
<1>2. b.size \in Nat /\ b.lo \in Nat /\ b.hi \in Nat /\ b.lo < b.size /\ b.hi < b.size
  BY DEF RingOK
<1>7. DOMAIN b.data = 0 .. b.size - 1
  BY DEF RingOK
<1>3. n \in Nat /\ n <= Available(b)
  BY UsedBound, LesserOK
<1> HIDE DEF r
<1>4. CASE b.lo > b.hi
  <2>1. Used(b) = b.size - b.lo + b.hi /\ n < b.lo - b.hi
    BY <1>2, <1>3, <1>4 DEF Used, Available
  <2>5. top = n /\ rest = 0 /\ hi = b.hi + n
    BY <1>2, <1>4, <2>1 DEF Lesser, Inc
  <2> HIDE DEF top, rest, hi
  <2>2. Used(r) = Used(b) + n
    BY <1>1, <1>2, <1>3, <1>4, <2>1, <2>5 DEF Used
  <2>3. ASSUME NEW i \in 1 .. Used(b) PROVE r.data[Slot(b, i)] = b.data[Slot(b, i)]
    <3>2. i \in Nat /\ 1 <= i /\ i <= b.size - b.lo + b.hi /\ i <= b.size
      BY <1>2, <1>4, <2>1
    <3>3. IF i <= b.size - b.lo THEN Slot(b, i) = b.lo + i - 1
          ELSE Slot(b, i) = b.lo + i - 1 - b.size
      BY <1>2, <3>2, SlotOK
    <3>1. Slot(b, i) \in 0 .. b.size - 1 /\ ~(b.hi <= Slot(b, i) /\ Slot(b, i) < b.hi + n)
      <4>1. CASE i <= b.size - b.lo
        BY <1>2, <1>4, <2>1, <3>2, <3>3, <4>1
      <4>2. CASE ~(i <= b.size - b.lo)
        BY SMTT(30), <1>2, <1>4, <2>1, <3>2, <3>3, <4>2
      <4> QED BY <4>1, <4>2
    <3> QED BY <1>1, <1>2, <1>7, <2>5, <3>1
  <2>4. ASSUME NEW i \in 1 .. n PROVE r.data[Slot(b, Used(b) + i)] = s[i]
    <3> DEFINE k == Used(b) + i
    <3>3. k \in Nat /\ 1 <= k /\ k <= b.size
      BY <1>2, <1>3, <1>4, <2>1 DEF Available
    <3>4. IF k <= b.size - b.lo THEN Slot(b, k) = b.lo + k - 1 ELSE Slot(b, k) = b.lo + k - 1 - b.size
      BY <1>2, <3>3, SlotOK
    <3>1. Slot(b, k) = b.hi + i - 1 /\ b.hi + i - 1 \in 0 .. b.size - 1
      BY SMTT(30), <1>2, <1>3, <1>4, <2>1, <3>4
    <3>2. (b.hi + i - 1) - b.hi + 1 = i /\ b.hi <= b.hi + i - 1 /\ b.hi + i - 1 < b.hi + n
      BY <1>2, <1>3
    <3> QED BY <1>1, <1>2, <1>7, <2>5, <3>1, <3>2
  <2> QED BY <1>1, <2>2, <2>3, <2>4
<1>5. CASE ~(b.lo > b.hi) /\ n < b.size - b.hi
  <2>1. Used(b) = b.hi - b.lo
    BY <1>2, <1>5 DEF Used
  <2>5. top = n /\ rest = 0 /\ hi = b.hi + n
    BY <1>2, <1>5 DEF Lesser, Inc
  <2> HIDE DEF top, rest, hi
  <2>2. Used(r) = Used(b) + n
    BY <1>1, <1>2, <1>3, <1>5, <2>1, <2>5 DEF Used
  <2>3. ASSUME NEW i \in 1 .. Used(b) PROVE r.data[Slot(b, i)] = b.data[Slot(b, i)]
    <3>1. Slot(b, i) \in 0 .. b.size - 1 /\ Slot(b, i) < b.hi
      BY <1>2, <1>3, <1>5, <2>1 DEF Slot
    <3> QED BY <1>1, <1>2, <1>7, <2>5, <3>1
  <2>4. ASSUME NEW i \in 1 .. n PROVE r.data[Slot(b, Used(b) + i)] = s[i]
    <3> DEFINE k == Used(b) + i
    <3>3. k \in Nat /\ 1 <= k /\ k <= b.size
      BY <1>2, <1>3, <1>5, <2>1 DEF Available
    <3>4. IF k <= b.size - b.lo THEN Slot(b, k) = b.lo + k - 1 ELSE Slot(b, k) = b.lo + k - 1 - b.size
      BY <1>2, <3>3, SlotOK
    <3>1. Slot(b, k) = b.hi + i - 1 /\ b.hi + i - 1 \in 0 .. b.size - 1
      BY SMTT(30), <1>2, <1>3, <1>5, <2>1, <3>4
    <3>2. (b.hi + i - 1) - b.hi + 1 = i /\ b.hi <= b.hi + i - 1 /\ b.hi + i - 1 < b.hi + n
      BY <1>2, <1>3
    <3> QED BY <1>1, <1>2, <1>7, <2>5, <3>1, <3>2
  <2> QED BY <1>1, <2>2, <2>3, <2>4
<1>6. CASE ~(b.lo > b.hi) /\ ~(n < b.size - b.hi)
  <2>1. Used(b) = b.hi - b.lo /\ n >= b.size - b.hi /\ n - (b.size - b.hi) < b.lo
    BY <1>2, <1>3, <1>6 DEF Used, Available
  <2>6. top = b.size - b.hi
    BY <1>2, <1>6, <2>1 DEF Lesser
  <2>7. rest = n - (b.size - b.hi)
    BY <2>6
  <2>8. mid = 0
    <3> HIDE DEF top
    <3> QED BY <1>2, <2>6 DEF Inc
  <2>9. hi = n - (b.size - b.hi)
    <3> HIDE DEF rest, mid
    <3> QED BY <1>2, <2>1, <2>7, <2>8 DEF Inc
  <2> HIDE DEF top, rest, hi
  <2>2. Used(r) = Used(b) + n
    BY <1>1, <1>2, <1>6, <2>1, <2>9 DEF Used
  <2>3. ASSUME NEW i \in 1 .. Used(b) PROVE r.data[Slot(b, i)] = b.data[Slot(b, i)]
    <3>1. /\ Slot(b, i) \in 0 .. b.size - 1 /\ Slot(b, i) < b.hi
          /\ n - (b.size - b.hi) <= Slot(b, i)
      BY <1>2, <1>3, <1>6, <2>1 DEF Slot
    <3> QED BY <1>1, <1>2, <1>7, <2>6, <2>7, <3>1
  <2>4. ASSUME NEW i \in 1 .. n, i <= b.size - b.hi
        PROVE  r.data[Slot(b, Used(b) + i)] = s[i]
    <3> DEFINE k == Used(b) + i
    <3>3. k \in Nat /\ 1 <= k /\ k <= b.size - b.lo /\ k <= b.size
      BY <1>2, <1>6, <2>1, <2>4
    <3>4. Slot(b, k) = b.lo + k - 1
      BY <1>2, <3>3, SlotOK
    <3>1. /\ Slot(b, k) = b.hi + i - 1 /\ b.hi + i - 1 \in 0 .. b.size - 1
          /\ ~(b.hi + i - 1 < n - (b.size - b.hi))
      BY SMTT(30), <1>2, <1>6, <2>1, <2>4, <3>4
    <3>2. /\ (b.hi + i - 1) - b.hi + 1 = i /\ b.hi <= b.hi + i - 1
          /\ b.hi + i - 1 < b.hi + (b.size - b.hi)
      BY <1>2, <2>4
    <3> QED BY <1>1, <1>2, <1>7, <2>6, <2>7, <3>1, <3>2
  <2>5. ASSUME NEW i \in 1 .. n, ~(i <= b.size - b.hi)
        PROVE  r.data[Slot(b, Used(b) + i)] = s[i]
    <3> DEFINE at == i - (b.size - b.hi) - 1
           k == Used(b) + i
    <3>3. k \in Nat /\ 1 <= k /\ k <= b.size /\ ~(k <= b.size - b.lo)
      BY <1>2, <1>3, <1>6, <2>1, <2>5 DEF Available
    <3>4. Slot(b, k) = b.lo + k - 1 - b.size
      BY <1>2, <3>3, SlotOK
    <3>5. i \in Nat /\ i <= n /\ i > b.size - b.hi /\ k = b.hi - b.lo + i
      BY <1>2, <2>1, <2>5
    <3>6. Slot(b, k) = at
      <4> HIDE DEF k
      <4> QED BY <1>2, <3>4, <3>5
    <3>7. at \in Nat /\ at < n - (b.size - b.hi)
      <4> HIDE DEF k
      <4> QED BY <1>2, <3>5
    <3>1. Slot(b, k) = at /\ at \in 0 .. b.size - 1 /\ at < n - (b.size - b.hi)
      <4> HIDE DEF k, at
      <4> QED BY <1>2, <2>1, <3>6, <3>7
    <3>2. (b.size - b.hi) + at + 1 = i
      BY <1>2
    <3> HIDE DEF at
    <3> QED BY <1>1, <1>2, <1>7, <2>6, <2>7, <3>1, <3>2
  <2> QED BY <1>1, <1>2, <2>2, <2>3, <2>4, <2>5
<1> QED BY <1>4, <1>5, <1>6

(* buffer_put appends to the contents what fits.                           *)
LEMMA PutContents ==
  ASSUME NEW b, RingOK(b), NEW s \in Seq(Byte)
  PROVE  /\ Contents(PutBytes(b, s)) = Added(Contents(b), Capacity(b.size), s)
         /\ Fitting(Contents(b), Capacity(b.size), s) = Lesser(Len(s), Available(b))
         /\ PutBytes(b, s).size = b.size
         /\ Used(PutBytes(b, s)) = Used(b) + Lesser(Len(s), Available(b))
<1> DEFINE n == Lesser(Len(s), Available(b))
           u == Used(b)
           r == PutBytes(b, s)
           p == Contents(b)
           q == Contents(r)
           f == First(s, n)
<1>1. Len(s) \in Nat /\ Available(b) \in Nat /\ u \in Nat
  BY UsedBound
<1>2. n \in Nat /\ n <= Len(s)
  BY <1>1, LesserOK
<1>3. /\ p \in Seq(Byte) /\ Len(p) = u
      /\ \A i \in 1 .. u : p[i] = b.data[Slot(b, i)]
  BY ContentsOK
<1>4. Capacity(b.size) - Len(p) = Available(b)
  BY <1>3, UsedBound DEF Capacity, RingOK
<1>5. n = Fitting(p, Capacity(b.size), s)
  BY <1>4 DEF Fitting
<1>6. f \in Seq(Byte) /\ Len(f) = n /\ \A i \in 1 .. n : f[i] = s[i]
  <2>1. Lesser(n, Len(s)) = n
    BY <1>1, <1>2 DEF Lesser
  <2> HIDE DEF n
  <2> QED BY <1>2, <2>1, FirstOK
<1>7. /\ r.size = b.size /\ r.lo = b.lo /\ Used(r) = u + n
      /\ \A i \in 1 .. u : r.data[Slot(b, i)] = b.data[Slot(b, i)]
      /\ \A i \in 1 .. n : r.data[Slot(b, u + i)] = s[i]
  <2> HIDE DEF r, u
  <2>1. n \in Nat /\ n = Lesser(Len(s), Available(b))
    BY <1>2
  <2> HIDE DEF n
  <2> QED BY <2>1, PutShape DEF r, u
<1>8. /\ q \in Seq(Byte) /\ Len(q) = u + n
      /\ \A i \in 1 .. u + n : q[i] = r.data[Slot(b, i)]
  <2>1. RingOK(r)
    BY PutRing
  <2>2. \A i \in 1 .. u + n : Slot(r, i) = Slot(b, i)
    <3> HIDE DEF r
    <3> QED BY <1>7 DEF Slot
  <2> HIDE DEF r, n, u
  <2> QED BY <1>7, <2>1, <2>2, ContentsOK
<1> HIDE DEF n, u, r, p, q, f
<1>9. \A i \in 1 .. Len(p) : q[i] = p[i]
  BY SMTT(30), <1>1, <1>2, <1>3, <1>7, <1>8
<1>10. \A i \in Len(p) + 1 .. Len(p) + Len(f) : q[i] = f[i - Len(p)]
  <2> SUFFICES ASSUME NEW i \in u + 1 .. u + n PROVE q[i] = f[i - u]
    BY <1>3, <1>6
  <2>1. i - u \in 1 .. n /\ u + (i - u) = i /\ i \in 1 .. u + n
    BY <1>1, <1>2
  <2> QED BY <1>6, <1>7, <1>8, <2>1
<1>11. q = p \o f
  BY <1>3, <1>6, <1>8, <1>9, <1>10, Joined
<1>12. q = Added(p, Capacity(b.size), s)
  <2>1. Lesser(n, Len(s)) = n
    BY <1>1, <1>2 DEF Lesser
  <2>2. f = SubSeq(s, 1, n)
    BY <2>1 DEF f, First
  <2> QED BY <1>5, <1>11, <2>2 DEF Added
<1> QED BY <1>5, <1>7, <1>12 DEF n, p, q, r, u

(* The index lo after the first n bytes are passed over.                   *)
LEMMA AdvancedShape ==
  ASSUME NEW b, RingOK(b), NEW n \in Nat, n <= Used(b)
  PROVE  LET r == Advanced(b, n)
         IN /\ r.size = b.size /\ r.hi = b.hi /\ r.data = b.data
            /\ Used(r) = Used(b) - n
            /\ \A i \in 1 .. Used(b) - n : Slot(r, i) = Slot(b, n + i)
<1> DEFINE lo == IF n > TopOf(b, n) THEN Inc(b, MidOf(b, n), n - TopOf(b, n))
                 ELSE MidOf(b, n)
           r  == Advanced(b, n)
<1>1. r.size = b.size /\ r.hi = b.hi /\ r.data = b.data /\ r.lo = lo
  <2>1. r = [b EXCEPT !.lo = lo]
    BY DEF Advanced
  <2> HIDE DEF r, lo
  <2> QED BY <2>1 DEF RingOK
<1>2. /\ b.size \in Nat /\ b.lo \in Nat /\ b.hi \in Nat
      /\ IF b.size = 0 THEN b.lo = 0 /\ b.hi = 0 ELSE b.lo < b.size /\ b.hi < b.size
  BY DEF RingOK
<1>3. lo = IF b.size = 0 \/ b.lo + n < b.size THEN b.lo + n ELSE b.lo + n - b.size
  BY <1>2 DEF TopOf, MidOf, Lesser, Inc, Used
<1> HIDE DEF r, lo
<1>4. Used(r) = Used(b) - n
  BY <1>1, <1>2, <1>3 DEF Used
<1>5. ASSUME NEW i \in 1 .. Used(b) - n PROVE Slot(r, i) = Slot(b, n + i)
  <2>1. i \in Nat /\ 1 <= i /\ i + n <= Used(b) /\ Used(b) \in Nat
    BY UsedBound
  <2> QED BY <1>1, <1>2, <1>3, <2>1 DEF Slot, Used
<1> QED BY <1>1, <1>4, <1>5 DEF r

(* buffer_get removes the first bytes of the contents.                     *)
LEMMA AdvancedContents ==
  ASSUME NEW b, RingOK(b), NEW n \in Nat, n <= Used(b)
  PROVE  /\ Contents(Advanced(b, n)) = Rest(Contents(b), n)
         /\ Advanced(b, n).size = b.size
<1> DEFINE u == Used(b)
           r == Advanced(b, n)
           p == Contents(b)
           q == Contents(r)
           t == Rest(p, n)
<1>1. /\ u \in Nat /\ p \in Seq(Byte) /\ Len(p) = u
      /\ \A i \in 1 .. u : p[i] = b.data[Slot(b, i)]
  BY ContentsOK
<1>2. /\ r.size = b.size /\ r.data = b.data /\ Used(r) = u - n
      /\ \A i \in 1 .. u - n : Slot(r, i) = Slot(b, n + i)
  BY AdvancedShape
<1>3. /\ q \in Seq(Byte) /\ Len(q) = u - n
      /\ \A i \in 1 .. u - n : q[i] = b.data[Slot(b, n + i)]
  <2>1. RingOK(r)
    BY AdvancedRing
  <2> HIDE DEF r, u
  <2> QED BY <1>2, <2>1, ContentsOK
<1>4. n <= u
  OBVIOUS
<1> HIDE DEF u, r, p, q
<1>5. /\ t \in Seq(Byte) /\ Len(t) = u - n
      /\ \A i \in 1 .. u - n : t[i] = p[n + i]
  <2>1. Lesser(n, Len(p)) = n
    BY <1>1, <1>4 DEF Lesser
  <2> QED BY <1>1, <2>1, RestOK
<1> HIDE DEF t
<1>6. ASSUME NEW i \in 1 .. u - n PROVE q[i] = t[i]
  <2>1. n + i \in 1 .. u
    BY <1>1, <1>4
  <2> QED BY <1>1, <1>3, <1>5, <2>1
<1>7. q = t
  BY <1>3, <1>5, <1>6, SameSeq
<1> QED BY <1>2, <1>7 DEF p, q, r, t

(* buffer_peek gives the first bytes of the contents.                      *)
LEMMA PeekContents ==
  ASSUME NEW b, RingOK(b), NEW len \in Nat
  PROVE  PeekBytes(b, len) = First(Contents(b), len)
<1> DEFINE n == Lesser(len, Used(b))
           u == Used(b)
           p == Contents(b)
           f == First(p, len)
           g == PeekBytes(b, len)
<1>1. /\ u \in Nat /\ p \in Seq(Byte) /\ Len(p) = u
      /\ \A i \in 1 .. u : p[i] = b.data[Slot(b, i)]
  BY ContentsOK
<1>2. n \in Nat /\ n <= u
  BY <1>1, LesserOK
<1>3. f \in Seq(Byte) /\ Len(f) = n /\ \A i \in 1 .. n : f[i] = p[i]
  <2> HIDE DEF p
  <2> QED BY <1>1, FirstOK
<1>4. g = [i \in 1 .. n |-> IF i <= TopOf(b, n) THEN b.data[b.lo + i - 1]
                            ELSE b.data[MidOf(b, n) + i - TopOf(b, n) - 1]]
  BY DEF PeekBytes
<1>5. g \in Seq(Byte)
  BY PeekSeq
<1> HIDE DEF n, u, p, f, g
<1>6. ASSUME NEW i \in 1 .. n
      PROVE  Slot(b, i) = IF i <= TopOf(b, n) THEN b.lo + i - 1
                          ELSE MidOf(b, n) + i - TopOf(b, n) - 1
  BY <1>2 DEF RingOK, TopOf, MidOf, Lesser, Inc, Used, Slot, u
<1>7. Len(g) = n
  BY <1>2, <1>4
<1>8. ASSUME NEW i \in 1 .. n PROVE g[i] = f[i]
  <2>1. i \in 1 .. u
    BY <1>1, <1>2
  <2>2. g[i] = b.data[Slot(b, i)]
    BY <1>4, <1>6
  <2> QED BY <1>1, <1>3, <2>1, <2>2
<1>9. g = f
  BY <1>3, <1>5, <1>7, <1>8, SameSeq
<1> QED BY <1>9 DEF f, g, p

(* What fits is taken whole, and what is put in two parts is put.          *)
LEMMA PutAll ==
  ASSUME NEW b, RingOK(b), NEW s \in Seq(Byte), Len(s) <= Available(b)
  PROVE  /\ Contents(PutBytes(b, s)) = Contents(b) \o s
         /\ Used(PutBytes(b, s)) = Used(b) + Len(s)
         /\ PutBytes(b, s).size = b.size /\ RingOK(PutBytes(b, s))
<1>1. Lesser(Len(s), Available(b)) = Len(s)
  BY DEF Lesser
<1>2. SubSeq(s, 1, Len(s)) = s
  BY SubSeqFull
<1> QED BY <1>1, <1>2, PutContents, PutRing DEF Added

(* buffer_copymove appends the first n bytes of the source.                *)
LEMMA TransferredContents ==
  ASSUME NEW b, NEW d, RingOK(b), RingOK(d), NEW n \in Nat, n <= Used(b), n <= Available(d)
  PROVE  /\ Contents(Transferred(d, b, n)) = Contents(d) \o First(Contents(b), n)
         /\ Transferred(d, b, n).size = d.size
<1> DEFINE top == TopOf(b, n)
           upper == [i \in 1 .. top |-> b.data[b.lo + i - 1]]
           lower == [i \in 1 .. n - top |-> b.data[MidOf(b, n) + i - 1]]
           d1 == IF top > 0 THEN PutBytes(d, upper) ELSE d
           u == Used(b)
           p == Contents(b)
           f == First(p, n)
           c == Contents(d)
<1>1. /\ u \in Nat /\ p \in Seq(Byte) /\ Len(p) = u
      /\ \A i \in 1 .. u : p[i] = b.data[Slot(b, i)] /\ Slot(b, i) \in 0 .. b.size - 1
  BY ContentsOK
<1>2. /\ top \in Nat /\ top <= n /\ n <= u /\ MidOf(b, n) \in Nat
      /\ \A i \in 1 .. n : Slot(b, i) = IF i <= top THEN b.lo + i - 1
                                       ELSE MidOf(b, n) + i - top - 1
  <2>1. top \in Nat /\ top <= n /\ n <= u /\ MidOf(b, n) \in Nat
    BY TopBound
  <2>2. ASSUME NEW i \in 1 .. n
        PROVE  Slot(b, i) = IF i <= TopOf(b, n) THEN b.lo + i - 1
                            ELSE MidOf(b, n) + i - TopOf(b, n) - 1
    BY SMTT(30) DEF RingOK, TopOf, MidOf, Lesser, Inc, Used, Slot
  <2> QED BY <2>1, <2>2
<1>3. f \in Seq(Byte) /\ Len(f) = n /\ \A i \in 1 .. n : f[i] = p[i]
  <2> HIDE DEF p
  <2>1. Lesser(n, Len(p)) = n
    BY <1>1 DEF Lesser
  <2> QED BY <1>1, <2>1, FirstOK
<1>4. /\ b.data \in [0 .. b.size - 1 -> Byte]
      /\ c \in Seq(Byte) /\ Len(c) = Used(d) /\ Used(d) \in Nat /\ Available(d) \in Nat
  BY ContentsOK, UsedBound DEF RingOK
<1>5. n <= Available(d)
  OBVIOUS
<1> HIDE DEF top, u, p, f, c
<1>6. upper \in Seq(Byte) /\ Len(upper) = top /\ \A i \in 1 .. top : upper[i] = f[i]
  <2>1. ASSUME NEW i \in 1 .. top
        PROVE  b.data[b.lo + i - 1] = f[i] /\ f[i] \in Byte
    <3>1. i \in 1 .. n /\ i \in 1 .. u
      BY <1>1, <1>2
    <3> QED BY <1>1, <1>2, <1>3, <3>1
  <2> QED BY <1>2, <2>1
<1>7. lower \in Seq(Byte) /\ Len(lower) = n - top /\ \A i \in 1 .. n - top : lower[i] = f[top + i]
  <2>1. ASSUME NEW i \in 1 .. n - top
        PROVE  b.data[MidOf(b, n) + i - 1] = f[top + i] /\ f[top + i] \in Byte
    <3>1. top + i \in 1 .. n /\ top + i \in 1 .. u /\ ~(top + i <= top)
          /\ MidOf(b, n) + (top + i) - top - 1 = MidOf(b, n) + i - 1
      BY <1>1, <1>2
    <3> QED BY <1>1, <1>2, <1>3, <3>1
  <2>2. n - top \in Nat
    BY <1>2
  <2> QED BY <2>1, <2>2
<1> HIDE DEF upper, lower
<1>8. f = upper \o lower
  <2>1. \A i \in 1 .. Len(upper) : f[i] = upper[i]
    BY <1>6
  <2>2. \A i \in Len(upper) + 1 .. Len(upper) + Len(lower) : f[i] = lower[i - Len(upper)]
    <3> SUFFICES ASSUME NEW i \in top + 1 .. n PROVE f[i] = lower[i - top]
      BY <1>2, <1>6, <1>7
    <3>1. i - top \in 1 .. n - top /\ top + (i - top) = i
      BY <1>2
    <3> QED BY <1>7, <3>1
  <2>3. Len(f) = Len(upper) + Len(lower)
    BY <1>2, <1>3, <1>6, <1>7
  <2> QED BY <1>3, <1>6, <1>7, <2>1, <2>2, <2>3, Joined
<1>9. /\ Contents(d1) = c \o upper /\ Used(d1) = Used(d) + top
      /\ d1.size = d.size /\ RingOK(d1)
  <2>1. CASE top > 0
    <3>1. Len(upper) <= Available(d)
      BY <1>2, <1>4, <1>5, <1>6
    <3> QED BY <1>6, <2>1, <3>1, PutAll DEF c
  <2>2. CASE ~(top > 0)
    <3>1. upper = <<>>
      BY <1>2, <1>6, <2>2, EmptySeq
    <3>2. c \o <<>> = c
      BY <1>4
    <3> QED BY <1>2, <1>4, <2>2, <3>1, <3>2 DEF c
  <2> QED BY <2>1, <2>2
<1>10. Transferred(d, b, n) = IF n > top THEN PutBytes(d1, lower) ELSE d1
  BY DEF Transferred, top, upper, lower
<1> HIDE DEF d1
<1>11. Available(d1) = Available(d) - top
  <2>1. d.size = 0 => top = 0
    BY <1>2, <1>5 DEF Available
  <2>2. d1.size = d.size /\ Used(d1) = Used(d) + top /\ d.size \in Nat
    BY <1>9 DEF RingOK
  <2> QED BY <1>2, <1>4, <2>1, <2>2 DEF Available
<1>12. CASE n > top
  <2>1. Len(lower) <= Available(d1)
    BY <1>2, <1>4, <1>5, <1>7, <1>11
  <2>2. /\ Contents(PutBytes(d1, lower)) = (c \o upper) \o lower
        /\ PutBytes(d1, lower).size = d.size
    BY <1>7, <1>9, <2>1, PutAll
  <2>3. (c \o upper) \o lower = c \o (upper \o lower)
    <3>1. c \in Seq(Byte) /\ upper \in Seq(Byte) /\ lower \in Seq(Byte)
      BY <1>4, <1>6, <1>7
    <3> QED BY <3>1, ConcatAssociative
  <2> QED BY <1>8, <1>10, <1>12, <2>2, <2>3 DEF c, f, p
<1>13. CASE ~(n > top)
  <2>1. lower = <<>>
    BY <1>2, <1>7, <1>13, EmptySeq
  <2>2. f = upper
    BY <1>6, <1>8, <2>1
  <2> QED BY <1>9, <1>10, <1>13, <2>2 DEF c, f, p
<1> QED BY <1>12, <1>13

------------------------------------------------------------------------------
(* Each call of buffer.c is the call of the queue.                         *)

(* How much moves is what fits of what is asked for.                       *)
LEMMA MoveFits ==
  ASSUME NEW b, NEW d, RingOK(b), RingOK(d), NEW len \in Nat
  PROVE  LET n == MoveCount(d, b, len)
             s == First(Contents(b), len)
         IN /\ n \in Nat /\ n <= Used(b) /\ n <= Available(d)
            /\ n = Fitting(Contents(d), Capacity(d.size), s)
            /\ First(Contents(b), n) = SubSeq(s, 1, n)
<1> DEFINE n == MoveCount(d, b, len)
           p == Contents(b)
           s == First(p, len)
           u == Used(b)
           a == Available(d)
<1>1. /\ u \in Nat /\ a \in Nat /\ p \in Seq(Byte) /\ Len(p) = u
      /\ Capacity(d.size) - Len(Contents(d)) = a
  <2>1. u \in Nat /\ a \in Nat /\ p \in Seq(Byte) /\ Len(p) = u
    BY ContentsOK, UsedBound
  <2>2. /\ Len(Contents(d)) = Used(d) /\ Used(d) \in Nat
        /\ IF d.size = 0 THEN Used(d) = 0 /\ a = 0 ELSE Used(d) + a = d.size - 1
    BY ContentsOK, UsedBound
  <2>3. d.size \in Nat
    BY DEF RingOK
  <2> HIDE DEF a
  <2> QED BY <2>1, <2>2, <2>3 DEF Capacity
<1>2. n = Lesser(Lesser(len, a), u)
  BY DEF MoveCount
<1> HIDE DEF n, p, u, a
<1>3. n \in Nat /\ n <= u /\ n <= a /\ n <= len /\ n = Lesser(Lesser(len, u), a)
  BY <1>1, <1>2 DEF Lesser
<1>4. /\ s \in Seq(Byte) /\ Len(s) = Lesser(len, u)
      /\ \A i \in 1 .. Lesser(len, u) : s[i] = p[i]
  BY <1>1, FirstOK
<1> HIDE DEF s
<1>5. n = Fitting(Contents(d), Capacity(d.size), s)
  BY <1>1, <1>3, <1>4 DEF Fitting
<1>6. First(p, n) = SubSeq(s, 1, n)
  <2> DEFINE x == First(p, n)
             y == First(s, n)
  <2>1. Lesser(n, u) = n /\ Lesser(n, Lesser(len, u)) = n /\ n <= Lesser(len, u)
    BY <1>1, <1>3 DEF Lesser
  <2>2. x \in Seq(Byte) /\ Len(x) = n /\ \A i \in 1 .. n : x[i] = p[i]
    BY <1>1, <1>3, <2>1, FirstOK
  <2>3. y \in Seq(Byte) /\ Len(y) = n /\ \A i \in 1 .. n : y[i] = s[i]
    <3>1. Lesser(n, Len(s)) = n
      BY <1>4, <2>1
    <3>2. s \in Seq(Byte) /\ n \in Nat
      BY <1>3, <1>4
    <3> QED BY <3>1, <3>2, FirstOK
  <2>4. y = SubSeq(s, 1, n)
    <3>1. y = SubSeq(s, 1, Lesser(n, Len(s)))
      BY DEF First
    <3> HIDE DEF y
    <3> QED BY <1>4, <2>1, <3>1
  <2>5. Lesser(len, u) \in Nat
    BY <1>1, LesserOK
  <2> HIDE DEF x, y
  <2>6. \A i \in 1 .. n : x[i] = y[i]
    BY <1>3, <1>4, <2>1, <2>2, <2>3, <2>5
  <2>7. x = y
    BY <2>2, <2>3, <2>6, SameSeq
  <2> QED BY <2>4, <2>7 DEF x
<1> QED BY <1>3, <1>5, <1>6 DEF n, p, s, u, a

(* buffer_flush leaves nothing in a buffer of the same size.               *)
LEMMA FlushedContents ==
  ASSUME NEW b, RingOK(b)
  PROVE  Contents(Flushed(b)) = <<>> /\ Flushed(b).size = b.size
<1>1. RingOK(Flushed(b)) /\ Used(Flushed(b)) = 0 /\ Flushed(b).size = b.size
  BY FlushedRing DEF Flushed, Used
<1> QED BY <1>1, ContentsOK, EmptySeq

(* How long the contents are is what the callers are told.                 *)
LEMMA TakenOK ==
  ASSUME NEW b, RingOK(b), NEW len \in Nat
  PROVE  LET n == Lesser(len, Used(b))
         IN /\ n \in Nat /\ n <= Used(b) /\ n = Lesser(len, Len(Contents(b)))
            /\ Abstract(Advanced(b, n)) = [Abstract(b) EXCEPT !.bytes = Rest(@, len)]
<1> DEFINE n == Lesser(len, Used(b))
           p == Contents(b)
<1>1. n \in Nat /\ n <= Used(b) /\ n = Lesser(len, Len(p)) /\ Len(p) \in Nat
  BY ContentsOK, LesserOK
<1>2. Lesser(n, Len(p)) = n
  <2> HIDE DEF p
  <2> QED BY <1>1 DEF Lesser
<1>3. Rest(p, n) = Rest(p, len)
  BY <1>1, <1>2 DEF Rest
<1> HIDE DEF n, p
<1>4. Contents(Advanced(b, n)) = Rest(p, n) /\ Advanced(b, n).size = b.size
  BY <1>1, AdvancedContents DEF p
<1> QED BY <1>1, <1>3, <1>4 DEF n, p, Abstract

(* The ring buffers, whatever their sizes and wherever they wrap, do what  *)
(* buffer.h promises of bounded queues: every call changes the contents    *)
(* and answers its caller as the call of the queue does.                   *)
THEOREM FifoCorrect == Spec => ImplementsFifo
<1>1. Init => F!Init
  <2>1. ASSUME NEW m \in Sizes, NEW b \in Fresh(m)
        PROVE  Abstract(b) = [cap |-> Capacity(m), bytes |-> <<>>]
    <3>1. RingOK(b) /\ b.size = m /\ Used(b) = 0
      BY <2>1, BufferAssumption DEF Fresh, RingOK, Used
    <3>2. Contents(b) = <<>>
      BY <3>1, ContentsOK, EmptySeq
    <3> QED BY <3>1, <3>2 DEF Abstract
  <2>2. \A m : F!Capacity(m) = Capacity(m)
    BY DEF F!Capacity, Capacity
  <2> QED BY <2>1, <2>2 DEF Init, F!Init
<1>3. /\ \A q, n : F!First(q, n) = First(q, n) /\ F!Rest(q, n) = Rest(q, n)
      /\ \A m, n : F!Lesser(m, n) = Lesser(m, n)
      /\ \A q, cap, s : /\ F!Fitting(q, cap, s) = Fitting(q, cap, s)
                        /\ F!Added(q, cap, s) = Added(q, cap, s)
  BY DEF F!First, F!Rest, F!Lesser, F!Fitting, F!Added, First, Rest, Lesser, Fitting, Added
<1>2. ASSUME TypeOK, [Next]_vars PROVE [F!Next]_F!vars
  <2>0. RingOK(src) /\ RingOK(dst)
    BY <1>2 DEF TypeOK
  <2>1. ASSUME NEW s \in Inputs, Put(s) PROVE F!Put(s)
    <3>1. s \in Seq(Byte)
      BY BufferAssumption
    <3> QED BY <1>3, <2>0, <2>1, <3>1, PutContents DEF Put, F!Put, Abstract
  <2>2. ASSUME NEW len \in Lengths, Peek(len) PROVE F!Peek(len)
    BY <1>3, <2>0, <2>2, BufferAssumption, PeekContents, TakenOK DEF Peek, F!Peek, Abstract
  <2>3. ASSUME NEW len \in Lengths, Get(len) PROVE F!Get(len)
    BY <1>3, <2>0, <2>3, BufferAssumption, PeekContents, TakenOK DEF Get, F!Get, Abstract
  <2>4. ASSUME NEW len \in Lengths, Discard(len) PROVE F!Discard(len)
    BY <1>3, <2>0, <2>4, BufferAssumption, TakenOK DEF Discard, F!Discard, Abstract
  <2>10. ASSUME NEW len \in Lengths
         PROVE  LET n == MoveCount(dst, src, len)
                    s == First(Contents(src), len)
                IN /\ n = Fitting(Contents(dst), Capacity(dst.size), s)
                   /\ Abstract(Transferred(dst, src, n)) =
                        [Abstract(dst) EXCEPT !.bytes = @ \o First(Contents(src), n)]
                   /\ Abstract(Transferred(dst, src, n)) =
                        [Abstract(dst) EXCEPT !.bytes = Added(@, Capacity(dst.size), s)]
                   /\ Abstract(Advanced(src, n)) =
                        [Abstract(src) EXCEPT !.bytes = Rest(@, n)]
    <3> DEFINE n == MoveCount(dst, src, len)
               s == First(Contents(src), len)
    <3>1. /\ n \in Nat /\ n <= Used(src) /\ n <= Available(dst)
          /\ n = Fitting(Contents(dst), Capacity(dst.size), s)
          /\ First(Contents(src), n) = SubSeq(s, 1, n)
      BY <2>0, BufferAssumption, MoveFits
    <3> HIDE DEF n, s
    <3>2. /\ Contents(Transferred(dst, src, n)) = Contents(dst) \o First(Contents(src), n)
          /\ Transferred(dst, src, n).size = dst.size
          /\ Contents(Advanced(src, n)) = Rest(Contents(src), n)
          /\ Advanced(src, n).size = src.size
      BY <2>0, <3>1, TransferredContents, AdvancedContents
    <3>3. Added(Contents(dst), Capacity(dst.size), s) = Contents(dst) \o First(Contents(src), n)
      BY <3>1 DEF Added
    <3>4. /\ Abstract(Transferred(dst, src, n)) =
               [Abstract(dst) EXCEPT !.bytes = @ \o First(Contents(src), n)]
          /\ Abstract(Transferred(dst, src, n)) =
               [Abstract(dst) EXCEPT !.bytes = Added(@, Capacity(dst.size), s)]
          /\ Abstract(Advanced(src, n)) = [Abstract(src) EXCEPT !.bytes = Rest(@, n)]
      <4>1. ASSUME NEW b, NEW r, r.size = b.size PROVE Abstract(r) = [Abstract(b) EXCEPT !.bytes = Contents(r)]
        BY <4>1 DEF Abstract
      <4>2. Abstract(dst).bytes = Contents(dst) /\ Abstract(src).bytes = Contents(src)
        BY DEF Abstract
      <4>3. Abstract(Transferred(dst, src, n)) =
              [Abstract(dst) EXCEPT !.bytes = Contents(Transferred(dst, src, n))]
        BY <3>2, <4>1
      <4>4. Abstract(Advanced(src, n)) = [Abstract(src) EXCEPT !.bytes = Contents(Advanced(src, n))]
        BY <3>2, <4>1
      <4> QED BY <3>2, <3>3, <4>2, <4>3, <4>4, Zenon
    <3> QED BY <3>1, <3>4 DEF n, s
  <2>5. ASSUME NEW len \in Lengths, Copy(len) PROVE F!Copy(len)
    BY <1>3, <2>5, <2>10 DEF Copy, F!Copy, Abstract
  <2>6. ASSUME NEW len \in Lengths, Move(len) PROVE F!Move(len)
    BY <1>3, <2>6, <2>10 DEF Move, F!Move, Abstract
  <2>7. ASSUME Flush PROVE F!Flush
    BY <1>3, <2>0, <2>7, FlushedContents DEF Flush, F!Flush, Abstract
  <2>8. ASSUME NEW len \in Lengths, Drain(len) PROVE F!Drain(len)
    BY <1>3, <2>0, <2>8, BufferAssumption, PeekContents, TakenOK DEF Drain, F!Drain, Abstract
  <2>9. CASE UNCHANGED vars
    BY <2>9 DEF vars, F!vars
  <2> QED BY <1>2, <2>1, <2>2, <2>3, <2>4, <2>5, <2>6, <2>7, <2>8, <2>9 DEF Next, F!Next
<1> QED BY <1>1, <1>2, TypeCorrect, PTL DEF Spec, ImplementsFifo, F!Spec
=============================================================================
