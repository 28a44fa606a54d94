--------------------------- MODULE CommandsProofs ---------------------------
(***************************************************************************)
(* Proofs about StringStore, Timer and Commands: the line buffer and the   *)
(* pause between commands do what PacedLines says, for every size, pace    *)
(* and number of times the clock is set.                                   *)
(***************************************************************************)
EXTENDS Commands, SequenceTheorems, WellFoundedInduction, TLAPS

------------------------------------------------------------------------------
(* The line buffer.                                                        *)

(* The store grows by a multiple of its step that is enough.               *)
LEMMA Quotient ==
  ASSUME NEW y \in Nat, NEW d \in Nat, d > 0
  PROVE  y \div d \in Nat /\ d * (y \div d) \in Nat /\ y < d * (y \div d) + d
<1> DEFINE q == y \div d
<1>1. q \in Nat
  OBVIOUS
<1>2. ASSUME NEW p \in Nat, p = q PROVE y < d * p + d /\ d * p \in Nat
  BY <1>2
<1> QED BY <1>1, <1>2

(* stringstore_grow adds what is needed.                                   *)
LEMMA IncrementEnough ==
  ASSUME NEW s, IsStore(s), NEW n \in Nat, s.used + n > s.size
  PROVE  Increment(s, n) \in Nat /\ s.size + Increment(s, n) >= s.used + n
<1> DEFINE x == s.used + n - s.size
           d == s.inc
           g == d * ((x + d - 1) \div d)
<1>1. x \in Nat /\ x > 0 /\ d \in Nat /\ d > 0 /\ s.size \in Nat /\ s.used \in Nat
  BY DEF IsStore
<1>2. Increment(s, n) = g
  BY DEF Increment
<1> HIDE DEF d
<1>3. g \in Nat /\ x + d - 1 < g + d
  <2> HIDE DEF x
  <2> QED BY <1>1, Quotient
<1> HIDE DEF g
<1> QED BY <1>1, <1>2, <1>3

(* A store that was grown has the room and the bytes it had.               *)
LEMMA GrownOK ==
  ASSUME NEW s, IsStore(s), NEW n \in Nat
  PROVE  /\ IsStore(Grown(s, n)) /\ Grown(s, n).size >= s.used + n
         /\ Grown(s, n).used = s.used
         /\ \A i \in 0 .. s.used - 1 : Grown(s, n).buff[i] = s.buff[i]
<1>1. CASE s.used + n <= s.size
  BY <1>1 DEF Grown, IsStore
<1>2. CASE s.used + n > s.size
  <2> DEFINE length == s.size + Increment(s, n)
  <2>1. length \in Nat /\ length > s.size /\ length >= s.used + n /\ ~(length < s.used)
    BY <1>2, IncrementEnough DEF IsStore
  <2>2. Grown(s, n) = Resized(s, length)
    BY <1>2 DEF Grown, IsStore
  <2> HIDE DEF length
  <2>3. Resized(s, length) =
          [buff |-> [i \in 0 .. length - 1 |-> IF i < s.used THEN s.buff[i] ELSE "nul"],
           size |-> length, used |-> s.used, inc |-> s.inc]
    BY <2>1 DEF Resized, IsStore
  <2> QED BY <2>1, <2>2, <2>3, SMTT(30) DEF IsStore, Bytes
<1> QED BY <1>1, <1>2 DEF IsStore
(* What is in use is a sequence of bytes.                                  *)
LEMMA ContentsOK ==
  ASSUME NEW s, IsStore(s), NEW n \in 0 .. s.used
  PROVE  /\ First(s, n) \in Seq(Bytes) /\ Len(First(s, n)) = n
         /\ \A i \in 1 .. n : First(s, n)[i] = s.buff[i - 1]
BY DEF IsStore, First

(* The contents of a store, byte by byte.                                  *)
LEMMA WholeOK ==
  ASSUME NEW s, IsStore(s)
  PROVE  /\ s.used \in Nat /\ Contents(s) \in Seq(Bytes) /\ Len(Contents(s)) = s.used
         /\ \A i \in 1 .. s.used : Contents(s)[i] = s.buff[i - 1]
<1>1. s.used \in Nat /\ s.used \in 0 .. s.used
  BY DEF IsStore
<1> QED BY <1>1, ContentsOK DEF Contents

(* Two sequences with the same elements are the same.                      *)
LEMMA SameSeq ==
  ASSUME NEW S, NEW a \in Seq(S), NEW b \in Seq(S), Len(a) = Len(b),
         \A i \in 1 .. Len(a) : a[i] = b[i]
  PROVE  a = b
BY SeqEqual

(* A sequence that continues another one.                                  *)
LEMMA Joined ==
  ASSUME NEW S, NEW a \in Seq(S), NEW b \in Seq(S), NEW c \in Seq(S),
         Len(c) = Len(a) + Len(b),
         \A i \in 1 .. Len(a) : c[i] = a[i],
         \A i \in Len(a) + 1 .. Len(a) + Len(b) : c[i] = b[i - Len(a)]
  PROVE  c = a \o b
<1> DEFINE d == a \o b
<1>1. d \in Seq(S) /\ Len(d) = Len(a) + Len(b)
  BY ConcatProperties
<1>2. \A i \in 1 .. Len(a) + Len(b) : d[i] = IF i <= Len(a) THEN a[i] ELSE b[i - Len(a)]
  BY ConcatProperties
<1> HIDE DEF d
<1>3. Len(a) \in Nat /\ Len(b) \in Nat
  OBVIOUS
<1>4. ASSUME NEW i \in 1 .. Len(c) PROVE c[i] = d[i]
  <2>1. CASE i <= Len(a)
    BY <1>2, <1>3, <2>1
  <2>2. CASE i > Len(a)
    BY <1>2, <1>3, <2>2
  <2> QED BY <1>3, <2>1, <2>2
<1> QED BY <1>1, <1>4, SameSeq DEF d

(* stringstore_append puts the value after what was there.                 *)
LEMMA AppendedOK ==
  ASSUME NEW s, IsStore(s), NEW value \in Seq(Bytes)
  PROVE  IsStore(Appended(s, value)) /\ Contents(Appended(s, value)) = Contents(s) \o value
<1> DEFINE n == Len(value)
           room == Grown(s, n)
           t == Appended(s, value)
<1>1. /\ n \in Nat /\ IsStore(room) /\ room.size >= s.used + n /\ room.used = s.used
      /\ \A i \in 0 .. s.used - 1 : room.buff[i] = s.buff[i]
  BY GrownOK
<1>2. /\ t.buff = [i \in DOMAIN room.buff |-> IF i \in s.used .. s.used + n - 1
                                            THEN value[i - s.used + 1] ELSE room.buff[i]]
      /\ t.size = room.size /\ t.used = s.used + n /\ t.inc = room.inc
  BY <1>1 DEF Appended
<1>3. s.used \in Nat /\ DOMAIN room.buff = 0 .. room.size - 1 /\ room.size \in Nat
  BY <1>1 DEF IsStore
<1> HIDE DEF room, t, n
<1>4. \A i \in 1 .. n : value[i] \in Bytes
  BY ElementOfSeq DEF n
<1>5. IsStore(t)
  <2>1. t.buff \in [0 .. t.size - 1 -> Bytes]
    <3> SUFFICES ASSUME NEW i \in 0 .. room.size - 1
                 PROVE  (IF i \in s.used .. s.used + n - 1 THEN value[i - s.used + 1]
                         ELSE room.buff[i]) \in Bytes
      BY <1>2, <1>3
    <3>1. i \in s.used .. s.used + n - 1 => i - s.used + 1 \in 1 .. n
      BY <1>1, <1>3
    <3> QED BY <1>1, <1>4, <3>1 DEF IsStore
  <2> QED BY <1>1, <1>2, <1>3, <2>1 DEF IsStore
<1>6. /\ Contents(t) \in Seq(Bytes) /\ Len(Contents(t)) = s.used + n
      /\ \A i \in 1 .. s.used + n : Contents(t)[i] = t.buff[i - 1]
  BY <1>2, <1>5, WholeOK
<1>7. /\ Contents(s) \in Seq(Bytes) /\ Len(Contents(s)) = s.used
      /\ \A i \in 1 .. s.used : Contents(s)[i] = s.buff[i - 1]
  BY WholeOK
<1>8. ASSUME NEW i \in 1 .. s.used PROVE Contents(t)[i] = Contents(s)[i]
  <2>1. /\ i \in 1 .. s.used + n /\ i - 1 \in 0 .. s.used - 1 /\ i - 1 \in 0 .. room.size - 1
        /\ ~(i - 1 \in s.used .. s.used + n - 1)
    BY <1>1, <1>3
  <2>2. t.buff[i - 1] = s.buff[i - 1]
    BY <1>1, <1>2, <1>3, <2>1
  <2> QED BY <1>6, <1>7, <2>1, <2>2
<1>9. ASSUME NEW i \in s.used + 1 .. s.used + n PROVE Contents(t)[i] = value[i - s.used]
  <2>1. /\ i \in 1 .. s.used + n /\ i - 1 \in s.used .. s.used + n - 1
        /\ i - 1 \in 0 .. room.size - 1 /\ (i - 1) - s.used + 1 = i - s.used
    BY <1>1, <1>3
  <2>2. t.buff[i - 1] = value[i - s.used]
    BY <1>1, <1>2, <1>3, <2>1
  <2> QED BY <1>6, <2>1, <2>2
<1>10. Contents(t) = Contents(s) \o value
  <2> DEFINE a == Contents(s)
             c == Contents(t)
  <2>1. value \in Seq(Bytes) /\ Len(value) = n /\ a \in Seq(Bytes) /\ Len(a) = s.used
    BY <1>7 DEF n
  <2>2. c \in Seq(Bytes) /\ Len(c) = Len(a) + Len(value)
    BY <1>6, <2>1
  <2>3. \A i \in 1 .. Len(a) : c[i] = a[i]
    BY <1>8, <2>1
  <2>4. \A i \in Len(a) + 1 .. Len(a) + Len(value) : c[i] = value[i - Len(a)]
    BY <1>9, <2>1
  <2> HIDE DEF a, c
  <2>5. c = a \o value
    BY <2>1, <2>2, <2>3, <2>4, Joined
  <2> QED BY <2>5 DEF a, c
<1> QED BY <1>5, <1>10 DEF t

(* A set of numbers has a least one.                                       *)
LEMMA Least ==
  ASSUME NEW T \in SUBSET Nat, T /= {}
  PROVE  \E x \in T : \A y \in T : x <= y
<1> DEFINE Less == {ss \in Nat \X Nat : ss[1] < ss[2]}
<1>1. IsWellFoundedOn(Less, Nat)
  BY NatLessThanWellFounded DEF OpToRel
<1>2. \A u, v \in Nat : u < v => <<u, v>> \in Less
  OBVIOUS
<1> HIDE DEF Less
<1>3. PICK x \in T : \A y \in T : ~(<<y, x>> \in Less)
  BY <1>1, WFMin
<1>4. ASSUME NEW y \in T PROVE x <= y
  <2>1. x \in Nat /\ y \in Nat
    OBVIOUS
  <2>2. ~(y < x)
    BY <1>2, <1>3, <2>1
  <2> QED BY <2>1, <2>2
<1> QED BY <1>4

(* The first string ends with the first end of a string that is in use.    *)
LEMMA NextLengthOK ==
  ASSUME NEW s, IsStore(s)
  PROVE  LET n == NextLength(s)
         IN /\ n \in 0 .. s.used
            /\ n = 0 => \A i \in 0 .. s.used - 1 : s.buff[i] \notin Ends
            /\ n > 0 => s.buff[n - 1] \in Ends /\ \A i \in 0 .. n - 2 : s.buff[i] \notin Ends
<1> DEFINE ends == {i \in 0 .. s.used - 1 : s.buff[i] \in Ends}
           least == CHOOSE i \in ends : \A j \in ends : i <= j
<1>1. s.used \in Nat
  BY DEF IsStore
<1>2. NextLength(s) = IF ends = {} THEN 0 ELSE least + 1
  BY DEF NextLength, FirstEnd
<1>3. ends /= {} => least \in ends /\ \A j \in ends : least <= j
  <2>1. ends \in SUBSET Nat
    BY <1>1
  <2>2. ASSUME ends /= {} PROVE \E i \in ends : \A j \in ends : i <= j
    <3> HIDE DEF ends
    <3> QED BY <2>1, <2>2, Least
  <2> HIDE DEF ends
  <2> QED BY <2>2
<1> HIDE DEF least
<1>4. CASE ends = {}
  BY <1>1, <1>2, <1>4
<1>5. CASE ends /= {}
  <2>1. least \in 0 .. s.used - 1 /\ s.buff[least] \in Ends
    BY <1>3, <1>5
  <2>2. ASSUME NEW i \in 0 .. least - 1 PROVE s.buff[i] \notin Ends
    BY <1>1, <1>3, <1>5, <2>1
  <2>3. NextLength(s) = least + 1 /\ (least + 1) - 1 = least /\ (least + 1) - 2 = least - 1
    BY <1>2, <1>5, <2>1
  <2> QED BY <1>1, <2>1, <2>2, <2>3
<1> QED BY <1>4, <1>5

(* What is consumed goes, what follows stays.                              *)
LEMMA ConsumedOK ==
  ASSUME NEW s, IsStore(s), NEW n \in 1 .. s.used
  PROVE  /\ IsStore(Consumed(s, n))
         /\ First(s, n) = SubSeq(Contents(s), 1, n)
         /\ Contents(Consumed(s, n)) = SubSeq(Contents(s), n + 1, Len(Contents(s)))
<1> DEFINE t == Consumed(s, n)
           c == Contents(s)
<1>1. /\ s.used \in Nat /\ s.size \in Nat /\ s.used <= s.size /\ DOMAIN s.buff = 0 .. s.size - 1
      /\ \A i \in 0 .. s.size - 1 : s.buff[i] \in Bytes
  BY DEF IsStore
<1>2. /\ t.used = s.used - n /\ t.size = s.size /\ t.inc = s.inc
      /\ t.buff = [i \in 0 .. s.size - 1 |-> IF i < s.used - n THEN s.buff[i + n] ELSE s.buff[i]]
  BY <1>1 DEF Consumed
<1>3. /\ c \in Seq(Bytes) /\ Len(c) = s.used /\ \A i \in 1 .. s.used : c[i] = s.buff[i - 1]
  BY WholeOK
<1> HIDE DEF t, c
<1>4. IsStore(t)
  <2>1. t.buff \in [0 .. s.size - 1 -> Bytes]
    <3> SUFFICES ASSUME NEW i \in 0 .. s.size - 1
                 PROVE  (IF i < s.used - n THEN s.buff[i + n] ELSE s.buff[i]) \in Bytes
      BY <1>2
    <3>1. i < s.used - n => i + n \in 0 .. s.size - 1
      BY <1>1
    <3> QED BY <1>1, <3>1
  <2> QED BY <1>1, <1>2, <2>1 DEF IsStore
<1>5. /\ t.used \in Nat /\ Contents(t) \in Seq(Bytes) /\ Len(Contents(t)) = s.used - n
      /\ \A i \in 1 .. s.used - n : Contents(t)[i] = t.buff[i - 1]
  BY <1>2, <1>4, WholeOK
<1>6. /\ First(s, n) \in Seq(Bytes) /\ Len(First(s, n)) = n
      /\ \A i \in 1 .. n : First(s, n)[i] = s.buff[i - 1]
  BY <1>1, ContentsOK
<1>7. First(s, n) = SubSeq(c, 1, n)
  <2> DEFINE d == SubSeq(c, 1, n)
  <2>1. /\ d \in Seq(Bytes) /\ Len(d) = n /\ \A i \in 1 .. n : d[i] = c[i]
    BY <1>1, <1>3
  <2> HIDE DEF d
  <2>2. ASSUME NEW i \in 1 .. n PROVE First(s, n)[i] = d[i]
    <3>1. i \in 1 .. s.used
      BY <1>1
    <3> QED BY <1>3, <1>6, <2>1, <3>1
  <2>3. First(s, n) = d
    BY <1>6, <2>1, <2>2, SameSeq
  <2> QED BY <2>3 DEF d
<1>8. Contents(t) = SubSeq(c, n + 1, Len(c))
  <2> DEFINE d == SubSeq(c, n + 1, Len(c))
             e == Contents(t)
  <2>1. d \in Seq(Bytes) /\ Len(d) = s.used - n /\ \A i \in 1 .. s.used - n : d[i] = c[n + i]
    BY <1>1, <1>3
  <2>2. e \in Seq(Bytes) /\ Len(e) = s.used - n /\ \A i \in 1 .. s.used - n : e[i] = t.buff[i - 1]
    BY <1>5
  <2> HIDE DEF d, e
  <2>3. ASSUME NEW i \in 1 .. s.used - n PROVE e[i] = d[i]
    <3>1. /\ i - 1 \in 0 .. s.size - 1 /\ i - 1 < s.used - n /\ (i - 1) + n = (n + i) - 1
          /\ n + i \in 1 .. s.used
      BY <1>1
    <3>2. t.buff[i - 1] = s.buff[(n + i) - 1]
      BY <1>2, <3>1
    <3> QED BY <1>3, <2>1, <2>2, <3>1, <3>2
  <2>4. e = d
    BY <2>1, <2>2, <2>3, SameSeq
  <2> QED BY <2>4 DEF d, e
<1> QED BY <1>4, <1>7, <1>8 DEF t, c
------------------------------------------------------------------------------
(* The clock and the pause.                                                *)

(* While the pause is counted, its end is as far as the time since its     *)
(* start says, with what the clock was set; and the clock is never set     *)
(* back to 0, so that no end is taken for NEVER.                           *)
TimeInv ==
  /\ wall \in Int /\ sets \in 0 .. MaxSets /\ wall >= 1 + Jump * (MaxSets - sets)
  /\ since \in Times /\ ahead \in Nat /\ behind \in Nat
  /\ last_command.ending \in Int
  /\ last_command.ending = NEVER => since = CommandPace
  /\ last_command.ending /= NEVER =>
       /\ last_command.ending - wall <= CommandPace - since - ahead + behind
       /\ since /= CommandPace => last_command.ending - wall >= CommandPace - since - ahead
       /\ last_command.ending - wall <= CommandPace + Jump * sets

(* The clock is set once more: the room for later jumps shrinks by one.    *)
LEMMA Products ==
  ASSUME NEW n \in 0 .. MaxSets, n < MaxSets
  PROVE  /\ Jump * MaxSets \in Nat /\ Jump * n \in Nat
         /\ Jump * (MaxSets - n) \in Nat /\ Jump * (MaxSets - (n + 1)) \in Nat
         /\ Jump * (MaxSets - n) = Jump * (MaxSets - (n + 1)) + Jump
         /\ Jump * (n + 1) = Jump * n + Jump
BY CommandsAssumption

(* The room for the jumps that are left.                                   *)
LEMMA Above == ASSUME NEW n \in 0 .. MaxSets
               PROVE  Jump * (MaxSets - n) \in Nat /\ Jump * n \in Nat /\ Jump * n <= Jump * MaxSets
BY CommandsAssumption

(* The timer at the start: it was never set.                               *)
LEMMA TimeInit == Init => TimeInv
BY CommandsAssumption DEF Init, TimeInv, Times, Zeroed, NEVER

(* A step keeps what the clock shows of the pause equal to the time that   *)
(* passed, but for as much as the clock was set forwards and back.         *)
LEMMA TimeStep == ASSUME TimeInv, [Next]_vars PROVE TimeInv'
<1> USE CommandsAssumption DEF NEVER
<1>1. CASE UNCHANGED <<last_command, wall, sets, ghosts>>
  BY <1>1 DEF TimeInv, ghosts, Times
<1>2. CASE ClientCommands /\ Command
  <2>1. /\ last_command'.ending = wall + CommandPace /\ since' = 0 /\ ahead' = 0 /\ behind' = 0
        /\ wall' = wall /\ sets' = sets
    BY <1>2 DEF ClientCommands, Command, TimerReset
  <2>2. wall \in Int /\ sets \in 0 .. MaxSets /\ wall >= 1 + Jump * (MaxSets - sets)
    BY DEF TimeInv
  <2>3. Jump * sets \in Nat /\ wall >= 1
    BY <2>2, Above
  <2> QED BY <2>1, <2>2, <2>3 DEF TimeInv, Times
<1>3. CASE Tick
  <2>1. CASE ~Telling
    <3>1. wall' = wall /\ since' = since /\ UNCHANGED <<last_command, sets, ahead, behind>>
      BY <1>3, <2>1 DEF Tick, Telling, Capped
    <3> QED BY <3>1 DEF TimeInv, Times
  <2>2. CASE Telling
    <3>1. /\ wall' = wall + 1 /\ since' = Capped(since)
          /\ UNCHANGED <<last_command, sets, ahead, behind>>
      BY <1>3, <2>2 DEF Tick
    <3>2. wall \in Int /\ sets \in 0 .. MaxSets /\ Jump * (MaxSets - sets) \in Nat /\ Jump * sets \in Nat
      BY Above DEF TimeInv
    <3> QED BY <3>1, <3>2 DEF TimeInv, Times, Capped
  <2> QED BY <2>1, <2>2
<1>4. CASE ClockSet
  <2>1. PICK by \in 1 .. Jump :
          \/ wall' = wall + by /\ ahead' = ahead + by /\ behind' = behind
          \/ wall' = wall - by /\ behind' = behind + by /\ ahead' = ahead
    BY <1>4 DEF ClockSet
  <2>2. sets < MaxSets /\ sets' = sets + 1 /\ UNCHANGED <<last_command, since>>
    BY <1>4 DEF ClockSet
  <2>3. sets \in 0 .. MaxSets /\ wall \in Int
    BY DEF TimeInv
  <2> DEFINE m == Jump * (MaxSets - sets)
             p == Jump * (MaxSets - sets')
             u == Jump * sets
             v == Jump * sets'
  <2>4. m \in Nat /\ p \in Nat /\ u \in Nat /\ v \in Nat /\ m = p + Jump /\ v = u + Jump
    BY <2>2, <2>3, Products
  <2>5. wall >= 1 + m /\ (last_command.ending /= NEVER => last_command.ending - wall <= CommandPace + u)
    BY DEF TimeInv
  <2> HIDE DEF m, p, u, v
  <2>6. wall' >= 1 + p /\ (last_command.ending /= NEVER => last_command.ending - wall' <= CommandPace + v)
    BY <2>1, <2>3, <2>4, <2>5 DEF TimeInv
  <2>7. wall' >= 1 + Jump * (MaxSets - sets')
        /\ (last_command.ending /= NEVER => last_command.ending - wall' <= CommandPace + Jump * sets')
    BY <2>6 DEF p, v
  <2> QED BY <2>1, <2>2, <2>3, <2>7 DEF TimeInv, Times
<1> QED BY <1>1, <1>2, <1>3, <1>4
        DEF Next, Timeout, SelectFails, Stall, Resume, ClientData, ClientCommands, NoCommand,
            SerialWrite, vars, ghosts

(* A command is held back for no longer than the rest of its pause, and    *)
(* what the clock was set back.                                            *)
THEOREM HeldCorrect == Spec => []HeldLimited
<1>1. TimeInv => HeldLimited
  BY CommandsAssumption DEF TimeInv, HeldLimited, Remaining, Difference, NEVER, Times
<1> QED BY <1>1, TimeInit, TimeStep, PTL DEF Spec
------------------------------------------------------------------------------
(* Types.                                                                  *)
LEMMA FreshOK == IsStore(Fresh(StoreSize)) /\ Contents(Fresh(StoreSize)) = <<>>
BY CommandsAssumption DEF IsStore, Fresh, Contents, First, Bytes

(* What a client sends at once.                                            *)
LEMMA ChunkOK == ASSUME NEW data \in Chunks PROVE data \in Seq(Bytes) /\ Len(data) \in 0 .. MaxChunk
<1>1. PICK n \in 0 .. MaxChunk : data \in [1 .. n -> Bytes]
  BY DEF Chunks
<1>2. n \in Nat
  BY CommandsAssumption
<1> QED BY <1>1, <1>2

(* The command that goes out, when there is one.                           *)
LEMMA CommandOK ==
  ASSUME IsStore(store), Command
  PROVE  LET n == NextLength(store)
         IN /\ n \in 1 .. store.used /\ IsStore(store') /\ store' = Consumed(store, n)
            /\ given' = First(store, n) /\ given' \in Seq(Bytes) /\ Len(given') = n
            /\ tbuf' = tbuf \o given' /\ last_command' = TimerReset(CommandPace, wall)
<1> DEFINE n == NextLength(store)
<1>1. n > 0 /\ store' = Consumed(store, n) /\ given' = First(store, n) /\ tbuf' = tbuf \o First(store, n)
      /\ last_command' = TimerReset(CommandPace, wall)
  BY DEF Command
<1>2. n \in 0 .. store.used
  BY NextLengthOK
<1> HIDE DEF n
<1>3. n \in 1 .. store.used /\ store.used \in Nat
  BY <1>1, <1>2 DEF IsStore
<1>4. IsStore(store') /\ First(store, n) \in Seq(Bytes) /\ Len(First(store, n)) = n
  BY <1>1, <1>2, <1>3, ConsumedOK, ContentsOK
<1> QED BY <1>1, <1>3, <1>4 DEF n

(* The types, at the start.                                                *)
LEMMA TypeInit == Init => TypeOK
<1> SUFFICES ASSUME Init PROVE TypeOK
  OBVIOUS
<1>1. Jump * MaxSets \in Nat
  BY CommandsAssumption
<1> QED BY <1>1, FreshOK, CommandsAssumption
        DEF Init, TypeOK, Zeroed, Timers, TimerReset, NEVER, Times

(* A step keeps the types.                                                 *)
LEMMA TypeStep == ASSUME TypeOK, TimeInv, [Next]_vars PROVE TypeOK'
<1> USE CommandsAssumption
<1>1. CASE ClientData
  <2>1. PICK data \in Chunks :
          /\ received + Len(data) <= MaxBytes /\ received' = received + Len(data)
          /\ store' = IF data = <<>> THEN store ELSE Appended(store, data)
    BY <1>1 DEF ClientData
  <2>2. data \in Seq(Bytes) /\ Len(data) \in Nat
    BY ChunkOK
  <2>3. IsStore(store')
    BY <2>1, <2>2, AppendedOK DEF TypeOK
  <2>4. received' \in 0 .. MaxBytes
    BY <2>1, <2>2 DEF TypeOK
  <2> QED BY <1>1, <2>3, <2>4 DEF ClientData, TypeOK, ghosts, device, tty
<1>2. CASE ClientCommands
  <2>1. CASE Command
    <3>1. IsStore(store') /\ given' \in Seq(Bytes) /\ tbuf' = tbuf \o given'
      BY <2>1, CommandOK DEF TypeOK
    <3>2. tbuf' \in Seq(Bytes)
      BY <3>1, ConcatProperties DEF TypeOK
    <3>3. last_command' \in Timers
      BY <2>1 DEF Command, TimerReset, Timers, TypeOK, NEVER
    <3> QED BY <1>2, <2>1, <3>1, <3>2, <3>3 DEF ClientCommands, Command, TypeOK, Times, tty
  <2>2. CASE NoCommand
    BY <1>2, <2>2 DEF ClientCommands, NoCommand, TypeOK, ghosts, tty
  <2> QED BY <1>2, <2>1, <2>2 DEF ClientCommands
<1>3. CASE SerialWrite
  <2>1. tbuf \in Seq(Bytes) /\ tbuf /= <<>>
    BY <1>3 DEF SerialWrite, Event, TypeOK
  <2>2. Head(tbuf) \in Bytes /\ Tail(tbuf) \in Seq(Bytes)
    BY <2>1, HeadTailProperties
  <2>3. TimerReset(CharPace, wall) \in Timers
    BY DEF TimerReset, Timers, TypeOK, NEVER
  <2>4. tbuf' \in Seq(Bytes) /\ heard' \in Bytes \cup {"none"} /\ pacer' \in Timers /\ quiet' \in Times
    BY <1>3, <2>2, <2>3 DEF SerialWrite, Write, device, TypeOK, Times
  <2> QED BY <1>3, <2>4 DEF SerialWrite, TypeOK, ghosts, tty
<1>4. CASE Tick
  <2>1. wall' \in Nat /\ since' \in Times /\ quiet' \in Times
    BY <1>4 DEF Tick, Capped, TypeOK, Times
  <2>2. waited' \in 0 .. LoopTime
    BY <1>4 DEF Tick, Waiting, TypeOK
  <2> QED BY <1>4, <2>1, <2>2 DEF Tick, TypeOK, tty
<1>5. CASE ClockSet
  <2>1. wall' \in Nat
    <3>1. TimeInv'
      BY TimeStep
    <3>2. sets' \in 0 .. MaxSets /\ wall' \in Int /\ wall' >= 1 + Jump * (MaxSets - sets')
      BY <3>1 DEF TimeInv
    <3>3. Jump * (MaxSets - sets') \in Nat
      BY <3>2, Above
    <3> DEFINE m == Jump * (MaxSets - sets')
               w == wall'
    <3>4. w \in Int /\ m \in Nat /\ w >= 1 + m
      BY <3>2, <3>3
    <3> HIDE DEF m, w
    <3>5. w \in Nat
      BY <3>4
    <3> QED BY <3>5 DEF w
  <2> QED BY <1>5, <2>1 DEF ClockSet, TypeOK, device, tty
<1>6. CASE UNCHANGED vars
  BY <1>6 DEF vars, ghosts, device, tty, TypeOK
<1>7. CASE Timeout \/ SelectFails \/ Stall \/ Resume
  BY <1>7 DEF Timeout, SelectFails, Stall, Resume, ghosts, device, tty, TypeOK
<1> QED BY <1>1, <1>2, <1>3, <1>4, <1>5, <1>6, <1>7 DEF Next

(* The store keeps its shape, and the timers hold times, however the clock *)
(* is set.                                                                 *)
THEOREM TypeCorrect == Spec => []TypeOK
BY TypeInit, TypeStep, TimeInit, TimeStep, PTL DEF Spec

------------------------------------------------------------------------------
(* A command goes to the device only a pause after the last, less what the *)
(* clock was advanced.                                                     *)
THEOREM PauseCorrect == Spec => PauseKept
<1>1. ASSUME TypeOK, TimeInv, [Next]_vars
      PROVE  [Len(tbuf') > Len(tbuf) => since + ahead >= CommandPace]_vars
  <2> SUFFICES ASSUME Next, Len(tbuf') > Len(tbuf) PROVE since + ahead >= CommandPace
    BY <1>1
  <2>1. tbuf \in Seq(Bytes)
    BY <1>1 DEF TypeOK
  <2>2. CASE Command
    <3>1. /\ since \in Int /\ ahead \in Nat /\ behind \in Nat /\ CommandPace \in Nat
          /\ last_command.ending \in Int /\ wall \in Int
          /\ last_command.ending = NEVER => since = CommandPace
      BY <1>1, CommandsAssumption DEF TimeInv, Times
    <3>2. Expired(last_command, wall)
      BY <2>2 DEF Command
    <3>3. CASE last_command.ending = NEVER
      BY <3>1, <3>3
    <3>4. CASE last_command.ending /= NEVER
      <4>1. last_command.ending <= wall
        BY <3>1, <3>2, <3>4 DEF Expired, Difference
      <4> QED BY <1>1, <3>1, <3>4, <4>1 DEF TimeInv
    <3> QED BY <3>3, <3>4
  <2>3. CASE SerialWrite
    <3>1. tbuf /= <<>> /\ (tbuf' = Tail(tbuf) \/ tbuf' = tbuf)
      BY <2>3 DEF SerialWrite, Write, Event, device
    <3>2. Len(Tail(tbuf)) = Len(tbuf) - 1
      BY <2>1, <3>1, HeadTailProperties
    <3> QED BY <2>1, <3>1, <3>2
  <2>4. CASE UNCHANGED tbuf
    BY <2>1, <2>4
  <2> QED BY <2>2, <2>3, <2>4
          DEF Next, Timeout, SelectFails, Stall, Resume, ClientData, ClientCommands, NoCommand,
              Tick, ClockSet, device
<1> QED BY <1>1, TypeInit, TypeStep, TimeInit, TimeStep, PTL DEF Spec, PauseKept

------------------------------------------------------------------------------
(* What the device hears.                                                  *)

(* The wait of select is part of the time since the last character.  While *)
(* nothing goes wrong, the output is the rest of one command, and it is    *)
(* empty when hdmi2usb_process runs.                                       *)
OneCommand == \A i \in 1 .. Len(tbuf) - 1 : tbuf[i] \notin Ends

CalmInv ==
  /\ waited <= quiet
  /\ faults = {} =>
       /\ ready /\ OneCommand
       /\ pc \in {"data", "commands"} => tbuf = <<>> /\ quiet >= LoopTime
       /\ heard \in Ends /\ tbuf /= <<>> => quiet >= LoopTime

(* At the start there is no output.                                        *)
LEMMA CalmInit == Init => CalmInv
BY CommandsAssumption DEF Init, CalmInv, OneCommand

(* A command comes when the output is empty, and has its end at its end; a *)
(* character goes out when it is not the end, or is the last.              *)
LEMMA CalmStep == ASSUME TypeOK, CalmInv, [Next]_vars PROVE CalmInv'
<1>1. /\ tbuf \in Seq(Bytes) /\ waited \in 0 .. LoopTime /\ quiet \in 0 .. CommandPace
      /\ LoopTime \in 1 .. CommandPace /\ CommandPace \in Nat
  BY CommandsAssumption DEF TypeOK, Times
<1>2. CASE Timeout
  <2>1. ~Event /\ waited = LoopTime /\ UNCHANGED <<waited, ready, faults, tbuf, heard, quiet>>
    BY <1>2 DEF Timeout, TimedOut, device, tty
  <2>2. ready => tbuf = <<>>
    BY <2>1 DEF Event
  <2> QED BY <1>1, <2>1, <2>2 DEF CalmInv, OneCommand
<1>3. CASE SelectFails \/ Stall
  <2>1. faults' /= {} /\ UNCHANGED <<waited, quiet>>
    BY <1>3 DEF SelectFails, Stall, device
  <2> QED BY <2>1 DEF CalmInv
<1>4. CASE Resume
  <2>1. ready' = TRUE /\ UNCHANGED <<pc, waited, faults, tbuf, heard, quiet>>
    BY <1>4 DEF Resume, device
  <2> QED BY <2>1 DEF CalmInv, OneCommand
<1>5. CASE ClientData
  <2>1. pc = "data" /\ pc' = "commands" /\ UNCHANGED <<waited, ready, faults, tbuf, heard, quiet>>
    BY <1>5 DEF ClientData, device, tty
  <2> QED BY <2>1 DEF CalmInv, OneCommand
<1>6. CASE ClientCommands
  <2>1. /\ pc = "commands" /\ pc' = "select" /\ waited' = 0
        /\ UNCHANGED <<ready, faults, heard, quiet>>
    BY <1>6 DEF ClientCommands, tty
  <2>2. CASE NoCommand
    <3>1. tbuf' = tbuf
      BY <2>2 DEF NoCommand
    <3> QED BY <1>1, <2>1, <3>1 DEF CalmInv, OneCommand
  <2>3. CASE Command
    <3> DEFINE n == NextLength(store)
    <3>1. IsStore(store) /\ n \in 1 .. store.used /\ tbuf' = tbuf \o First(store, n)
      <4>1. IsStore(store)
        BY DEF TypeOK
      <4>2. n \in 1 .. store.used
        BY <2>3, <4>1, CommandOK
      <4>3. tbuf' = tbuf \o First(store, n)
        BY <2>3 DEF Command
      <4> QED BY <4>1, <4>2, <4>3
    <3>2. \A i \in 0 .. n - 2 : store.buff[i] \notin Ends
      BY <3>1, NextLengthOK
    <3> HIDE DEF n
    <3>3. store.used \in Nat
      BY <3>1 DEF IsStore
    <3>4. /\ First(store, n) \in Seq(Bytes) /\ Len(First(store, n)) = n
          /\ \A i \in 1 .. n : First(store, n)[i] = store.buff[i - 1]
      BY <3>1, <3>3, ContentsOK
    <3>5. ASSUME faults = {} PROVE OneCommand'
      <4>1. tbuf' = First(store, n)
        BY <2>1, <3>1, <3>4, <3>5, ConcatEmptySeq DEF CalmInv
      <4>2. ASSUME NEW i \in 1 .. n - 1 PROVE First(store, n)[i] \notin Ends
        <5>1. i \in 1 .. n /\ i - 1 \in 0 .. n - 2
          BY <3>1, <3>3
        <5> QED BY <3>2, <3>4, <5>1
      <4> QED BY <3>4, <4>1, <4>2 DEF OneCommand
    <3> QED BY <1>1, <2>1, <3>5 DEF CalmInv
  <2> QED BY <1>6, <2>2, <2>3 DEF ClientCommands
<1>7. CASE SerialWrite
  <2>1. pc = "select" /\ pc' = pc /\ tbuf /= <<>> /\ waited' = 0 /\ UNCHANGED <<ready, faults>>
    BY <1>7 DEF SerialWrite, Event, tty
  <2>2. CASE UNCHANGED device
    BY <1>1, <2>1, <2>2 DEF CalmInv, OneCommand, device
  <2>3. CASE Write
    <3>1. heard' = Head(tbuf) /\ tbuf' = Tail(tbuf) /\ quiet' = 0
      BY <2>3 DEF Write
    <3>2. /\ Len(tbuf') = Len(tbuf) - 1 /\ heard' = tbuf[1]
          /\ \A i \in 1 .. Len(tbuf) - 1 : tbuf'[i] = tbuf[i + 1]
      BY <1>1, <2>1, <3>1, HeadTailProperties
    <3>3. Len(tbuf) \in Nat /\ Len(tbuf) > 0
      BY <1>1, <2>1, EmptySeq
    <3>4. ASSUME OneCommand PROVE OneCommand'
      <4>1. ASSUME NEW i \in 1 .. Len(tbuf) - 2 PROVE tbuf'[i] \notin Ends
        <5>1. i \in 1 .. Len(tbuf) - 1 /\ i + 1 \in 1 .. Len(tbuf) - 1
          BY <3>3
        <5> QED BY <3>2, <3>4, <5>1 DEF OneCommand
      <4> QED BY <3>2, <3>3, <4>1 DEF OneCommand
    <3>5. OneCommand /\ heard' \in Ends => tbuf' = <<>>
      <4>1. OneCommand /\ heard' \in Ends => Len(tbuf) - 1 < 1
        BY <3>2, <3>3 DEF OneCommand
      <4> QED BY <1>1, <3>1, <3>2, <3>3, <4>1, HeadTailProperties, EmptySeq
    <3> QED BY <2>1, <3>1, <3>4, <3>5 DEF CalmInv
  <2> QED BY <1>7, <2>2, <2>3 DEF SerialWrite
<1>8. CASE Tick
  <2>1. /\ UNCHANGED <<pc, ready, faults, tbuf, heard>>
        /\ quiet' = Capped(quiet) /\ waited' = IF Waiting THEN waited + 1 ELSE waited
    BY <1>8 DEF Tick, tty
  <2>2. quiet' >= quiet /\ waited' <= quiet'
    BY <1>1, <2>1 DEF Capped, Waiting, CalmInv
  <2>3. quiet' \in Int
    BY <1>1, <2>1 DEF Capped
  <2> QED BY <1>1, <2>1, <2>2, <2>3 DEF CalmInv, OneCommand
<1>9. CASE ClockSet \/ UNCHANGED vars
  <2>1. UNCHANGED <<pc, waited, ready, faults, tbuf, heard, quiet>>
    BY <1>9 DEF ClockSet, vars, device, tty
  <2> QED BY <2>1 DEF CalmInv, OneCommand
<1> QED BY <1>2, <1>3, <1>4, <1>5, <1>6, <1>7, <1>8, <1>9 DEF Next

(* While the tty takes its output and select does not fail, the device     *)
(* gets loop_time between the end of a command and the next one.           *)
THEOREM LoopTimeCorrect == Spec => LoopTimeHeard
<1>1. ASSUME TypeOK, CalmInv, [Next]_vars
      PROVE  [faults = {} /\ Len(tbuf') < Len(tbuf) /\ heard \in Ends => quiet >= LoopTime]_vars
  <2> SUFFICES ASSUME Len(tbuf') < Len(tbuf), faults = {}, heard \in Ends
               PROVE  quiet >= LoopTime
    OBVIOUS
  <2>1. CASE Command
    <3>1. tbuf \in Seq(Bytes) /\ First(store, NextLength(store)) \in Seq(Bytes)
      BY <1>1, <2>1, CommandOK DEF TypeOK
    <3>2. tbuf' = tbuf \o First(store, NextLength(store))
      BY <2>1 DEF Command
    <3> QED BY <3>1, <3>2, ConcatProperties
  <2>2. CASE tbuf /= <<>>
    BY <1>1, <2>2 DEF CalmInv
  <2>3. CASE UNCHANGED tbuf
    BY <1>1, <2>3 DEF TypeOK
  <2> QED BY <1>1, <2>1, <2>2, <2>3
          DEF Next, Timeout, SelectFails, Stall, Resume, ClientData, ClientCommands, NoCommand,
              SerialWrite, Event, Tick, ClockSet, vars, device
<1> QED BY <1>1, TypeInit, TypeStep, TimeInit, TimeStep, CalmInit, CalmStep, PTL
        DEF Spec, LoopTimeHeard

------------------------------------------------------------------------------
(* The refinement.                                                         *)

(* timer_remaining and timer_expired agree, at the sentinels too.          *)
LEMMA RemainingOK ==
  ASSUME NEW t, NEW w \in Int, t.ending \in Int
  PROVE  /\ Remaining(t, w) \in Nat
         /\ Expired(t, w) <=> Remaining(t, w) = 0
         /\ t.ending = NEVER => Remaining(t, w) = 0
         /\ t.ending /= NEVER /\ t.ending > w => Remaining(t, w) = t.ending - w
         /\ t.ending <= w => Remaining(t, w) = 0
BY DEF Remaining, Expired, Difference, NEVER

(* What the daemon does is what PacedLines promises: data of a client is   *)
(* received, or is nothing to it.                                          *)
LEMMA ReceiveStep == ASSUME TypeOK, ClientData PROVE Paced!Receive \/ UNCHANGED Paced!vars
<1>1. PICK data \in Chunks :
        store' = IF data = <<>> THEN store ELSE Appended(store, data)
  BY DEF ClientData
<1>2. UNCHANGED <<given, last_command, wall, sets>>
  BY DEF ClientData, ghosts
<1>3. PICK n \in 0 .. MaxChunk : data \in [1 .. n -> Bytes]
  BY DEF Chunks
<1>4. CASE data = <<>>
  BY <1>1, <1>2, <1>4 DEF Paced!vars
<1>5. CASE data /= <<>>
  <2>1. n /= 0
    BY <1>3, <1>5
  <2>2. n \in 1 .. MaxChunk
    BY <1>3, <2>1, CommandsAssumption
  <2>3. data \in Paced!Chunks
    BY <1>3, <2>2 DEF Paced!Chunks
  <2>4. Contents(store)' = Contents(store) \o data
    BY <1>1, <1>5, ChunkOK, AppendedOK DEF TypeOK
  <2> QED BY <1>2, <2>3, <2>4 DEF Paced!Receive
<1> QED BY <1>4, <1>5

(* A command goes out after the pause, and is the first line that was      *)
(* received.                                                               *)
LEMMA SendStep == ASSUME TypeOK, TimeInv, ClientCommands, Command PROVE Paced!Send
<1> DEFINE n == NextLength(store)
           text == Contents(store)
<1>1. /\ n \in 1 .. store.used /\ IsStore(store) /\ store' = Consumed(store, n)
      /\ given' = First(store, n) /\ last_command' = TimerReset(CommandPace, wall)
  BY CommandOK DEF TypeOK
<1>2. wall' = wall /\ sets' = sets
  BY DEF ClientCommands
<1>3. /\ store.used \in Nat /\ text \in Seq(Bytes) /\ Len(text) = store.used
      /\ \A i \in 1 .. store.used : text[i] = store.buff[i - 1]
  BY <1>1, WholeOK
<1>4. given' = SubSeq(text, 1, n) /\ Contents(store)' = SubSeq(text, n + 1, Len(text))
  BY <1>1, ConsumedOK
<1>5. store.buff[n - 1] \in Ends /\ \A i \in 0 .. n - 2 : store.buff[i] \notin Ends
  BY <1>1, NextLengthOK
<1> HIDE DEF n
<1>6. Paced!IsCommand(n)
  <2> HIDE DEF text
  <2>1. n \in DOMAIN text /\ text[n] \in Ends
    BY <1>1, <1>3, <1>5
  <2>2. ASSUME NEW i \in 1 .. n - 1 PROVE text[i] \notin Ends
    <3>1. i \in 1 .. store.used /\ i - 1 \in 0 .. n - 2
      BY <1>1, <1>3
    <3> QED BY <1>3, <1>5, <3>1
  <2> QED BY <2>1, <2>2 DEF Paced!IsCommand, text
<1>7. Remaining(last_command, wall) = 0
  BY RemainingOK DEF Command, TimeInv
<1>8. Remaining(last_command, wall)' = CommandPace
  <2>1. last_command'.ending = wall + CommandPace /\ wall \in Nat
    BY <1>1, CommandsAssumption DEF TimerReset, TypeOK
  <2>2. wall /= 0 \/ CommandPace /= 0
    BY CommandsAssumption
  <2> QED BY <1>2, <2>1, <2>2, CommandsAssumption DEF Remaining, Difference, NEVER
<1>9. n \in DOMAIN text
  BY <1>6 DEF Paced!IsCommand
<1> QED BY <1>2, <1>4, <1>6, <1>7, <1>8, <1>9 DEF Paced!Send

(* The time that passes is that of the specification.                      *)
LEMMA TickStep == ASSUME TypeOK, TimeInv, Tick PROVE Paced!Tick \/ UNCHANGED Paced!vars
<1>1. wall' \in {wall, wall + 1} /\ UNCHANGED <<store, given, last_command, sets>>
  BY DEF Tick
<1>2. wall \in Int /\ last_command.ending \in Int
  BY DEF TimeInv
<1>3. \/ Remaining(last_command, wall)' = Remaining(last_command, wall)
      \/ /\ Remaining(last_command, wall) > 0
         /\ Remaining(last_command, wall)' = Remaining(last_command, wall) - 1
  BY <1>1, <1>2 DEF Remaining, Difference
<1> QED BY <1>1, <1>3 DEF Paced!Tick, Paced!vars

(* A clock that is set is a pause that ends elsewhere.                     *)
LEMMA ClockSetStep == ASSUME TypeOK, TimeInv, ClockSet PROVE Paced!ClockSet
<1>1. /\ sets < MaxSets /\ sets' = sets + 1
      /\ UNCHANGED <<store, given, last_command>>
  BY DEF ClockSet
<1>2. TimeInv'
  BY TimeStep DEF Next
<1>3. /\ wall' \in Int /\ last_command.ending \in Int /\ sets' \in 0 .. MaxSets
      /\ last_command.ending /= NEVER => last_command.ending - wall' <= CommandPace + Jump * sets'
  BY <1>1, <1>2 DEF TimeInv
<1> DEFINE m == Jump * MaxSets
           v == Jump * sets'
           r == Remaining(last_command, wall')
<1>4. m \in Nat /\ v \in Nat /\ v <= m
  <2>1. v \in Nat /\ v <= m
    BY <1>3, Above
  <2>2. m \in Nat
    BY CommandsAssumption
  <2> QED BY <2>1, <2>2
<1>5. r \in Nat /\ (r > 0 => last_command.ending /= NEVER /\ r = last_command.ending - wall')
  BY <1>3, RemainingOK
<1>6. last_command.ending /= NEVER => last_command.ending - wall' <= CommandPace + v
  BY <1>3
<1>7. r = Remaining(last_command, wall)'
  BY <1>1
<1> HIDE DEF m, v, r
<1>8. r \in 0 .. CommandPace + m
  BY <1>3, <1>4, <1>5, <1>6, CommandsAssumption
<1> QED BY <1>1, <1>7, <1>8 DEF Paced!ClockSet, m

(* The line buffer, its growth and what it keeps of consumed bytes, and    *)
(* the timer on a clock that may be set, do what PacedLines says: every    *)
(* step of the program is one of its steps, or changes nothing it tells.   *)
THEOREM PacedCorrect == Spec => ImplementsPacedLines
<1>1. Init => Paced!Init
  BY FreshOK, CommandsAssumption DEF Init, Paced!Init, Zeroed, Remaining, NEVER
<1>2. ASSUME TypeOK, TimeInv, [Next]_vars PROVE [Paced!Next]_Paced!vars
  <2>1. CASE ClientData
    BY <1>2, <2>1, ReceiveStep DEF Paced!Next
  <2>2. CASE ClientCommands /\ Command
    BY <1>2, <2>2, SendStep DEF Paced!Next
  <2>3. CASE Tick
    BY <1>2, <2>3, TickStep DEF Paced!Next
  <2>4. CASE ClockSet
    BY <1>2, <2>4, ClockSetStep DEF Paced!Next
  <2>5. CASE UNCHANGED <<store, given, last_command, wall, sets>>
    BY <2>5 DEF Paced!vars
  <2> QED BY <1>2, <2>1, <2>2, <2>3, <2>4, <2>5
          DEF Next, Timeout, SelectFails, Stall, Resume, ClientCommands, NoCommand, SerialWrite,
              vars, ghosts
<1> QED BY <1>1, <1>2, TypeInit, TypeStep, TimeInit, TimeStep, PTL
        DEF Spec, ImplementsPacedLines, Paced!Spec
=============================================================================
