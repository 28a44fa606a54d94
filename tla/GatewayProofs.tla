---------------------------- MODULE GatewayProofs ----------------------------
(***************************************************************************)
(* Proofs about Gateway, for every number of clients and bytes, every size *)
(* of the buffers and every pace: what a client receives of the serial     *)
(* device, what the device receives of the clients, and the pause between  *)
(* two commands.                                                           *)
(***************************************************************************)
EXTENDS Gateway, QueueProofs, FiniteSetTheorems, TLAPS

(* The accepted devices: of one connection each, with its bytes only, and  *)
(* within their capacities.                                                *)
Slot == {s \in [conn : Conns, state : {"connected", "inactive"}, rbuf : Seq(Conns \X Nat),
                tbuf : Positions, linebuf : Seq(Conns \X Nat)] :
           /\ s.rbuf \in BytesOf(s.conn) /\ Len(s.rbuf) <= Cap
           /\ s.linebuf \in BytesOf(s.conn) /\ Len(s.tbuf) <= Cap}

ControlOK ==
  /\ phase \in {"poll", "dispatch", "process", "clients", "exit", "killed"}
  /\ turn \in Nat /\ 1 <= turn /\ turn <= Len(slots) + 1
  /\ ready \subseteq 0 .. 2 * Cardinality(Conns) + 3 /\ stale \in BOOLEAN
  /\ cmdTimer \in 0 .. Pace /\ pacer \in 0 .. CharPace /\ queued \in 0 .. Pace

BuffersOK ==
  /\ serial \in [state : States, rbuf : Positions, tbuf : Seq(Conns \X Nat)]
  /\ Len(serial.rbuf) <= Cap /\ Len(serial.tbuf) <= Cap
  /\ slots \in Seq(Slot)
  /\ copy \in Positions /\ Len(copy) <= CopyCap

WorldOK ==
  /\ port \in [up : BOOLEAN, emitted : 0 .. MaxEmit, taken : 0 .. MaxEmit, faults : 0 .. MaxFaults]
  /\ port.taken <= port.emitted
  /\ backlog \in Seq(Conns) /\ shut \subseteq Conns
  /\ sent \in [Conns -> Nat] /\ taken \in [Conns -> Nat]
  /\ \A c \in Conns : taken[c] <= sent[c] /\ sent[c] <= Sends[c]

GhostsOK ==
  /\ joined \in [Conns -> 0 .. MaxEmit] /\ got \in [Conns -> Positions]
  /\ heard \in Seq(Conns \X Nat)
  /\ missed \in [Conns -> SUBSET (1 .. MaxEmit)] /\ cut \in [Conns -> SUBSET Nat]

(* A connection is in one slot or in one place of the backlog; a slot is   *)
(* given up only when its client has left; and a connection that was not   *)
(* accepted yet has nothing read or written.                               *)
SlotConns == {slots[i].conn : i \in DOMAIN slots}
Apart ==
  /\ \A i, j \in 1 .. Len(slots) : slots[i].conn = slots[j].conn => i = j
  /\ \A i, j \in 1 .. Len(backlog) : backlog[i] = backlog[j] => i = j
  /\ \A i \in 1 .. Len(slots), j \in 1 .. Len(backlog) : slots[i].conn /= backlog[j]
  /\ \A i \in 1 .. Len(slots) : slots[i].state = "inactive" => slots[i].conn \in shut
  /\ \A c \in Conns \ SlotConns : c \in ElementsOf(backlog) \/ c \notin shut =>
       taken[c] = 0 /\ got[c] = <<>>

(* The listener is only reported when somebody waits.                      *)
Awaited == ReadOf(Listener) \in ready => backlog /= <<>>

TypeInv == ControlOK /\ BuffersOK /\ WorldOK /\ GhostsOK /\ Apart /\ Awaited

(* The timer runs as long as the last command is not Pace ticks old.       *)
PaceInv == cmdTimer + queued >= Pace

(* A slot that select reported as readable is open when its turn comes.    *)
ReadersOpen == \A i \in 1 .. Len(slots) : ReadOf(Client(i)) \in ready => IsOpen(slots[i])

(* What a slot holds of its client are the bytes after the m-th, a whole   *)
(* number of lines, which are on the wire or lost: up to the last that was *)
(* read as long as it is open, and when it is not, all but the last lost.  *)
Follows(slot, m, wire, read, lost) ==
  /\ m % LineLen = 0 /\ m + Len(Buffered(slot)) <= read
  /\ IsOpen(slot) => m + Len(Buffered(slot)) = read
  /\ ~IsOpen(slot) => slot.rbuf = <<>>
  /\ \A k \in 1 .. Len(Buffered(slot)) : Buffered(slot)[k] = <<slot.conn, m + k>>
  /\ NumbersOf(slot.conn, wire) = (1 .. m) \ lost
  /\ lost \cap (m + 1 .. read) = m + Len(Buffered(slot)) + 1 .. read
UpInv ==
  /\ \A i \in 1 .. Len(slots) : \E m \in 0 .. taken[slots[i].conn] :
       Follows(slots[i], m, Wire, taken[slots[i].conn], cut[slots[i].conn])
  /\ \A c \in Conns \ SlotConns : NumbersOf(c, Wire) = (1 .. taken[c]) \ cut[c]
  /\ \A c \in Conns : InOrder(c, Wire) /\ cut[c] \subseteq 1 .. taken[c]

(* What the daemon holds of the serial data for all clients: it is in      *)
(* order, and the receive buffer misses nothing but what was lost to all.  *)
Below(A, B) == \A x \in A, y \in B : x < y
SerialInv ==
  /\ phase /= "clients" => copy = <<>>
  /\ Increasing(copy) /\ Increasing(serial.rbuf)
  /\ Below(ElementsOf(copy), ElementsOf(serial.rbuf))
  /\ ElementsOf(copy) \subseteq 1 .. port.taken /\ ElementsOf(serial.rbuf) \subseteq 1 .. port.taken
  /\ \A c \in Conns : missed[c] \subseteq 1 .. port.taken /\ joined[c] <= port.taken
  /\ serial.rbuf /= <<>> => \A c \in Conns :
       ElementsOf(serial.rbuf) = (serial.rbuf[1] .. port.taken) \ missed[c]

(* The way of the serial data to an open client, in four parts: what it    *)
(* got, what its transmit buffer, the copy and the receive buffer hold.    *)
Way(g, t, k, r, from, upto, lost) ==
  /\ Increasing(g) /\ Increasing(t) /\ Increasing(k) /\ Increasing(r)
  /\ Below(ElementsOf(g), ElementsOf(t)) /\ Below(ElementsOf(g), ElementsOf(k))
  /\ Below(ElementsOf(g), ElementsOf(r)) /\ Below(ElementsOf(t), ElementsOf(k))
  /\ Below(ElementsOf(t), ElementsOf(r)) /\ Below(ElementsOf(k), ElementsOf(r))
  /\ ElementsOf(g) \cup ElementsOf(t) \cup ElementsOf(k) \cup ElementsOf(r) = (from + 1 .. upto) \ lost
CopyFor(i) == IF phase = "clients" /\ i >= turn THEN copy ELSE <<>>
RelayInv ==
  \A i \in 1 .. Len(slots) : IsOpen(slots[i]) =>
    Way(got[slots[i].conn], slots[i].tbuf, CopyFor(i), serial.rbuf,
        joined[slots[i].conn], port.taken, missed[slots[i].conn])

(* Until the tty goes away, data waits for a client that stays and keeps   *)
(* reading only until its socket is written to in the same pass; so its    *)
(* transmit buffer is empty when the copy of the next data comes, and the  *)
(* copy fits.                                                              *)
Waits(i) == slots[i].conn \notin Slow \cup shut /\ slots[i].tbuf /= <<>>
Due(i) == /\ phase = "poll" => ~stale
          /\ phase = "dispatch" => WriteOf(Client(i)) \in ready
          /\ phase /= "process" /\ (phase = "clients" => i < turn)
FastInv ==
  port.faults = 0 =>
    /\ port.up /\ FastMissNothing
    /\ phase = "clients" => Len(copy) <= Cap
    /\ \A i \in 1 .. Len(slots) : Waits(i) => Due(i)

(* A tty that takes its output at once, a thread that is not preempted     *)
(* inside hdmi2usb_process, and lines that fit in the transmit buffer: as  *)
(* long as nobody leaves, the buffer is empty when a line comes to it.     *)
QuietPort == /\ ~SlowPort /\ ~Preempted /\ Pace > 0 /\ LineLen <= Cap
             /\ OpenResults \subseteq {"connected", "inactive"}
QuietInv ==
  QuietPort /\ Undisturbed =>
    /\ port.up /\ ~stale /\ LinesWhole /\ \A c \in Conns : cut[c] = {}
    /\ Wire /= <<>> => NewLine(Wire[Len(Wire)])
    /\ serial.state = "closed" => phase = "poll"
    /\ ~IsOpen(serial) \/ phase = "process" => serial.tbuf = <<>>
    /\ phase = "clients" => IsOpen(serial) /\ (serial.tbuf = <<>> \/ cmdTimer > 0)

------------------------------------------------------------------------------
(* The capacities, the slots and the events.                               *)

(* A slot is clean when its fields are; the type of a slot's fields.       *)
LEMMA CapOK == /\ Cap \in Nat /\ Cap >= 1 /\ CopyCap \in Nat /\ CopyCap >= Cap
               /\ MaxEmit \in Nat /\ Pace \in Nat /\ CharPace \in Nat /\ MaxFaults \in Nat
               /\ LineLen \in Nat \ {0} /\ Sends \in [Conns -> Nat]
BY GatewayAssumption DEF Cap, CopyCap, Capacity

(* What a client has sent are pairs of its name and a number.              *)
LEMMA BytesOK ==
  ASSUME NEW c \in Conns, NEW s \in BytesOf(c)
  PROVE  /\ s \in Seq({c} \X (1 .. Sends[c])) /\ s \in Seq(Conns \X Nat) /\ Len(s) \in Nat
         /\ \A k \in 1 .. Len(s) : s[k][1] = c /\ s[k][2] \in 1 .. Sends[c]
<1>1. Sends[c] \in Nat
  BY CapOK
<1>2. s \in Seq({c} \X (1 .. Sends[c])) /\ Len(s) \in Nat
  BY DEF BytesOf
<1>3. \A k \in 1 .. Len(s) : s[k] \in {c} \X (1 .. Sends[c])
  BY <1>2, ElementOfSeq
<1>4. \A k \in 1 .. Len(s) : s[k] \in Conns \X Nat /\ s[k][1] = c /\ s[k][2] \in 1 .. Sends[c]
  BY <1>1, <1>3
<1>5. s \in Seq(Conns \X Nat)
  BY <1>2, <1>4
<1> QED BY <1>2, <1>4, <1>5

(* The fields of a slot; and a slot made of such fields.                   *)
LEMMA SlotOK ==
  ASSUME NEW s \in Slot
  PROVE  /\ s = [conn |-> s.conn, state |-> s.state, rbuf |-> s.rbuf, tbuf |-> s.tbuf,
                 linebuf |-> s.linebuf]
         /\ s.conn \in Conns /\ s.state \in {"connected", "inactive"}
         /\ s.rbuf \in BytesOf(s.conn) /\ Len(s.rbuf) <= Cap
         /\ s.tbuf \in Positions /\ Len(s.tbuf) <= Cap /\ s.linebuf \in BytesOf(s.conn)
         /\ s.rbuf \in Seq(Conns \X Nat) /\ s.linebuf \in Seq(Conns \X Nat)
BY DEF Slot

(* A device, field by field.                                               *)
LEMMA SlotMade ==
  ASSUME NEW c \in Conns, NEW st \in {"connected", "inactive"},
         NEW r \in BytesOf(c), Len(r) <= Cap, NEW t \in Positions, Len(t) <= Cap,
         NEW l \in BytesOf(c)
  PROVE  [conn |-> c, state |-> st, rbuf |-> r, tbuf |-> t, linebuf |-> l] \in Slot
<1>1. r \in Seq(Conns \X Nat) /\ l \in Seq(Conns \X Nat)
  BY BytesOK
<1> QED BY <1>1 DEF Slot

(* The devices are a sequence.                                             *)
LEMMA SlotsOK ==
  ASSUME BuffersOK
  PROVE  /\ Len(slots) \in Nat /\ DOMAIN slots = 1 .. Len(slots)
         /\ \A i \in 1 .. Len(slots) : slots[i] \in Slot
<1>1. slots \in Seq(Slot)
  BY DEF BuffersOK
<1> QED BY <1>1, ElementOfSeq

(* Every slot has a connection of its own, so there are no more of them.   *)
LEMMA SlotCount ==
  ASSUME BuffersOK, Apart
  PROVE  Len(slots) \in Nat /\ Cardinality(Conns) \in Nat /\ Len(slots) <= Cardinality(Conns)
<1> DEFINE n == Len(slots)
           f == [i \in 1 .. n |-> slots[i].conn]
<1>1. n \in Nat /\ \A i \in 1 .. n : slots[i] \in Slot
  BY SlotsOK
<1>2. \A i \in 1 .. n : slots[i].conn \in Conns
  BY <1>1, SlotOK
<1>3. \A i, j \in 1 .. n : slots[i].conn = slots[j].conn => i = j
  BY DEF Apart
<1>4. IsFiniteSet(Conns)
  BY GatewayAssumption
<1> HIDE DEF n
<1>5. f \in Injection(1 .. n, Conns)
  BY <1>2, <1>3 DEF Injection, IsInjective
<1>6. Cardinality(1 .. n) <= Cardinality(Conns) /\ Cardinality(Conns) \in Nat
  BY <1>4, <1>5, FS_Injection, FS_CardinalityType
<1>7. Cardinality(1 .. n) = n
  BY <1>1, FS_Interval
<1> QED BY <1>1, <1>6, <1>7 DEF n

(* The events select may report are those of the devices.                  *)
LEMMA EventsOK ==
  ASSUME BuffersOK, Apart
  PROVE  Readable \cup WantsWrite \subseteq 0 .. 2 * Cardinality(Conns) + 3
<1> DEFINE top == Cardinality(Conns)
<1>1. Len(slots) \in Nat /\ top \in Nat /\ Len(slots) <= top /\ DOMAIN slots = 1 .. Len(slots)
  BY SlotCount, SlotsOK
<1> HIDE DEF top
<1>2. \A i \in 1 .. Len(slots) : /\ ReadOf(Client(i)) \in 0 .. 2 * top + 3
                                 /\ WriteOf(Client(i)) \in 0 .. 2 * top + 3
  BY <1>1 DEF ReadOf, WriteOf, Client
<1>3. /\ ReadOf(Serial) \in 0 .. 2 * top + 3 /\ WriteOf(Serial) \in 0 .. 2 * top + 3
      /\ ReadOf(Listener) \in 0 .. 2 * top + 3
  BY <1>1 DEF ReadOf, WriteOf, Serial, Listener
<1>4. Readable \subseteq 0 .. 2 * top + 3
  BY <1>1, <1>2, <1>3 DEF Readable
<1>5. WantsWrite \subseteq 0 .. 2 * top + 3
  BY <1>1, <1>2, <1>3 DEF WantsWrite, Pending
<1> QED BY <1>4, <1>5 DEF top

------------------------------------------------------------------------------
(* The type invariant.                                                     *)

(* The pairs of sequences an action may join.                              *)
LEMMA JoinedOK ==
  ASSUME NEW S, NEW a \in Seq(S), NEW b \in Seq(S)
  PROVE  a \o b \in Seq(S) /\ Len(a \o b) = Len(a) + Len(b)
OBVIOUS

(* The numbers the serial device's bytes are.                              *)
LEMMA NumbersOK ==
  ASSUME NEW m \in Nat, NEW n \in Nat, m + n <= MaxEmit
  PROVE  /\ Numbers(m, m + n) \in Positions /\ Len(Numbers(m, m + n)) = n
         /\ \A i \in 1 .. n : Numbers(m, m + n)[i] = m + i
<1>1. Numbers(m, m + n) = [i \in 1 .. n |-> m + i]
  BY DEF Numbers
<1>2. MaxEmit \in Nat
  BY CapOK
<1>3. \A i \in 1 .. n : m + i \in 1 .. MaxEmit
  BY <1>2
<1> DEFINE f == [i \in 1 .. n |-> m + i]
<1>4. f \in Seq(1 .. MaxEmit) /\ Len(f) = n
  BY <1>3
<1>5. \A i \in 1 .. n : f[i] = m + i
  OBVIOUS
<1> HIDE DEF f
<1>6. Numbers(m, m + n) = f
  BY <1>1 DEF f
<1> QED BY <1>4, <1>5, <1>6 DEF Positions

(* What a sequence holds.                                                  *)
LEMMA ElementsOK ==
  ASSUME NEW S, NEW a \in Seq(S)
  PROVE  /\ Len(a) \in Nat /\ DOMAIN a = 1 .. Len(a)
         /\ ElementsOf(a) \subseteq S /\ \A i \in 1 .. Len(a) : a[i] \in ElementsOf(a)
         /\ \A x \in ElementsOf(a) : \E i \in 1 .. Len(a) : x = a[i]
BY DEF ElementsOf

(* Dispatching leaves the events that are left.                            *)
LEMMA ControlDispatch ==
  ASSUME ControlOK, NEW e, Dispatch(e), Len(slots) \in Nat, Len(slots') \in Nat,
         Len(slots') >= Len(slots), stale' \in BOOLEAN, pacer' \in 0 .. CharPace, queued' = queued
  PROVE  ControlOK'
BY DEF ControlOK, Dispatch

(* A handler that changes one slot, of the same connection.                *)
LEMMA SlotStep ==
  ASSUME TypeInv, NEW i \in 1 .. Len(slots), NEW s \in Slot,
         slots' = [slots EXCEPT ![i] = s], s.conn = slots[i].conn,
         s.state = "inactive" => slots[i].conn \in shut
  PROVE  /\ slots' \in Seq(Slot) /\ Len(slots') = Len(slots)
         /\ slots'[i] = s /\ \A j \in 1 .. Len(slots) : j /= i => slots'[j] = slots[j]
         /\ \A j \in 1 .. Len(slots) : slots'[j].conn = slots[j].conn
         /\ SlotConns' = SlotConns /\ slots[i].conn \in Conns \cap SlotConns
         /\ (UNCHANGED <<backlog, shut>> /\ 
             (\A c \in Conns : c /= slots[i].conn => taken'[c] = taken[c] /\ got'[c] = got[c])) => Apart'
<1>1. slots \in Seq(Slot) /\ Len(slots) \in Nat /\ DOMAIN slots = 1 .. Len(slots)
  BY SlotsOK DEF TypeInv, BuffersOK
<1>2. /\ slots' \in Seq(Slot) /\ Len(slots') = Len(slots)
      /\ slots'[i] = s /\ \A j \in 1 .. Len(slots) : j /= i => slots'[j] = slots[j]
  BY <1>1, ExceptSeq
<1>3. \A j \in 1 .. Len(slots) : slots'[j].conn = slots[j].conn
  BY <1>2
<1>4. DOMAIN slots' = 1 .. Len(slots)
  BY <1>1, <1>2
<1>5. SlotConns' = SlotConns
  BY <1>1, <1>3, <1>4 DEF SlotConns
<1>6. slots[i] \in Slot
  BY <1>1, ElementOfSeq
<1>7. slots[i].conn \in Conns \cap SlotConns
  BY <1>1, <1>6, SlotOK DEF SlotConns
<1>8. ASSUME UNCHANGED <<backlog, shut>>,
             \A c \in Conns : c /= slots[i].conn => taken'[c] = taken[c] /\ got'[c] = got[c]
      PROVE  Apart'
  <2>1. Apart
    BY DEF TypeInv
  <2>2. \A j \in 1 .. Len(slots) : slots'[j].state = "inactive" => slots[j].conn \in shut
    BY <1>2, <2>1 DEF Apart
  <2>3. \A c \in Conns \ SlotConns : c \in ElementsOf(backlog) \/ c \notin shut => taken'[c] = 0 /\ got'[c] = <<>>
    BY <1>7, <1>8, <2>1 DEF Apart
  <2>4. ElementsOf(backlog)' = ElementsOf(backlog)
    BY <1>8 DEF ElementsOf
  <2>5. (\A j, k \in 1 .. Len(slots) : slots[j].conn = slots[k].conn => j = k)'
    BY <1>2, <1>3, <2>1 DEF Apart
  <2>6. (\A j, k \in 1 .. Len(backlog) : backlog[j] = backlog[k] => j = k)'
    BY <1>8, <2>1 DEF Apart
  <2>7. (\A j \in 1 .. Len(slots), k \in 1 .. Len(backlog) : slots[j].conn /= backlog[k])'
    BY <1>2, <1>3, <1>8, <2>1 DEF Apart
  <2>8. (\A j \in 1 .. Len(slots) : slots[j].state = "inactive" => slots[j].conn \in shut)'
    BY <1>2, <1>3, <1>8, <2>2
  <2>9. (\A c \in Conns \ SlotConns : c \in ElementsOf(backlog) \/ c \notin shut =>
       taken[c] = 0 /\ got[c] = <<>>)'
    BY <1>5, <1>8, <2>3, <2>4
  <2> QED BY <2>5, <2>6, <2>7, <2>8, <2>9 DEF Apart
<1> QED BY <1>2, <1>3, <1>5, <1>7, <1>8

(* The new slot, or the slot taken over, of an accepted connection.        *)
LEMMA FreeOK ==
  ASSUME TypeInv, FreeSlots /= {}
  PROVE  Least(FreeSlots) \in FreeSlots /\ Least(FreeSlots) \in 1 .. Len(slots)
<1>1. FreeSlots \subseteq 1 .. Len(slots) /\ Len(slots) \in Nat
  BY SlotsOK DEF TypeInv, FreeSlots
<1>2. FreeSlots \in SUBSET Nat
  BY <1>1
<1>3. \E x \in FreeSlots : \A y \in FreeSlots : x <= y
  BY <1>2, LeastNumber
<1>4. Least(FreeSlots) \in FreeSlots
  BY <1>3 DEF Least
<1> QED BY <1>1, <1>4

(* A connection that was accepted has empty buffers.                       *)
LEMMA FreshOK == ASSUME NEW c \in Conns PROVE Fresh(c) \in Slot
<1>1. <<>> \in BytesOf(c) /\ <<>> \in Positions /\ Len(<<>>) = 0
  BY DEF BytesOf, Positions
<1> QED BY <1>1, SlotMade, CapOK DEF Fresh

(* What accepting a connection does to the slots and the backlog: the      *)
(* connection gets a slot, new or of one that left.                        *)
LEMMA AcceptSlots ==
  ASSUME TypeInv, Accept, backlog /= <<>>
  PROVE  \E i \in 1 .. Len(slots) + 1 :
           /\ Head(backlog) \in Conns /\ Fresh(Head(backlog)) \in Slot
           /\ i \in 1 .. Len(slots') /\ slots'[i] = Fresh(Head(backlog))
           /\ slots' \in Seq(Slot) /\ Len(slots') \in {Len(slots), Len(slots) + 1}
           /\ \A j \in 1 .. Len(slots') : j /= i => j \in 1 .. Len(slots) /\ slots'[j] = slots[j]
           /\ \A j \in 1 .. Len(slots) : j /= i => j \in 1 .. Len(slots')
           /\ i \in 1 .. Len(slots) => slots[i].state = "inactive" /\ slots[i].conn \in shut
           /\ cut' = IF i \in 1 .. Len(slots)
                     THEN [cut EXCEPT ![slots[i].conn] =
                             @ \cup {b[2] : b \in ElementsOf(slots[i].linebuf)}]
                     ELSE cut
<1> DEFINE c == Head(backlog)
<1>1. backlog \in Seq(Conns) /\ slots \in Seq(Slot) /\ Len(slots) \in Nat
  BY DEF TypeInv, WorldOK, BuffersOK
<1>2. c \in Conns
  BY <1>1
<1>3. Fresh(c) \in Slot
  BY <1>2, FreshOK
<1> HIDE DEF c
<1>4. CASE FreeSlots = {}
  <2>1. slots' = Append(slots, Fresh(c)) /\ cut' = cut
    BY <1>4 DEF Accept, c
  <2> DEFINE i == Len(slots) + 1
  <2>2. /\ slots' \in Seq(Slot) /\ Len(slots') = i /\ slots'[i] = Fresh(c)
        /\ \A j \in 1 .. Len(slots) : slots'[j] = slots[j]
    BY <1>1, <1>3, <2>1, AppendProperties
  <2>3. i \in 1 .. Len(slots) + 1 /\ i \notin 1 .. Len(slots)
    BY <1>1
  <2> HIDE DEF i
  <2>4. \A j \in 1 .. Len(slots') : j /= i => j \in 1 .. Len(slots) /\ slots'[j] = slots[j]
    BY <1>1, <2>2 DEF i
  <2>5. Len(slots') = Len(slots) + 1 /\ i \in 1 .. Len(slots')
    BY <1>1, <2>2 DEF i
  <2>6. \A j \in 1 .. Len(slots) : j \in 1 .. Len(slots')
    BY <1>1, <2>5
  <2> QED BY <1>2, <1>3, <2>1, <2>2, <2>3, <2>4, <2>5, <2>6 DEF c
<1>5. CASE FreeSlots /= {}
  <2> DEFINE i == Least(FreeSlots)
  <2>1. i \in FreeSlots /\ i \in 1 .. Len(slots)
    BY <1>5, FreeOK
  <2>2. slots[i].state = "inactive"
    BY <2>1 DEF FreeSlots
  <2>3. slots[i].conn \in shut
    BY <2>1, <2>2 DEF TypeInv, Apart
  <2>4. /\ slots' = [slots EXCEPT ![i] = Fresh(c)]
        /\ cut' = [cut EXCEPT ![slots[i].conn] = @ \cup {b[2] : b \in ElementsOf(slots[i].linebuf)}]
    BY <1>5 DEF Accept, c
  <2> HIDE DEF i
  <2>5. /\ slots' \in Seq(Slot) /\ Len(slots') = Len(slots) /\ slots'[i] = Fresh(c)
        /\ \A j \in 1 .. Len(slots) : j /= i => slots'[j] = slots[j]
    BY <1>1, <1>3, <2>1, <2>4, ExceptSeq
  <2>6. i \in 1 .. Len(slots) + 1
    BY <1>1, <2>1
  <2> QED BY <1>2, <1>3, <2>1, <2>2, <2>3, <2>4, <2>5, <2>6 DEF c
<1> QED BY <1>4, <1>5

(* A dispatched event is not the listener's, or the listener is done.      *)
LEMMA AwaitedDispatch ==
  ASSUME Awaited, NEW e, Dispatch(e), backlog' = backlog \/ e = ReadOf(Listener)
  PROVE  Awaited'
<1>1. ready' = ready \ {e}
  BY DEF Dispatch
<1> QED BY <1>1 DEF Awaited

(* The types, at the start.                                                *)
LEMMA TypeInit == Init => TypeInv
<1> SUFFICES ASSUME Init PROVE TypeInv
  OBVIOUS
<1>1. ControlOK
  <2>1. phase = "poll" /\ turn = 1 /\ ready = {} /\ stale = FALSE /\ Len(slots) = 0
    BY DEF Init
  <2>2. cmdTimer \in 0 .. Pace /\ pacer \in 0 .. CharPace /\ queued \in 0 .. Pace
    BY CapOK DEF Init
  <2>3. ready \subseteq 0 .. 2 * Cardinality(Conns) + 3
    BY <2>1
  <2>4. turn \in Nat /\ 1 <= turn /\ turn <= Len(slots) + 1
    BY <2>1
  <2>5. stale \in BOOLEAN
    BY <2>1
  <2> QED BY <2>1, <2>2, <2>3, <2>4, <2>5 DEF ControlOK
<1>2. BuffersOK
  BY CapOK DEF Init, BuffersOK, States, Positions
<1>3. WorldOK
  BY CapOK DEF Init, WorldOK
<1>4. GhostsOK
  BY CapOK DEF Init, GhostsOK, Positions
<1>5. Apart
  BY DEF Init, Apart
<1>6. Awaited
  BY DEF Init, Awaited
<1> QED BY <1>1, <1>2, <1>3, <1>4, <1>5, <1>6 DEF TypeInv

(* The steps of the world.                                                 *)
LEMMA TypeWorld ==
  ASSUME TypeInv, Emit \/ Unplug \/ Tick
  PROVE  TypeInv'
<1> USE CapOK
<1>1. CASE Emit
  <2>0. WorldOK /\ port' = [port EXCEPT !.emitted = @ + 1] /\ port.emitted < MaxEmit
        /\ UNCHANGED <<backlog, sent, shut, taken>>
    BY <1>1 DEF Emit, TypeInv, ghosts
  <2>1. WorldOK'
    <3>1. /\ port \in [up : BOOLEAN, emitted : 0 .. MaxEmit, taken : 0 .. MaxEmit, faults : 0 .. MaxFaults]
          /\ port.taken <= port.emitted
      BY <2>0 DEF WorldOK
    <3>2. port' = [up |-> port.up, emitted |-> port.emitted + 1, taken |-> port.taken,
                   faults |-> port.faults]
      BY <2>0, <3>1
    <3>3. port.emitted + 1 \in 0 .. MaxEmit /\ port.taken <= port.emitted + 1
      BY <2>0, <3>1
    <3> QED BY <2>0, <3>1, <3>2, <3>3 DEF WorldOK
  <2>2. ControlOK' /\ BuffersOK' /\ GhostsOK' /\ Apart' /\ Awaited'
    BY <1>1 DEF Emit, TypeInv, daemon, ghosts, ControlOK, BuffersOK, GhostsOK, Apart, Awaited,
                SlotConns, ElementsOf
  <2> QED BY <2>1, <2>2 DEF TypeInv
<1>2. CASE Unplug
  <2>0. WorldOK /\ UNCHANGED <<backlog, sent, shut, taken>> /\ port.faults < MaxFaults
        /\ port' = [port EXCEPT !.up = FALSE, !.faults = @ + 1, !.taken = port.emitted]
    BY <1>2 DEF Unplug, TypeInv, ghosts
  <2>1. WorldOK'
    <3>1. /\ port \in [up : BOOLEAN, emitted : 0 .. MaxEmit, taken : 0 .. MaxEmit, faults : 0 .. MaxFaults]
      BY <2>0 DEF WorldOK
    <3>2. port' = [up |-> FALSE, emitted |-> port.emitted, taken |-> port.emitted,
                   faults |-> port.faults + 1]
      BY <2>0, <3>1
    <3>3. port.faults + 1 \in 0 .. MaxFaults
      BY <2>0, <3>1
    <3>4. /\ port' \in [up : BOOLEAN, emitted : 0 .. MaxEmit, taken : 0 .. MaxEmit, faults : 0 .. MaxFaults]
          /\ port'.taken <= port'.emitted
      BY <3>1, <3>2, <3>3
    <3>5. WorldOK /\ UNCHANGED <<backlog, sent, shut, taken>>
      BY <2>0
    <3> QED BY <3>4, <3>5 DEF WorldOK
  <2>2. ControlOK' /\ BuffersOK' /\ Apart' /\ Awaited'
    BY <1>2 DEF Unplug, TypeInv, daemon, ControlOK, BuffersOK, Apart, Awaited, SlotConns, ElementsOf
  <2>3. /\ port.taken \in 0 .. MaxEmit /\ port.emitted \in 0 .. MaxEmit
        /\ missed' = [c \in Conns |-> missed[c] \cup (port.taken + 1 .. port.emitted)]
        /\ UNCHANGED <<taken, joined, got, heard, cut>>
    BY <1>2 DEF Unplug, TypeInv, WorldOK
  <2>4. port.taken + 1 .. port.emitted \subseteq 1 .. MaxEmit
    BY <2>3
  <2>5. GhostsOK'
    BY <2>3, <2>4 DEF TypeInv, GhostsOK
  <2> QED BY <2>1, <2>2, <2>5 DEF TypeInv
<1>3. CASE Tick
  <2>1. ControlOK'
    BY <1>3 DEF Tick, TypeInv, ControlOK, Lesser
  <2>2. BuffersOK' /\ WorldOK' /\ GhostsOK' /\ Apart' /\ Awaited'
    BY <1>3 DEF Tick, TypeInv, world, WorldOK, BuffersOK, GhostsOK, Apart, Awaited, SlotConns, ElementsOf
  <2> QED BY <2>1, <2>2 DEF TypeInv
<1> QED BY <1>1, <1>2, <1>3

(* The steps of the clients.                                               *)
LEMMA TypeClient ==
  ASSUME TypeInv, NEW c \in Conns, ClientSide(c)
  PROVE  TypeInv'
<1> USE CapOK
<1>1. CASE Connect(c)
  <2>1. backlog \in Seq(Conns) /\ c \notin Known /\ c \notin shut /\ backlog' = Append(backlog, c)
    BY <1>1 DEF Connect, TypeInv, WorldOK
  <2>2. /\ backlog' \in Seq(Conns) /\ Len(backlog') = Len(backlog) + 1
        /\ Len(backlog) \in Nat /\ backlog'[Len(backlog) + 1] = c
        /\ \A j \in 1 .. Len(backlog) : backlog'[j] = backlog[j]
    BY <2>1, AppendProperties
  <2>3. /\ UNCHANGED <<phase, turn, ready, stale, serial, slots, copy, cmdTimer, pacer,
                       port, sent, shut, taken, joined, got, heard, missed, cut, queued>>
    BY <1>1 DEF Connect, daemon, ghosts
  <2>4. ControlOK' /\ BuffersOK' /\ GhostsOK'
    BY <2>3 DEF TypeInv, ControlOK, BuffersOK, GhostsOK
  <2>5. WorldOK'
    BY <2>2, <2>3 DEF TypeInv, WorldOK
  <2>6. Awaited'
    BY <2>2, <2>3 DEF Awaited
  <2>7. Apart'
    <3>1. Apart /\ DOMAIN slots = 1 .. Len(slots)
      BY SlotsOK DEF TypeInv
    <3>2. /\ \A i \in 1 .. Len(slots) : slots[i].conn /= c
          /\ \A i \in 1 .. Len(backlog) : backlog[i] /= c
      BY <2>1, <2>2, <3>1 DEF Known, ElementsOf
    <3>3. (\A i, j \in 1 .. Len(backlog) : backlog[i] = backlog[j] => i = j)'
      <4> SUFFICES ASSUME NEW i \in 1 .. Len(backlog)', NEW j \in 1 .. Len(backlog)',
                          backlog'[i] = backlog'[j]
                   PROVE  i = j
        OBVIOUS
      <4>1. i \in 1 .. Len(backlog) \/ i = Len(backlog) + 1
        BY <2>2
      <4>2. j \in 1 .. Len(backlog) \/ j = Len(backlog) + 1
        BY <2>2
      <4> QED BY <2>2, <3>1, <3>2, <4>1, <4>2 DEF Apart
    <3>4. (\A i \in 1 .. Len(slots), j \in 1 .. Len(backlog) : slots[i].conn /= backlog[j])'
      <4> SUFFICES ASSUME NEW i \in 1 .. Len(slots), NEW j \in 1 .. Len(backlog)'
                   PROVE  slots[i].conn /= backlog'[j]
        BY <2>3
      <4>1. j \in 1 .. Len(backlog) \/ j = Len(backlog) + 1
        BY <2>2
      <4> QED BY <2>2, <3>1, <3>2, <4>1 DEF Apart
    <3>5. (\A d \in Conns \ SlotConns : d \in ElementsOf(backlog) \/ d \notin shut =>
              taken[d] = 0 /\ got[d] = <<>>)'
      <4> SUFFICES ASSUME NEW d \in Conns \ SlotConns, d \in ElementsOf(backlog') \/ d \notin shut
                   PROVE  taken[d] = 0 /\ got[d] = <<>>
        BY <2>3 DEF SlotConns, ElementsOf
      <4>1. CASE d \notin shut
        BY <3>1, <4>1 DEF Apart
      <4>2. CASE d \in ElementsOf(backlog')
        <5>1. PICK i \in 1 .. Len(backlog') : d = backlog'[i]
          BY <2>2, <4>2 DEF ElementsOf
        <5>2. i \in 1 .. Len(backlog) \/ i = Len(backlog) + 1
          BY <2>2
        <5>3. CASE i \in 1 .. Len(backlog)
          <6>1. d \in ElementsOf(backlog)
            BY <2>1, <2>2, <5>1, <5>3 DEF ElementsOf
          <6> QED BY <3>1, <6>1 DEF Apart
        <5>4. CASE i = Len(backlog) + 1
          BY <2>1, <2>2, <3>1, <5>1, <5>4 DEF Apart
        <5> QED BY <5>2, <5>3, <5>4
      <4> QED BY <4>1, <4>2
    <3> QED BY <2>3, <3>1, <3>3, <3>4, <3>5 DEF Apart
  <2> QED BY <2>4, <2>5, <2>6, <2>7 DEF TypeInv
<1>2. CASE Send(c)
  <2>1. PICK n \in sent[c] + 1 .. Sends[c] : sent' = [sent EXCEPT ![c] = n]
    BY <1>2 DEF Send
  <2>2. WorldOK'
    BY <1>2, <2>1 DEF Send, TypeInv, WorldOK, ghosts
  <2>3. /\ UNCHANGED <<phase, turn, ready, stale, serial, slots, copy, cmdTimer, pacer,
                       port, backlog, shut, taken, joined, got, heard, missed, cut, queued>>
    BY <1>2 DEF Send, daemon, ghosts
  <2>4. ControlOK' /\ BuffersOK' /\ GhostsOK' /\ Awaited'
    BY <2>3 DEF TypeInv, ControlOK, BuffersOK, GhostsOK, Awaited
  <2>5. Apart'
    BY <2>3 DEF TypeInv, Apart, SlotConns, ElementsOf
  <2> QED BY <2>2, <2>4, <2>5 DEF TypeInv
<1>3. CASE Shut(c)
  <2>1. WorldOK'
    BY <1>3 DEF Shut, TypeInv, WorldOK, ghosts
  <2>2. ControlOK' /\ BuffersOK' /\ GhostsOK' /\ Awaited'
    BY <1>3 DEF Shut, TypeInv, daemon, ghosts, ControlOK, BuffersOK, GhostsOK, Awaited
  <2>3. Apart'
    BY <1>3 DEF Shut, TypeInv, daemon, ghosts, Apart, SlotConns, ElementsOf
  <2> QED BY <2>1, <2>2, <2>3 DEF TypeInv
<1> QED BY <1>1, <1>2, <1>3 DEF ClientSide

(* The handlers of the serial device and its place in the masks.           *)
LEMMA TypePoll ==
  ASSUME TypeInv, Poll
  PROVE  TypeInv'
<1>1. UNCHANGED <<turn, stale, slots, copy, cmdTimer, pacer, backlog, sent, shut,
                  taken, joined, got, heard, missed, cut, queued>>
  BY DEF Poll, ghosts
<1>2. ready' \subseteq 0 .. 2 * Cardinality(Conns) + 3 /\ ready' \subseteq Readable \cup WantsWrite
  <2>1. Readable \cup WantsWrite \subseteq 0 .. 2 * Cardinality(Conns) + 3
    BY EventsOK DEF TypeInv
  <2>2. ready' \subseteq Readable \cup WantsWrite
    BY DEF Poll, Select
  <2> QED BY <2>1, <2>2
<1>3. phase' \in {"process", "dispatch"}
  BY DEF Poll
<1>4. ControlOK'
  BY <1>1, <1>2, <1>3 DEF TypeInv, ControlOK
<1>5. ASSUME UNCHANGED <<serial, port>> PROVE BuffersOK' /\ WorldOK'
  BY <1>1, <1>5 DEF TypeInv, BuffersOK, WorldOK
<1>6. ASSUME \E outcome \in OpenResults :
                 /\ serial' = [serial EXCEPT !.state = outcome]
                 /\ port' = [port EXCEPT !.up = @ \/ outcome = "connected"]
      PROVE  BuffersOK' /\ WorldOK'
  <2>1. PICK outcome \in OpenResults :
                 /\ serial' = [serial EXCEPT !.state = outcome]
                 /\ port' = [port EXCEPT !.up = @ \/ outcome = "connected"]
    BY <1>6
  <2>2. outcome \in States
    BY GatewayAssumption DEF States
  <2>3. BuffersOK'
    BY <1>1, <2>1, <2>2 DEF TypeInv, BuffersOK
  <2>4. /\ port' \in [up : BOOLEAN, emitted : 0 .. MaxEmit, taken : 0 .. MaxEmit, faults : 0 .. MaxFaults]
        /\ port'.taken <= port'.emitted
    <3>1. port \in [up : BOOLEAN, emitted : 0 .. MaxEmit, taken : 0 .. MaxEmit, faults : 0 .. MaxFaults]
          /\ port.taken <= port.emitted
      BY DEF TypeInv, WorldOK
    <3>2. PICK up \in BOOLEAN : port' = [port EXCEPT !.up = up]
      BY <2>1, <3>1
    <3> QED BY <3>1, <3>2
  <2>5. WorldOK'
    BY <1>1, <2>4 DEF TypeInv, WorldOK
  <2> QED BY <2>3, <2>5
<1>7. BuffersOK' /\ WorldOK'
  BY <1>5, <1>6 DEF Poll, Reopen
<1>8. GhostsOK' /\ Apart'
  BY <1>1 DEF TypeInv, GhostsOK, Apart, SlotConns, ElementsOf
<1>9. Awaited'
  <2>1. ReadOf(Listener) \notin WantsWrite
    <3>1. DOMAIN slots = 1 .. Len(slots) /\ Len(slots) \in Nat
      BY SlotsOK DEF TypeInv
    <3> QED BY <3>1 DEF WantsWrite, Pending, ReadOf, WriteOf, Serial, Listener, Client
  <2>2. ReadOf(Listener) \in Readable => backlog /= <<>>
    <3>1. DOMAIN slots = 1 .. Len(slots) /\ Len(slots) \in Nat
      BY SlotsOK DEF TypeInv
    <3>2. \A i \in 1 .. Len(slots) : ReadOf(Client(i)) /= ReadOf(Listener)
      BY <3>1 DEF ReadOf, Client, Listener
    <3>3. ReadOf(Serial) /= ReadOf(Listener)
      BY DEF ReadOf, Serial, Listener
    <3> QED BY <3>1, <3>2, <3>3 DEF Readable
  <2> QED BY <1>1, <1>2, <2>1, <2>2 DEF Awaited
<1> QED BY <1>4, <1>7, <1>8, <1>9 DEF TypeInv

(* The handlers of the serial device.                                      *)
LEMMA TypeSerial ==
  ASSUME TypeInv, SerialRead \/ SerialEof \/ SerialWrite
  PROVE  TypeInv'
<1>1. PICK e : Dispatch(e)
  BY DEF SerialRead, SerialEof, SerialWrite
<1>2. UNCHANGED <<slots, backlog, sent, shut, taken, joined, got, queued>>
  BY DEF SerialRead, SerialEof, SerialWrite, world, ghosts
<1>3. UNCHANGED copy
  BY <1>1 DEF Dispatch
<1>4. Len(slots) \in Nat /\ ControlOK /\ BuffersOK /\ WorldOK /\ GhostsOK
  BY SlotsOK DEF TypeInv
<1>5. Apart' /\ Awaited'
  <2>1. Awaited'
    BY <1>1, <1>2, AwaitedDispatch DEF TypeInv
  <2> QED BY <1>2, <2>1 DEF TypeInv, Apart, SlotConns, ElementsOf
<1>6. /\ serial.state \in States /\ serial.rbuf \in Positions /\ serial.tbuf \in Seq(Conns \X Nat)
      /\ Len(serial.rbuf) \in Nat /\ Len(serial.rbuf) <= Cap
      /\ Len(serial.tbuf) \in Nat /\ Len(serial.tbuf) <= Cap
      /\ serial = [state |-> serial.state, rbuf |-> serial.rbuf, tbuf |-> serial.tbuf]
  BY <1>4 DEF BuffersOK, Positions
<1>7. /\ port \in [up : BOOLEAN, emitted : 0 .. MaxEmit, taken : 0 .. MaxEmit, faults : 0 .. MaxFaults]
      /\ port.taken <= port.emitted
  BY <1>4 DEF WorldOK
<1>8. stale \in BOOLEAN /\ pacer \in 0 .. CharPace
  BY <1>4 DEF ControlOK
<1>9. CASE SerialRead
  <2> DEFINE n == Lesser(SerialRoom, port.emitted - port.taken)
             r == Numbers(port.taken, port.taken + n)
  <2>1. SerialRoom \in Nat /\ Len(serial.rbuf) + SerialRoom = Cap
    BY <1>6, CapOK DEF SerialRoom
  <2>2. n \in Nat /\ n <= SerialRoom /\ port.taken + n <= port.emitted
    BY <1>7, <2>1 DEF Lesser
  <2>3. /\ serial' = [serial EXCEPT !.rbuf = @ \o r] /\ port' = [port EXCEPT !.taken = @ + n]
        /\ UNCHANGED <<stale, pacer, heard, missed, cut>>
    BY <1>9 DEF SerialRead, ghosts
  <2> HIDE DEF n
  <2>4. r \in Positions /\ Len(r) = n
    BY <1>7, <2>2, NumbersOK, CapOK
  <2> HIDE DEF r
  <2>5. serial.rbuf \o r \in Positions /\ Len(serial.rbuf \o r) <= Cap
    <3>1. serial.rbuf \o r \in Positions /\ Len(serial.rbuf \o r) = Len(serial.rbuf) + Len(r)
      BY <1>6, <2>4, JoinedOK DEF Positions
    <3> QED BY <1>6, <2>1, <2>2, <2>4, <3>1, CapOK
  <2>6. serial' = [state |-> serial.state, rbuf |-> serial.rbuf \o r, tbuf |-> serial.tbuf]
    BY <1>6, <2>3
  <2>7. BuffersOK'
    BY <1>2, <1>3, <1>4, <1>6, <2>5, <2>6 DEF BuffersOK
  <2>8. /\ port' \in [up : BOOLEAN, emitted : 0 .. MaxEmit, taken : 0 .. MaxEmit, faults : 0 .. MaxFaults]
        /\ port'.taken <= port'.emitted
    <3>1. port' = [up |-> port.up, emitted |-> port.emitted, taken |-> port.taken + n,
                   faults |-> port.faults]
      BY <1>7, <2>3
    <3>2. port.taken + n \in 0 .. MaxEmit
      BY <1>7, <2>2, CapOK
    <3> QED BY <1>7, <2>2, <3>1, <3>2
  <2>9. WorldOK' /\ GhostsOK'
    BY <1>2, <1>4, <2>3, <2>8 DEF WorldOK, GhostsOK
  <2>10. ControlOK'
    BY <1>1, <1>2, <1>4, <1>8, <2>3, ControlDispatch
  <2> QED BY <1>5, <2>7, <2>9, <2>10 DEF TypeInv
<1>10. CASE SerialEof
  <2>1. /\ serial' = [state |-> "closed", rbuf |-> <<>>, tbuf |-> <<>>] /\ stale' = TRUE
        /\ missed' = [c \in Conns |-> missed[c] \cup ElementsOf(serial.rbuf)]
        /\ cut' = [c \in Conns |-> cut[c] \cup {b[2] : b \in {x \in ElementsOf(serial.tbuf) : x[1] = c}}]
        /\ UNCHANGED <<port, pacer, heard>>
    BY <1>10 DEF SerialEof, world
  <2>2. BuffersOK'
    <3>1. serial' \in [state : States, rbuf : Positions, tbuf : Seq(Conns \X Nat)]
      BY <2>1 DEF States, Positions
    <3>2. Len(serial.rbuf)' <= Cap /\ Len(serial.tbuf)' <= Cap
      BY <2>1, CapOK
    <3> QED BY <1>2, <1>3, <1>4, <3>1, <3>2 DEF BuffersOK
  <2>3. GhostsOK'
    <3>1. ElementsOf(serial.rbuf) \subseteq 1 .. MaxEmit
      BY <1>6, ElementsOK DEF Positions
    <3>2. \A x \in ElementsOf(serial.tbuf) : x[2] \in Nat
      BY <1>6 DEF ElementsOf
    <3>3. missed' \in [Conns -> SUBSET (1 .. MaxEmit)]
      BY <1>4, <2>1, <3>1 DEF GhostsOK
    <3>4. cut' \in [Conns -> SUBSET Nat]
      BY <1>4, <2>1, <3>2 DEF GhostsOK
    <3> QED BY <1>2, <1>4, <2>1, <3>3, <3>4 DEF GhostsOK
  <2>4. WorldOK'
    BY <1>2, <1>4, <2>1 DEF WorldOK
  <2>5. stale' \in BOOLEAN
    BY <2>1
  <2>6. ControlOK'
    BY <1>1, <1>2, <1>4, <1>8, <2>1, <2>5, ControlDispatch
  <2> QED BY <1>5, <2>2, <2>3, <2>4, <2>6 DEF TypeInv
<1>11. CASE SerialWrite
  <2>1. UNCHANGED <<port, missed, cut>>
    BY <1>11 DEF SerialWrite, world
  <2>2. WorldOK'
    BY <1>2, <1>4, <2>1 DEF WorldOK
  <2>3. CASE UNCHANGED <<stale, serial, pacer, heard>>
    <3>1. ControlOK'
      BY <1>1, <1>2, <1>4, <1>8, <2>3, ControlDispatch
    <3>2. BuffersOK' /\ GhostsOK'
      BY <1>2, <1>3, <1>4, <2>1, <2>3 DEF BuffersOK, GhostsOK
    <3> QED BY <1>5, <2>2, <3>1, <3>2 DEF TypeInv
  <2>4. CASE /\ serial.tbuf /= <<>> /\ heard' = Append(heard, Head(serial.tbuf))
             /\ serial' = [serial EXCEPT !.tbuf = Tail(@)]
             /\ pacer' = CharPace /\ UNCHANGED stale
    <3>1. Head(serial.tbuf) \in Conns \X Nat /\ Tail(serial.tbuf) \in Seq(Conns \X Nat)
          /\ Len(Tail(serial.tbuf)) <= Cap
      BY <1>6, <2>4, CapOK
    <3>2. heard' \in Seq(Conns \X Nat)
      BY <1>4, <2>4, <3>1 DEF GhostsOK
    <3>3. serial' = [state |-> serial.state, rbuf |-> serial.rbuf, tbuf |-> Tail(serial.tbuf)]
      BY <1>6, <2>4
    <3>4. BuffersOK'
      BY <1>2, <1>3, <1>4, <1>6, <3>1, <3>3 DEF BuffersOK
    <3>5. GhostsOK'
      BY <1>2, <1>4, <2>1, <3>2 DEF GhostsOK
    <3>6. pacer' \in 0 .. CharPace
      BY <2>4, CapOK
    <3>7. ControlOK'
      BY <1>1, <1>2, <1>4, <1>8, <2>4, <3>6, ControlDispatch
    <3> QED BY <1>5, <2>2, <3>4, <3>5, <3>7 DEF TypeInv
  <2>5. CASE /\ serial' = [serial EXCEPT !.state = "closed"] /\ stale' = TRUE
             /\ UNCHANGED <<heard, pacer>>
    <3>1. serial' = [state |-> "closed", rbuf |-> serial.rbuf, tbuf |-> serial.tbuf]
      BY <1>6, <2>5
    <3>2. BuffersOK'
      BY <1>2, <1>3, <1>4, <1>6, <3>1 DEF BuffersOK, States
    <3>3. GhostsOK'
      BY <1>2, <1>4, <2>1, <2>5 DEF GhostsOK
    <3>4. stale' \in BOOLEAN
      BY <2>5
    <3>5. ControlOK'
      BY <1>1, <1>2, <1>4, <1>8, <2>5, <3>4, ControlDispatch
    <3> QED BY <1>5, <2>2, <3>2, <3>3, <3>5 DEF TypeInv
  <2> QED BY <1>11, <2>3, <2>4, <2>5 DEF SerialWrite
<1> QED BY <1>9, <1>10, <1>11

(* A client connects: it gets the place of one that is closed, or a new    *)
(* one.                                                                    *)
LEMMA TypeAccept == ASSUME TypeInv, Accept PROVE TypeInv'
<1> DEFINE c == Head(backlog)
           e == ReadOf(Listener)
<1>1. /\ Dispatch(e) /\ backlog' = Tail(backlog)
      /\ joined' = [joined EXCEPT ![c] = IF serial.rbuf = <<>> THEN port.taken
                                         ELSE Head(serial.rbuf) - 1]
      /\ UNCHANGED <<stale, serial, pacer, port, sent, shut, taken, got, heard, missed, queued>>
  BY DEF Accept
<1>2. e \in ready /\ UNCHANGED copy
  BY <1>1 DEF Dispatch
<1>3. backlog /= <<>> /\ backlog \in Seq(Conns)
  BY <1>2 DEF TypeInv, Awaited, WorldOK
<1>4. PICK i \in 1 .. Len(slots) + 1 :
           /\ c \in Conns /\ Fresh(c) \in Slot
           /\ i \in 1 .. Len(slots') /\ slots'[i] = Fresh(c)
           /\ slots' \in Seq(Slot) /\ Len(slots') \in {Len(slots), Len(slots) + 1}
           /\ \A j \in 1 .. Len(slots') : j /= i => j \in 1 .. Len(slots) /\ slots'[j] = slots[j]
           /\ \A j \in 1 .. Len(slots) : j /= i => j \in 1 .. Len(slots')
           /\ i \in 1 .. Len(slots) => slots[i].state = "inactive" /\ slots[i].conn \in shut
           /\ cut' = IF i \in 1 .. Len(slots)
                     THEN [cut EXCEPT ![slots[i].conn] =
                             @ \cup {b[2] : b \in ElementsOf(slots[i].linebuf)}]
                     ELSE cut
  BY <1>3, AcceptSlots
<1> HIDE DEF e
<1>5. Len(slots) \in Nat /\ DOMAIN slots = 1 .. Len(slots) /\ Len(slots') \in Nat /\ Len(slots') >= Len(slots)
  BY <1>4, SlotsOK DEF TypeInv
<1>6. ControlOK /\ BuffersOK /\ WorldOK /\ GhostsOK /\ Apart
  BY DEF TypeInv
<1>7. ControlOK'
  <2>1. stale' \in BOOLEAN /\ pacer' \in 0 .. CharPace
    BY <1>1, <1>6 DEF ControlOK
  <2> QED BY <1>1, <1>5, <1>6, <2>1, ControlDispatch
<1>8. BuffersOK'
  BY <1>1, <1>2, <1>4, <1>6 DEF BuffersOK
<1>9. /\ Len(backlog) \in Nat /\ Len(backlog) >= 1 /\ backlog[1] = c
      /\ Tail(backlog) \in Seq(Conns) /\ Len(Tail(backlog)) = Len(backlog) - 1
      /\ \A k \in 1 .. Len(backlog) - 1 : Tail(backlog)[k] = backlog[k + 1]
  BY <1>3, HeadTailProperties
<1>10. WorldOK'
  BY <1>1, <1>6, <1>9 DEF WorldOK
<1>11. GhostsOK'
  <2>1. (IF serial.rbuf = <<>> THEN port.taken ELSE Head(serial.rbuf) - 1) \in 0 .. MaxEmit
    <3>1. serial.rbuf \in Seq(1 .. MaxEmit) /\ port.taken \in 0 .. MaxEmit
      BY <1>6 DEF BuffersOK, Positions, WorldOK
    <3>2. serial.rbuf /= <<>> => Head(serial.rbuf) \in 1 .. MaxEmit
      BY <3>1, HeadTailProperties
    <3> QED BY <3>1, <3>2, CapOK
  <2>2. joined' \in [Conns -> 0 .. MaxEmit]
    BY <1>1, <1>6, <2>1 DEF GhostsOK
  <2>3. cut' \in [Conns -> SUBSET Nat]
    <3>1. CASE i \notin 1 .. Len(slots)
      BY <1>4, <1>6, <3>1 DEF GhostsOK
    <3>2. CASE i \in 1 .. Len(slots)
      <4>1. slots[i] \in Slot
        BY <1>6, <3>2, SlotsOK
      <4> DEFINE d == slots[i].conn
                 l == slots[i].linebuf
      <4>2. d \in Conns /\ l \in BytesOf(d)
        BY <4>1, SlotOK
      <4> HIDE DEF d, l
      <4>5. l \in Seq(Conns \X Nat)
        BY <4>2, BytesOK
      <4>3. {b[2] : b \in ElementsOf(l)} \subseteq Nat
        BY <4>5, ElementsOK
      <4>4. cut' = [cut EXCEPT ![d] = @ \cup {b[2] : b \in ElementsOf(l)}]
        BY <1>4, <3>2 DEF d, l
      <4>6. cut \in [Conns -> SUBSET Nat]
        BY <1>6 DEF GhostsOK
      <4> QED BY <4>2, <4>3, <4>4, <4>6
    <3> QED BY <3>1, <3>2
  <2> QED BY <1>1, <1>6, <2>2, <2>3 DEF GhostsOK
<1>12. Awaited'
  BY <1>1, AwaitedDispatch DEF TypeInv, e
<1>13. Apart'
  <2>1. slots'[i].conn = c /\ slots'[i].state = "connected"
    BY <1>4 DEF Fresh
  <2>2. \A j \in 1 .. Len(slots) : slots[j].conn /= c
    BY <1>6, <1>9 DEF Apart
  <2>3. \A j \in 1 .. Len(slots') : j /= i => slots'[j].conn /= c
    BY <1>4, <2>2
  <2>4. (\A j, k \in 1 .. Len(slots) : slots[j].conn = slots[k].conn => j = k)'
    <3> SUFFICES ASSUME NEW j \in 1 .. Len(slots'), NEW k \in 1 .. Len(slots'),
                        slots'[j].conn = slots'[k].conn
                 PROVE  j = k
      OBVIOUS
    <3>1. CASE j = i \/ k = i
      BY <2>1, <2>3, <3>1
    <3>2. CASE j /= i /\ k /= i
      BY <1>4, <1>6, <3>2 DEF Apart
    <3> QED BY <3>1, <3>2
  <2>5. Len(backlog') = Len(backlog) - 1 /\ \A k \in 1 .. Len(backlog') : backlog'[k] = backlog[k + 1]
        /\ k + 1 \in 1 .. Len(backlog) /\ k + 1 /= 1
    BY <1>1, <1>9
  <2>6. (\A j, k \in 1 .. Len(backlog) : backlog[j] = backlog[k] => j = k)'
    <3> SUFFICES ASSUME NEW j \in 1 .. Len(backlog'), NEW k \in 1 .. Len(backlog'),
                        backlog'[j] = backlog'[k]
                 PROVE  j = k
      OBVIOUS
    <3>1. backlog[j + 1] = backlog[k + 1] /\ j + 1 \in 1 .. Len(backlog) /\ k + 1 \in 1 .. Len(backlog)
      BY <2>5
    <3>2. j + 1 = k + 1
      BY <1>6, <3>1 DEF Apart
    <3> QED BY <1>9, <2>5, <3>2
  <2>7. (\A j \in 1 .. Len(slots), k \in 1 .. Len(backlog) : slots[j].conn /= backlog[k])'
    <3> SUFFICES ASSUME NEW j \in 1 .. Len(slots'), NEW k \in 1 .. Len(backlog')
                 PROVE  slots'[j].conn /= backlog'[k]
      OBVIOUS
    <3>1. backlog'[k] = backlog[k + 1] /\ k + 1 \in 1 .. Len(backlog) /\ k + 1 /= 1
      BY <2>5
    <3>2. CASE j = i
      <4>1. backlog[k + 1] /= backlog[1]
        BY <1>6, <1>9, <3>1 DEF Apart
      <4> QED BY <1>9, <2>1, <3>1, <3>2, <4>1
    <3>3. CASE j /= i
      BY <1>4, <1>6, <3>1, <3>3 DEF Apart
    <3> QED BY <3>2, <3>3
  <2>8. (\A j \in 1 .. Len(slots) : slots[j].state = "inactive" => slots[j].conn \in shut)'
    <3> SUFFICES ASSUME NEW j \in 1 .. Len(slots'), slots'[j].state = "inactive"
                 PROVE  slots'[j].conn \in shut
      BY <1>1
    <3>1. j /= i
      BY <2>1
    <3> QED BY <1>4, <1>6, <3>1 DEF Apart
  <2>9. (\A d \in Conns \ SlotConns : d \in ElementsOf(backlog) \/ d \notin shut =>
              taken[d] = 0 /\ got[d] = <<>>)'
    <3> SUFFICES ASSUME NEW d \in Conns, d \notin SlotConns', d \in ElementsOf(backlog') \/ d \notin shut
                 PROVE  taken[d] = 0 /\ got[d] = <<>>
      BY <1>1
    <3>1. CASE d \in ElementsOf(backlog')
      <4>1. PICK k \in 1 .. Len(backlog') : d = backlog'[k]
        BY <1>1, <1>9, <3>1 DEF ElementsOf
      <4>2. d = backlog[k + 1] /\ k + 1 \in 1 .. Len(backlog)
        BY <2>5, <4>1
      <4>3. d \notin SlotConns /\ d \in ElementsOf(backlog)
        BY <1>3, <1>5, <1>6, <4>2 DEF Apart, SlotConns, ElementsOf
      <4> QED BY <1>6, <4>3 DEF Apart
    <3>2. CASE d \notin shut
      <4>1. ASSUME d \in SlotConns PROVE FALSE
        <5>1. PICK j \in 1 .. Len(slots) : d = slots[j].conn
          BY <1>5, <4>1 DEF SlotConns
        <5>2. j /= i
          BY <1>4, <3>2, <5>1
        <5>3. j \in 1 .. Len(slots') /\ slots'[j] = slots[j]
          BY <1>4, <5>2
        <5>4. slots'[j].conn \in SlotConns'
          BY <1>4, <5>3 DEF SlotConns
        <5> QED BY <5>1, <5>3, <5>4
      <4> QED BY <1>6, <3>2, <4>1 DEF Apart
    <3> QED BY <3>1, <3>2
  <2> QED BY <2>4, <2>6, <2>7, <2>8, <2>9 DEF Apart
<1> QED BY <1>7, <1>8, <1>10, <1>11, <1>12, <1>13 DEF TypeInv

(* What the handlers of an accepted socket make of its slot.               *)
ReadSlot(s, new) == [conn |-> s.conn, state |-> s.state, rbuf |-> s.rbuf \o new, tbuf |-> s.tbuf,
                     linebuf |-> s.linebuf]
LeftSlot(s) == [conn |-> s.conn, state |-> "inactive", rbuf |-> <<>>, tbuf |-> <<>>,
                linebuf |-> s.linebuf]
WroteSlot(s, n) == [conn |-> s.conn, state |-> s.state, rbuf |-> s.rbuf, tbuf |-> Rest(s.tbuf, n),
                    linebuf |-> s.linebuf]

(* An update of fields of a slot is the slot with these fields.            *)
LEMMA SlotEmptied ==
  ASSUME NEW s \in Slot
  PROVE  [s EXCEPT !.state = "inactive", !.rbuf = <<>>, !.tbuf = <<>>] = LeftSlot(s)
<1> DEFINE T == [conn : {s.conn}, state : {s.state, "inactive"}, rbuf : {s.rbuf, <<>>}, tbuf : {s.tbuf, <<>>},
                 linebuf : {s.linebuf}]
           e == [s EXCEPT !.state = "inactive", !.rbuf = <<>>, !.tbuf = <<>>]
<1>1. s \in T
  BY SlotOK
<1>2. e \in T
  BY <1>1
<1>3. e.state = "inactive" /\ e.rbuf = <<>> /\ e.tbuf = <<>>
  BY <1>1
<1>4. e.conn = s.conn /\ e.linebuf = s.linebuf
  BY <1>2
<1> HIDE DEF e
<1>5. e = [conn |-> e.conn, state |-> e.state, rbuf |-> e.rbuf, tbuf |-> e.tbuf, linebuf |-> e.linebuf]
  BY <1>2
<1>6. e = LeftSlot(s)
  BY <1>3, <1>4, <1>5 DEF LeftSlot
<1> QED BY <1>6 DEF e

(* A device after its turn, field by field.                                *)
LEMMA SlotServed ==
  ASSUME NEW s \in Slot, NEW x, NEW y, NEW z
  PROVE  [s EXCEPT !.tbuf = x, !.rbuf = y, !.linebuf = z] =
           [conn |-> s.conn, state |-> s.state, rbuf |-> y, tbuf |-> x, linebuf |-> z]
<1> DEFINE T == [conn : {s.conn}, state : {s.state}, rbuf : {s.rbuf, y}, tbuf : {s.tbuf, x},
                 linebuf : {s.linebuf, z}]
           e == [s EXCEPT !.tbuf = x, !.rbuf = y, !.linebuf = z]
<1>1. s \in T
  BY SlotOK
<1>2. e \in T
  BY <1>1
<1>3. e.tbuf = x /\ e.rbuf = y /\ e.linebuf = z
  BY <1>1
<1>4. e.conn = s.conn /\ e.state = s.state
  BY <1>2
<1> HIDE DEF e
<1>5. e = [conn |-> e.conn, state |-> e.state, rbuf |-> e.rbuf, tbuf |-> e.tbuf, linebuf |-> e.linebuf]
  BY <1>2
<1>6. e = [conn |-> s.conn, state |-> s.state, rbuf |-> y, tbuf |-> x, linebuf |-> z]
  BY <1>3, <1>4, <1>5
<1> QED BY <1>6 DEF e

(* What the read handler of a client does: the next bytes that were sent   *)
(* go behind those in its buffer.                                          *)
LEMMA ReadEffect ==
  ASSUME TypeInv, NEW i \in 1 .. Len(slots), ClientRead(i)
  PROVE  LET c == slots[i].conn
         IN \E n \in Nat : \E new \in BytesOf(c) :
              /\ Len(new) = n /\ \A k \in 1 .. n : new[k] = <<c, taken[c] + k>>
              /\ taken[c] + n <= sent[c] /\ n > 0
              /\ ReadSlot(slots[i], new) \in Slot
              /\ slots' = [slots EXCEPT ![i] = ReadSlot(slots[i], new)]
              /\ taken' = [taken EXCEPT ![c] = @ + n]
<1> DEFINE s == slots[i]
           c == s.conn
           n == Lesser(Cap - Len(s.rbuf), sent[c] - taken[c])
           new == [k \in 1 .. n |-> <<c, taken[c] + k>>]
<1>1. s \in Slot
  BY SlotsOK DEF TypeInv
<1>2. /\ s = [conn |-> c, state |-> s.state, rbuf |-> s.rbuf, tbuf |-> s.tbuf, linebuf |-> s.linebuf]
      /\ c \in Conns /\ s.state \in {"connected", "inactive"}
      /\ s.rbuf \in BytesOf(c) /\ Len(s.rbuf) <= Cap
      /\ s.tbuf \in Positions /\ Len(s.tbuf) <= Cap /\ s.linebuf \in BytesOf(c)
  BY <1>1, SlotOK
<1>3. n > 0 /\ slots' = [slots EXCEPT ![i].rbuf = @ \o new] /\ taken' = [taken EXCEPT ![c] = @ + n]
  BY DEF ClientRead
<1>4. /\ slots \in Seq(Slot) /\ taken \in [Conns -> Nat] /\ sent \in [Conns -> Nat]
      /\ taken[c] <= sent[c] /\ sent[c] <= Sends[c]
  BY <1>2 DEF TypeInv, BuffersOK, WorldOK
<1> HIDE DEF s, c
<1>5. Len(s.rbuf) \in Nat /\ taken[c] \in Nat /\ sent[c] \in Nat /\ Sends[c] \in Nat
  BY <1>2, <1>4, BytesOK, CapOK
<1>6. n \in Nat /\ taken[c] + n <= sent[c] /\ Len(s.rbuf) + n <= Cap
  BY SMTT(30), <1>2, <1>4, <1>5, CapOK DEF Lesser
<1> HIDE DEF n
<1>7. \A k \in 1 .. n : <<c, taken[c] + k>> \in {c} \X (1 .. Sends[c])
  BY <1>4, <1>5, <1>6
<1>8. new \in Seq({c} \X (1 .. Sends[c])) /\ Len(new) = n
  BY <1>6, <1>7
<1>9. \A k \in 1 .. n : new[k] = <<c, taken[c] + k>>
  OBVIOUS
<1> HIDE DEF new
<1>10. s.rbuf \o new \in BytesOf(c) /\ Len(s.rbuf \o new) <= Cap
  <2>1. s.rbuf \in Seq({c} \X (1 .. Sends[c]))
    BY <1>2 DEF BytesOf
  <2>2. s.rbuf \o new \in Seq({c} \X (1 .. Sends[c])) /\ Len(s.rbuf \o new) = Len(s.rbuf) + Len(new)
    BY <1>8, <2>1, JoinedOK
  <2> QED BY <1>6, <1>8, <2>2 DEF BytesOf
<1>11. ReadSlot(s, new) \in Slot
  <2> DEFINE r == s.rbuf \o new
  <2>1. r \in BytesOf(c) /\ Len(r) <= Cap
    BY <1>10
  <2>2. ReadSlot(s, new) = [conn |-> c, state |-> s.state, rbuf |-> r, tbuf |-> s.tbuf,
                            linebuf |-> s.linebuf]
    BY DEF ReadSlot, c
  <2> HIDE DEF r
  <2> QED BY <1>2, <2>1, <2>2, SlotMade
<1>12. slots' = [slots EXCEPT ![i] = ReadSlot(s, new)]
  <2> DEFINE r == s.rbuf \o new
  <2>1. slots' = [slots EXCEPT ![i] = [s EXCEPT !.rbuf = r]]
    BY <1>3 DEF s
  <2>2. ReadSlot(s, new) = [conn |-> c, state |-> s.state, rbuf |-> r, tbuf |-> s.tbuf,
                            linebuf |-> s.linebuf]
    BY DEF ReadSlot, c
  <2> HIDE DEF r
  <2>3. [s EXCEPT !.rbuf = r] = ReadSlot(s, new)
    BY <1>2, <2>2
  <2> QED BY <2>1, <2>3
<1>13. new \in BytesOf(c)
  BY <1>8 DEF BytesOf
<1> QED BY <1>3, <1>6, <1>8, <1>9, <1>11, <1>12, <1>13 DEF s, c

(* What the end of a connection does: what was in its buffers is lost.     *)
LEMMA LeaveEffect ==
  ASSUME TypeInv, NEW i \in 1 .. Len(slots), ClientEof(i) \/ ClientWriteFails(i)
  PROVE  /\ LeftSlot(slots[i]) \in Slot /\ slots' = [slots EXCEPT ![i] = LeftSlot(slots[i])]
         /\ slots[i].conn \in shut /\ stale' = TRUE
         /\ missed' = [missed EXCEPT ![slots[i].conn] = @ \cup ElementsOf(slots[i].tbuf)]
         /\ cut' = [cut EXCEPT ![slots[i].conn] = @ \cup {b[2] : b \in ElementsOf(slots[i].rbuf)}]
         /\ UNCHANGED <<serial, pacer, world, taken, joined, got, heard, queued>>
<1> DEFINE s == slots[i]
<1>1. s \in Slot
  BY SlotsOK DEF TypeInv
<1>2. /\ s = [conn |-> s.conn, state |-> s.state, rbuf |-> s.rbuf, tbuf |-> s.tbuf, linebuf |-> s.linebuf]
      /\ s.conn \in Conns /\ s.linebuf \in BytesOf(s.conn)
  BY <1>1, SlotOK
<1>3. /\ slots' = [slots EXCEPT ![i].state = "inactive", ![i].rbuf = <<>>, ![i].tbuf = <<>>]
      /\ s.conn \in shut /\ stale' = TRUE
      /\ missed' = [missed EXCEPT ![s.conn] = @ \cup ElementsOf(s.tbuf)]
      /\ cut' = [cut EXCEPT ![s.conn] = @ \cup {b[2] : b \in ElementsOf(s.rbuf)}]
      /\ UNCHANGED <<serial, pacer, world, taken, joined, got, heard, queued>>
  BY DEF ClientEof, ClientWriteFails
<1>4. slots' = [slots EXCEPT ![i] = [s EXCEPT !.state = "inactive", !.rbuf = <<>>, !.tbuf = <<>>]]
  <2>1. slots \in Seq(Slot)
    BY DEF TypeInv, BuffersOK
  <2> QED BY <1>3, <2>1
<1> HIDE DEF s
<1>5. [s EXCEPT !.state = "inactive", !.rbuf = <<>>, !.tbuf = <<>>] = LeftSlot(s)
  BY <1>1, SlotEmptied
<1>6. LeftSlot(s) \in Slot
  <2>1. <<>> \in BytesOf(s.conn) /\ <<>> \in Positions /\ Len(<<>>) <= Cap
    BY CapOK DEF BytesOf, Positions
  <2> QED BY <1>2, <2>1, SlotMade DEF LeftSlot
<1> QED BY <1>3, <1>4, <1>5, <1>6 DEF s

(* What the write handler of a client does: the first bytes of its buffer  *)
(* go out, all of them where the client takes them.                        *)
LEMMA WriteEffect ==
  ASSUME TypeInv, NEW i \in 1 .. Len(slots), ClientWrite(i), IsOpen(slots[i])
  PROVE  \E n \in 1 .. Len(slots[i].tbuf) :
           /\ slots[i].conn \notin Slow => n = Len(slots[i].tbuf)
           /\ got' = [got EXCEPT ![slots[i].conn] = @ \o First(slots[i].tbuf, n)]
           /\ First(slots[i].tbuf, n) \in Positions
           /\ WroteSlot(slots[i], n) \in Slot /\ slots' = [slots EXCEPT ![i] = WroteSlot(slots[i], n)]
<1> DEFINE s == slots[i]
<1>1. s \in Slot
  BY SlotsOK DEF TypeInv
<1>2. /\ s = [conn |-> s.conn, state |-> s.state, rbuf |-> s.rbuf, tbuf |-> s.tbuf, linebuf |-> s.linebuf]
      /\ s.conn \in Conns /\ s.linebuf \in BytesOf(s.conn) /\ s.state \in {"connected", "inactive"}
      /\ s.rbuf \in BytesOf(s.conn) /\ Len(s.rbuf) <= Cap /\ s.tbuf \in Positions /\ Len(s.tbuf) <= Cap
  BY <1>1, SlotOK
<1>3. PICK n \in 1 .. Len(s.tbuf) :
        /\ s.conn \notin Slow => n = Len(s.tbuf)
        /\ got' = [got EXCEPT ![s.conn] = @ \o First(s.tbuf, n)]
        /\ slots' = [slots EXCEPT ![i].tbuf = Rest(@, n)]
  BY DEF ClientWrite
<1>4. slots' = [slots EXCEPT ![i] = [s EXCEPT !.tbuf = Rest(@, n)]]
  BY <1>3
<1> HIDE DEF s
<1>5. [s EXCEPT !.tbuf = Rest(@, n)] = WroteSlot(s, n)
  BY <1>2 DEF WroteSlot
<1>6. s.tbuf \in Seq(1 .. MaxEmit) /\ Len(s.tbuf) \in Nat /\ n \in Nat /\ n <= Len(s.tbuf)
  BY <1>2 DEF Positions
<1>7. First(s.tbuf, n) \in Positions /\ Rest(s.tbuf, n) \in Positions /\ Len(Rest(s.tbuf, n)) <= Cap
  <2>1. First(s.tbuf, n) \in Seq(1 .. MaxEmit)
    BY <1>6, FirstOK
  <2>2. Rest(s.tbuf, n) \in Seq(1 .. MaxEmit) /\ Len(Rest(s.tbuf, n)) = Len(s.tbuf) - Lesser(n, Len(s.tbuf))
    BY <1>6, RestOK
  <2>3. Len(Rest(s.tbuf, n)) <= Cap
    BY <1>2, <1>6, <2>2, CapOK DEF Lesser
  <2> QED BY <2>1, <2>2, <2>3 DEF Positions
<1>8. WroteSlot(s, n) \in Slot
  BY <1>2, <1>7, SlotMade DEF WroteSlot
<1> QED BY <1>3, <1>4, <1>5, <1>7, <1>8 DEF s

(* The handlers of a client keep the types.                                *)
LEMMA TypeHandler ==
  ASSUME TypeInv, NEW i \in 1 .. Len(slots), Handler(i)
  PROVE  TypeInv'
<1> DEFINE s == slots[i]
           c == slots[i].conn
<1>1. s \in Slot
  BY SlotsOK DEF TypeInv
<1>2. /\ c \in Conns /\ s.rbuf \in BytesOf(c) /\ s.tbuf \in Positions /\ s.linebuf \in BytesOf(c)
      /\ s.rbuf \in Seq(Conns \X Nat)
  BY <1>1, SlotOK
<1>3. ControlOK /\ BuffersOK /\ WorldOK /\ GhostsOK /\ Apart /\ Len(slots) \in Nat
  BY SlotsOK DEF TypeInv
<1>4. s.state = "inactive" => c \in shut
  BY <1>3 DEF Apart
<1>5. CASE SigPipe(i)
  <2>1. UNCHANGED <<turn, ready, stale, serial, slots, copy, cmdTimer, pacer, port, backlog, sent, shut,
                    taken, joined, got, heard, missed, cut, queued>> /\ phase' = "killed"
    BY <1>5 DEF SigPipe, world, ghosts
  <2>2. ControlOK' /\ BuffersOK' /\ WorldOK' /\ GhostsOK' /\ Awaited'
    BY <2>1 DEF TypeInv, ControlOK, BuffersOK, WorldOK, GhostsOK, Awaited
  <2>3. Apart'
    BY <2>1 DEF TypeInv, Apart, SlotConns, ElementsOf
  <2> QED BY <2>2, <2>3 DEF TypeInv
<1>6. CASE ClientRead(i)
  <2>1. PICK n \in Nat, new \in BytesOf(c) :
              /\ Len(new) = n /\ taken[c] + n <= sent[c]
              /\ ReadSlot(s, new) \in Slot
              /\ slots' = [slots EXCEPT ![i] = ReadSlot(s, new)]
              /\ taken' = [taken EXCEPT ![c] = @ + n]
    BY <1>6, ReadEffect
  <2>2. /\ Dispatch(ReadOf(Client(i)))
        /\ UNCHANGED <<stale, serial, pacer, port, backlog, sent, shut, joined, got, heard, missed, cut, queued>>
    BY <1>6 DEF ClientRead, world
  <2>3. ReadSlot(s, new).conn = c /\ ReadSlot(s, new).state = s.state
    BY DEF ReadSlot
  <2>4. slots' \in Seq(Slot) /\ Len(slots') = Len(slots) /\ Apart'
    BY <1>3, <1>4, <2>1, <2>2, <2>3, SlotStep DEF WorldOK
  <2>5. WorldOK'
    <3>1. /\ taken \in [Conns -> Nat] /\ sent \in [Conns -> Nat]
          /\ \A d \in Conns : taken[d] <= sent[d] /\ sent[d] <= Sends[d]
      BY <1>3 DEF WorldOK
    <3>2. taken' \in [Conns -> Nat] /\ \A d \in Conns : taken'[d] <= sent[d]
      BY <1>2, <2>1, <3>1
    <3> QED BY <1>3, <2>2, <3>2 DEF WorldOK
  <2>6. GhostsOK'
    BY <1>3, <2>2 DEF GhostsOK
  <2>7. UNCHANGED copy /\ Awaited'
    BY <2>2, AwaitedDispatch DEF TypeInv, Dispatch
  <2>8. BuffersOK'
    BY <1>3, <2>2, <2>4, <2>7 DEF BuffersOK
  <2>9. stale' \in BOOLEAN /\ pacer' \in 0 .. CharPace
    BY <1>3, <2>2 DEF ControlOK
  <2>10. ControlOK'
    BY <1>3, <2>2, <2>4, <2>9, ControlDispatch
  <2> QED BY <2>4, <2>5, <2>6, <2>7, <2>8, <2>10 DEF TypeInv
<1>7. CASE ClientEof(i) \/ ClientWriteFails(i)
  <2>1. /\ LeftSlot(s) \in Slot /\ slots' = [slots EXCEPT ![i] = LeftSlot(s)]
        /\ c \in shut /\ stale' = TRUE
        /\ missed' = [missed EXCEPT ![c] = @ \cup ElementsOf(s.tbuf)]
        /\ cut' = [cut EXCEPT ![c] = @ \cup {b[2] : b \in ElementsOf(s.rbuf)}]
        /\ UNCHANGED <<serial, pacer, port, backlog, sent, shut, taken, joined, got, heard, queued>>
    BY <1>7, LeaveEffect DEF world
  <2>2. PICK e : Dispatch(e)
    BY <1>7 DEF ClientEof, ClientWriteFails
  <2>3. LeftSlot(s).conn = c
    BY DEF LeftSlot
  <2>4. slots' \in Seq(Slot) /\ Len(slots') = Len(slots) /\ Apart'
    BY <2>1, <2>3, SlotStep
  <2>5. WorldOK'
    BY <1>3, <2>1 DEF WorldOK
  <2>6. GhostsOK'
    <3>1. ElementsOf(s.tbuf) \subseteq 1 .. MaxEmit
      BY <1>2, ElementsOK DEF Positions
    <3>2. {b[2] : b \in ElementsOf(s.rbuf)} \subseteq Nat
      BY <1>2, ElementsOK
    <3>3. missed' \in [Conns -> SUBSET (1 .. MaxEmit)]
      BY <1>3, <2>1, <3>1 DEF GhostsOK
    <3>4. cut' \in [Conns -> SUBSET Nat]
      BY <1>3, <2>1, <3>2 DEF GhostsOK
    <3> QED BY <1>3, <2>1, <3>3, <3>4 DEF GhostsOK
  <2>7. UNCHANGED copy /\ Awaited'
    BY <2>1, <2>2, AwaitedDispatch DEF TypeInv, Dispatch
  <2>8. BuffersOK'
    BY <1>3, <2>1, <2>4, <2>7 DEF BuffersOK
  <2>9. pacer' \in 0 .. CharPace
    BY <1>3, <2>1 DEF ControlOK
  <2>10. stale' \in BOOLEAN
    BY <2>1
  <2>11. ControlOK'
    BY <1>3, <2>1, <2>2, <2>4, <2>9, <2>10, ControlDispatch
  <2> QED BY <2>4, <2>5, <2>6, <2>7, <2>8, <2>11 DEF TypeInv
<1>8. CASE ClientWrite(i)
  <2>1. /\ Dispatch(WriteOf(Client(i)))
        /\ UNCHANGED <<stale, serial, pacer, port, backlog, sent, shut, taken, joined, heard, missed, cut, queued>>
    BY <1>8 DEF ClientWrite, world
  <2>2. /\ slots' \in Seq(Slot) /\ Len(slots') = Len(slots) /\ Apart' /\ got' \in [Conns -> Positions]
    <3>1. CASE IsOpen(s)
      <4>1. PICK n \in 1 .. Len(s.tbuf) :
           /\ got' = [got EXCEPT ![c] = @ \o First(s.tbuf, n)]
           /\ First(s.tbuf, n) \in Positions
           /\ WroteSlot(s, n) \in Slot /\ slots' = [slots EXCEPT ![i] = WroteSlot(s, n)]
        BY <1>8, <3>1, WriteEffect
      <4>2. WroteSlot(s, n).conn = c /\ WroteSlot(s, n).state = s.state
        BY DEF WroteSlot
      <4> DEFINE f == First(s.tbuf, n)
      <4>3. got \in [Conns -> Positions] /\ got[c] \in Positions
        BY <1>2, <1>3 DEF GhostsOK
      <4>4. f \in Positions /\ got' = [got EXCEPT ![c] = @ \o f]
        BY <4>1
      <4> HIDE DEF f
      <4>5. got[c] \o f \in Positions
        BY <4>3, <4>4, JoinedOK DEF Positions
      <4>6. got' \in [Conns -> Positions]
        BY <4>3, <4>4, <4>5
      <4>7. \A d \in Conns : d /= c => taken'[d] = taken[d] /\ got'[d] = got[d]
        BY <2>1, <4>3, <4>4
      <4> QED BY <1>4, <2>1, <4>1, <4>2, <4>6, <4>7, SlotStep
    <3>2. CASE ~IsOpen(s)
      <4>1. UNCHANGED <<slots, got>>
        BY <1>8, <3>2 DEF ClientWrite
      <4>2. slots' \in Seq(Slot) /\ Len(slots') = Len(slots) /\ got' \in [Conns -> Positions]
        BY <1>3, <4>1 DEF BuffersOK, GhostsOK
      <4>3. Apart'
        BY <1>3, <2>1, <4>1 DEF Apart, SlotConns, ElementsOf
      <4> QED BY <4>2, <4>3
    <3> QED BY <3>1, <3>2
  <2>3. WorldOK'
    BY <1>3, <2>1 DEF WorldOK
  <2>4. GhostsOK'
    BY <1>3, <2>1, <2>2 DEF GhostsOK
  <2>5. UNCHANGED copy /\ Awaited'
    BY <2>1, AwaitedDispatch DEF TypeInv, Dispatch
  <2>6. BuffersOK'
    BY <1>3, <2>1, <2>2, <2>5 DEF BuffersOK
  <2>7. stale' \in BOOLEAN /\ pacer' \in 0 .. CharPace
    BY <1>3, <2>1 DEF ControlOK
  <2>8. ControlOK'
    BY <1>3, <2>1, <2>2, <2>7, ControlDispatch
  <2> QED BY <2>2, <2>3, <2>4, <2>5, <2>6, <2>8 DEF TypeInv
<1> QED BY <1>5, <1>6, <1>7, <1>8 DEF Handler

(* stringstore_nextstr finds the first newline, if there is one.           *)
LEMMA LineEndOK ==
  ASSUME NEW q, Len(q) \in Nat, DOMAIN q = 1 .. Len(q)
  PROVE  /\ LineEnd(q) \in Nat /\ LineEnd(q) <= Len(q)
         /\ LineEnd(q) > 0 => NewLine(q[LineEnd(q)])
         /\ \A k \in 1 .. LineEnd(q) - 1 : ~NewLine(q[k])
         /\ LineEnd(q) = 0 => \A k \in 1 .. Len(q) : ~NewLine(q[k])
<1> DEFINE ends == {i \in 1 .. Len(q) : NewLine(q[i])}
<1>1. LineEnd(q) = IF ends = {} THEN 0 ELSE Least(ends)
  BY DEF LineEnd
<1>2. CASE ends = {}
  BY <1>1, <1>2
<1>3. CASE ends /= {}
  <2>1. ends \in SUBSET Nat
    OBVIOUS
  <2> HIDE DEF ends
  <2>2. \E x \in ends : \A y \in ends : x <= y
    BY <1>3, <2>1, LeastNumber
  <2>3. LineEnd(q) \in ends /\ \A y \in ends : LineEnd(q) <= y
    BY <1>1, <1>3, <2>2 DEF Least
  <2> DEFINE m == LineEnd(q)
  <2>4. m \in ends /\ \A y \in ends : m <= y
    BY <2>3
  <2> HIDE DEF m
  <2>5. m \in 1 .. Len(q) /\ NewLine(q[m])
    BY <2>4 DEF ends
  <2>6. \A k \in 1 .. m - 1 : ~NewLine(q[k])
    BY <2>4, <2>5 DEF ends
  <2>7. m \in Nat /\ m > 0 /\ m <= Len(q)
    BY <2>5
  <2> QED BY <2>5, <2>6, <2>7 DEF m
<1> QED BY <1>2, <1>3

(* What hdmi2usb_process makes of a slot, and how much of its line, of     *)
(* length end, the serial device takes.                                    *)
ServedSlot(s, end) ==
  [conn |-> s.conn, state |-> s.state, rbuf |-> <<>>, tbuf |-> Added(s.tbuf, Cap, copy),
   linebuf |-> Rest(Buffered(s), end)]

(* The turn of a client: the line it takes is the front of what it has,    *)
(* and what is queued a part of that.                                      *)
LEMMA ServeEffect ==
  ASSUME TypeInv, ProcessClient
  PROVE  LET s    == slots[turn]
             line == First(Buffered(s), CommandEnd(Buffered(s)))
             end  == CommandEnd(Buffered(s))
             n    == Queued(line)
         IN /\ turn \in 1 .. Len(slots) /\ s \in Slot /\ Buffered(s) \in BytesOf(s.conn)
            /\ end \in Nat /\ end <= Len(Buffered(s)) /\ n \in Nat /\ n <= end
            /\ line \in BytesOf(s.conn) /\ Len(line) = end
            /\ end > 0 => cmdTimer = 0 /\ end = LineEnd(Buffered(s))
            /\ n > 0 => IsOpen(serial)
            /\ Added(s.tbuf, Cap, copy) \in Positions /\ Len(Added(s.tbuf, Cap, copy)) <= Cap
            /\ ServedSlot(s, end) \in Slot
            /\ slots' = [slots EXCEPT ![turn] = ServedSlot(s, end)]
            /\ serial' = [serial EXCEPT !.tbuf = @ \o First(line, n)]
            /\ First(line, n) \in Seq(Conns \X Nat) /\ Len(First(line, n)) = n
            /\ Len(serial.tbuf \o First(line, n)) <= Cap
            /\ serial.tbuf \o First(line, n) \in Seq(Conns \X Nat)
            /\ cmdTimer' = (IF end > 0 THEN Pace ELSE cmdTimer)
            /\ queued' = (IF end > 0 THEN 0 ELSE queued)
            /\ missed' = [missed EXCEPT ![s.conn] = @ \cup
                     ElementsOf(Rest(copy, Fitting(s.tbuf, Cap, copy)))]
            /\ cut' = [cut EXCEPT ![s.conn] = @ \cup {b[2] : b \in ElementsOf(Rest(line, n))}]
            /\ turn' = turn + 1
<1> DEFINE s    == slots[turn]
           c    == s.conn
           q    == Buffered(s)
           end  == CommandEnd(q)
           line == First(q, end)
           n    == Queued(line)
<1>1. turn \in 1 .. Len(slots)
  BY SlotsOK DEF ProcessClient, TypeInv
<1>2. s \in Slot
  BY <1>1, SlotsOK DEF TypeInv
<1>3. /\ c \in Conns /\ s.rbuf \in BytesOf(c) /\ s.linebuf \in BytesOf(c)
      /\ s.tbuf \in Positions /\ Len(s.tbuf) <= Cap /\ s.state \in {"connected", "inactive"}
  BY <1>2, SlotOK
<1>4. /\ slots' = [slots EXCEPT ![turn] = [s EXCEPT !.tbuf = Added(@, Cap, copy),
                                                    !.rbuf = <<>>,
                                                    !.linebuf = Consumed(q, end)]]
      /\ serial' = [serial EXCEPT !.tbuf = @ \o First(line, n)]
      /\ cmdTimer' = (IF end > 0 THEN Pace ELSE cmdTimer)
      /\ queued' = (IF end > 0 THEN 0 ELSE queued)
      /\ missed' = [missed EXCEPT ![c] = @ \cup
                     ElementsOf(Rest(copy, Fitting(s.tbuf, Cap, copy)))]
      /\ cut' = [cut EXCEPT ![c] = @ \cup {b[2] : b \in ElementsOf(Rest(line, n))}]
      /\ turn' = turn + 1
  BY DEF ProcessClient
<1>5. q \in BytesOf(c) /\ Len(q) \in Nat /\ DOMAIN q = 1 .. Len(q)
  <2> DEFINE B == {c} \X (1 .. Sends[c])
  <2>1. s.rbuf \in Seq(B) /\ s.linebuf \in Seq(B)
    BY <1>3 DEF BytesOf
  <2> HIDE DEF B, s, c
  <2>2. s.linebuf \o s.rbuf \in Seq(B)
    BY <2>1, JoinedOK
  <2>3. q \in Seq(B)
    BY <2>2 DEF Buffered
  <2> QED BY <2>3 DEF BytesOf, B
<1>6. q \in Seq(Conns \X Nat)
  BY <1>3, <1>5, BytesOK
<1> HIDE DEF q
<1>7. /\ end \in Nat /\ end <= Len(q) /\ (end > 0 => cmdTimer = 0 /\ end = LineEnd(q))
  <2>1. LineEnd(q) \in Nat /\ LineEnd(q) <= Len(q)
    BY <1>5, LineEndOK
  <2> QED BY <1>5, <2>1 DEF CommandEnd
<1> HIDE DEF end
<1>8. line \in BytesOf(c) /\ Len(line) = end /\ line \in Seq(Conns \X Nat)
  <2>1. line \in Seq({c} \X (1 .. Sends[c])) /\ Len(line) = Lesser(end, Len(q))
    BY <1>5, <1>7, FirstOK DEF BytesOf
  <2>2. Len(line) = end
    BY <1>5, <1>7, <2>1 DEF Lesser
  <2>3. line \in Seq(Conns \X Nat)
    BY <1>6, <1>7, FirstOK
  <2> QED BY <2>1, <2>2, <2>3 DEF BytesOf
<1> HIDE DEF line
<1>9. /\ serial.tbuf \in Seq(Conns \X Nat) /\ Len(serial.tbuf) \in Nat /\ Len(serial.tbuf) <= Cap
      /\ copy \in Seq(1 .. MaxEmit)
  BY DEF TypeInv, BuffersOK, Positions
<1>10. n \in Nat /\ n <= end /\ n <= Cap - Len(serial.tbuf) /\ (n > 0 => IsOpen(serial))
  <2>1. CASE IsOpen(serial)
    <3>1. n = Lesser(Len(line), Cap - Len(serial.tbuf))
      BY <2>1 DEF Queued, Fitting
    <3> HIDE DEF n
    <3>2. Len(line) = end /\ end \in Nat /\ Cap - Len(serial.tbuf) \in Nat
      BY <1>7, <1>8, <1>9, CapOK
    <3>3. n \in Nat /\ n <= end /\ n <= Cap - Len(serial.tbuf)
      BY <3>1, <3>2, LesserOK
    <3> QED BY <2>1, <3>3
  <2>2. CASE ~IsOpen(serial)
    <3>1. n = 0
      BY <2>2 DEF Queued
    <3> QED BY <1>7, <1>9, <3>1, CapOK
  <2> QED BY <2>1, <2>2
<1> HIDE DEF n
<1>11. First(line, n) \in Seq(Conns \X Nat) /\ Len(First(line, n)) = n
  <2>1. First(line, n) \in Seq(Conns \X Nat) /\ Len(First(line, n)) = Lesser(n, Len(line))
    BY <1>8, <1>10, FirstOK
  <2> QED BY <1>7, <1>8, <1>10, <2>1 DEF Lesser
<1>12. /\ serial.tbuf \o First(line, n) \in Seq(Conns \X Nat)
       /\ Len(serial.tbuf \o First(line, n)) <= Cap
  <2>1. /\ serial.tbuf \o First(line, n) \in Seq(Conns \X Nat)
        /\ Len(serial.tbuf \o First(line, n)) = Len(serial.tbuf) + Len(First(line, n))
    BY <1>9, <1>11, JoinedOK
  <2> QED BY <1>9, <1>10, <1>11, <2>1, CapOK
<1>13. Added(s.tbuf, Cap, copy) \in Positions /\ Len(Added(s.tbuf, Cap, copy)) <= Cap
  BY <1>3, <1>9, AddedOK, CapOK DEF Positions
<1>14. Rest(q, end) \in BytesOf(c)
  BY <1>5, <1>7, RestOK DEF BytesOf
<1>15. ServedSlot(s, end) = [conn |-> c, state |-> s.state, rbuf |-> <<>>,
                             tbuf |-> Added(s.tbuf, Cap, copy), linebuf |-> Rest(q, end)]
  BY DEF ServedSlot, q
<1>16. ServedSlot(s, end) \in Slot
  <2> DEFINE t == Added(s.tbuf, Cap, copy)
             l == Rest(q, end)
             r == <<>>
  <2>1. r \in BytesOf(c) /\ Len(r) <= Cap
    BY CapOK DEF BytesOf
  <2>2. t \in Positions /\ Len(t) <= Cap /\ l \in BytesOf(c)
    BY <1>13, <1>14
  <2>3. ServedSlot(s, end) = [conn |-> c, state |-> s.state, rbuf |-> r, tbuf |-> t, linebuf |-> l]
    BY <1>15
  <2> HIDE DEF t, l, r, s, c
  <2> QED BY <1>3, <2>1, <2>2, <2>3, SlotMade
<1>17. slots' = [slots EXCEPT ![turn] = ServedSlot(s, end)]
  <2> DEFINE t == Added(s.tbuf, Cap, copy)
             l == Rest(q, end)
  <2>1. slots' = [slots EXCEPT ![turn] = [s EXCEPT !.tbuf = t, !.rbuf = <<>>, !.linebuf = l]]
    BY <1>4 DEF Consumed
  <2>2. ServedSlot(s, end) = [conn |-> s.conn, state |-> s.state, rbuf |-> <<>>, tbuf |-> t, linebuf |-> l]
    BY <1>15
  <2> HIDE DEF t, l, s
  <2>3. [s EXCEPT !.tbuf = t, !.rbuf = <<>>, !.linebuf = l] = ServedSlot(s, end)
    BY <1>2, <2>2, SlotServed
  <2> QED BY <2>1, <2>3
<1> HIDE DEF s
<1>18. /\ turn \in 1 .. Len(slots) /\ s \in Slot /\ q \in BytesOf(s.conn)
            /\ end \in Nat /\ end <= Len(q) /\ n \in Nat /\ n <= end
            /\ line \in BytesOf(s.conn) /\ Len(line) = end
            /\ (end > 0 => cmdTimer = 0 /\ end = LineEnd(q))
            /\ (n > 0 => IsOpen(serial))
            /\ Added(s.tbuf, Cap, copy) \in Positions /\ Len(Added(s.tbuf, Cap, copy)) <= Cap
            /\ ServedSlot(s, end) \in Slot
            /\ slots' = [slots EXCEPT ![turn] = ServedSlot(s, end)]
  BY <1>1, <1>2, <1>5, <1>7, <1>8, <1>10, <1>13, <1>16, <1>17
<1> QED BY <1>4, <1>11, <1>12, <1>18 DEF s, q, end, line, n

(* hdmi2usb_process keeps the types.                                       *)
LEMMA TypeProcess == ASSUME TypeInv, Process PROVE TypeInv'
<1>1. ControlOK /\ BuffersOK /\ WorldOK /\ GhostsOK /\ Apart /\ Awaited /\ Len(slots) \in Nat
  BY SlotsOK DEF TypeInv
<1>2. /\ serial.state \in States /\ serial.rbuf \in Positions /\ serial.tbuf \in Seq(Conns \X Nat)
      /\ Len(serial.rbuf) \in Nat /\ Len(serial.rbuf) <= Cap
      /\ Len(serial.tbuf) \in Nat /\ Len(serial.tbuf) <= Cap
      /\ serial = [state |-> serial.state, rbuf |-> serial.rbuf, tbuf |-> serial.tbuf]
      /\ copy \in Positions /\ Len(copy) \in Nat /\ Len(copy) <= CopyCap
  BY <1>1 DEF BuffersOK, Positions
<1>3. CASE ProcessSerial
  <2>1. UNCHANGED <<ready, stale, slots, cmdTimer, pacer, port, backlog, sent, shut,
                    taken, joined, got, heard, missed, cut, queued>>
    BY <1>3 DEF ProcessSerial, world, ghosts
  <2>2. WorldOK' /\ GhostsOK' /\ Awaited'
    BY <1>1, <2>1 DEF WorldOK, GhostsOK, Awaited
  <2>3. Apart'
    BY <1>1, <2>1 DEF Apart, SlotConns, ElementsOf
  <2>4. CASE phase' = "exit" /\ UNCHANGED <<serial, copy, turn>>
    <3>1. ControlOK' /\ BuffersOK'
      BY <1>1, <2>1, <2>4 DEF ControlOK, BuffersOK
    <3> QED BY <2>2, <2>3, <3>1 DEF TypeInv
  <2>5. ASSUME NEW n \in Nat, n <= Len(serial.rbuf), n <= CopyCap - Len(copy),
               copy' = copy \o First(serial.rbuf, n),
               serial' = [serial EXCEPT !.rbuf = Rest(@, n)], turn' = 1, phase' = "clients"
        PROVE  TypeInv'
    <3> DEFINE a == First(serial.rbuf, n)
               b == Rest(serial.rbuf, n)
    <3>1. a \in Positions /\ Len(a) = n /\ b \in Positions /\ Len(b) <= Cap
      <4>1. a \in Positions /\ Len(a) = Lesser(n, Len(serial.rbuf))
        BY <1>2, <2>5, FirstOK DEF Positions
      <4>2. b \in Positions /\ Len(b) = Len(serial.rbuf) - Lesser(n, Len(serial.rbuf))
        BY <1>2, <2>5, RestOK DEF Positions
      <4>3. Lesser(n, Len(serial.rbuf)) = n
        BY <1>2, <2>5 DEF Lesser
      <4> HIDE DEF a, b
      <4> QED BY <1>2, <2>5, <4>1, <4>2, <4>3, CapOK
    <3>2. serial' = [state |-> serial.state, rbuf |-> b, tbuf |-> serial.tbuf] /\ copy' = copy \o a
      <4>1. serial' = [serial EXCEPT !.rbuf = b]
        BY <2>5
      <4> HIDE DEF b
      <4> QED BY <1>2, <2>5, <4>1
    <3> HIDE DEF a, b
    <3>3. copy' \in Positions /\ Len(copy') <= CopyCap
      <4>1. copy \o a \in Positions /\ Len(copy \o a) = Len(copy) + Len(a)
        BY <1>2, <3>1, JoinedOK DEF Positions
      <4> QED BY <1>2, <2>5, <3>1, <3>2, <4>1, CapOK
    <3>4. BuffersOK'
      BY <1>1, <1>2, <2>1, <3>1, <3>2, <3>3 DEF BuffersOK
    <3>5. ControlOK'
      BY <1>1, <2>1, <2>5 DEF ControlOK
    <3> QED BY <2>2, <2>3, <3>4, <3>5 DEF TypeInv
  <2>6. CASE serial.state /= "inactive"
    <3> DEFINE n == IF IsOpen(serial) THEN Fitting(copy, CopyCap, serial.rbuf) ELSE 0
    <3>1. /\ copy' = copy \o First(serial.rbuf, n)
          /\ serial' = [serial EXCEPT !.rbuf = Rest(@, n)] /\ turn' = 1 /\ phase' = "clients"
      BY <1>3, <2>6 DEF ProcessSerial
    <3>2. n \in Nat /\ n <= Len(serial.rbuf) /\ n <= CopyCap - Len(copy)
      <4>1. CASE IsOpen(serial)
        <5>1. n = Lesser(Len(serial.rbuf), CopyCap - Len(copy))
          BY <4>1 DEF Fitting
        <5> HIDE DEF n
        <5> QED BY <1>2, <5>1, CapOK DEF Lesser
      <4>2. CASE ~IsOpen(serial)
        BY <1>2, <4>2, CapOK
      <4> QED BY <4>1, <4>2
    <3> HIDE DEF n
    <3> QED BY <2>5, <3>1, <3>2
  <2> QED BY <1>3, <2>4, <2>6 DEF ProcessSerial
<1>4. CASE ProcessClient
  <2> DEFINE s    == slots[turn]
             c    == s.conn
             line == First(Buffered(s), CommandEnd(Buffered(s)))
             end  == CommandEnd(Buffered(s))
             n    == Queued(line)
             new  == ServedSlot(s, end)
             t    == serial.tbuf \o First(line, n)
             lost == ElementsOf(Rest(copy, Fitting(s.tbuf, Cap, copy)))
             off  == {b[2] : b \in ElementsOf(Rest(line, n))}
  <2>1. /\ turn \in 1 .. Len(slots) /\ s \in Slot
        /\ line \in BytesOf(c) /\ n \in Nat
        /\ new \in Slot /\ slots' = [slots EXCEPT ![turn] = new]
        /\ serial' = [serial EXCEPT !.tbuf = t]
        /\ Len(t) <= Cap /\ t \in Seq(Conns \X Nat)
        /\ cmdTimer' = (IF end > 0 THEN Pace ELSE cmdTimer)
        /\ queued' = (IF end > 0 THEN 0 ELSE queued)
        /\ missed' = [missed EXCEPT ![c] = @ \cup lost]
        /\ cut' = [cut EXCEPT ![c] = @ \cup off]
        /\ turn' = turn + 1
    BY <1>1, <1>4, ServeEffect
  <2>2. lost \subseteq 1 .. MaxEmit
    <3>1. s.tbuf \in Seq(1 .. MaxEmit) /\ Len(s.tbuf) <= Cap /\ copy \in Seq(1 .. MaxEmit)
      BY <1>2, <2>1, SlotOK DEF Positions
    <3>2. Fitting(s.tbuf, Cap, copy) \in Nat
      BY <3>1, AddedOK, CapOK
    <3>3. Rest(copy, Fitting(s.tbuf, Cap, copy)) \in Seq(1 .. MaxEmit)
      BY <3>1, <3>2, RestOK
    <3> QED BY <3>3, ElementsOK
  <2>3. off \subseteq Nat
    <3> HIDE DEF line, n, s, c
    <3>1. c \in Conns
      BY <2>1, SlotOK DEF c
    <3>2. line \in Seq(Conns \X Nat)
      BY <2>1, <3>1, BytesOK
    <3>3. Rest(line, n) \in Seq(Conns \X Nat)
      BY <2>1, <3>2, RestOK
    <3>4. ElementsOf(Rest(line, n)) \subseteq Conns \X Nat
      BY <3>3, ElementsOK
    <3> QED BY <3>4
  <2>4. new.conn = c /\ new.state = s.state
    BY DEF ServedSlot
  <2>5. s.state = "inactive" => c \in shut
    BY <1>1, <2>1 DEF Apart
  <2>6. UNCHANGED <<phase, ready, stale, copy, pacer, port, backlog, sent, shut, taken, joined, got, heard>>
    BY <1>4 DEF ProcessClient, world
  <2>7. c \in Conns
    BY <2>1, SlotOK
  <2> HIDE DEF line, n, lost, off, new, t, end
  <2>8. slots' \in Seq(Slot) /\ Len(slots') = Len(slots) /\ Apart'
    BY <2>1, <2>4, <2>5, <2>6, SlotStep
  <2>9. WorldOK'
    BY <1>1, <2>6 DEF WorldOK
  <2>10. GhostsOK'
    <3>1. missed' \in [Conns -> SUBSET (1 .. MaxEmit)]
      BY <1>1, <2>1, <2>2 DEF GhostsOK
    <3>2. cut' \in [Conns -> SUBSET Nat]
      BY <1>1, <2>1, <2>3 DEF GhostsOK
    <3> QED BY <1>1, <2>6, <3>1, <3>2 DEF GhostsOK
  <2>11. BuffersOK'
    <3>1. serial' = [state |-> serial.state, rbuf |-> serial.rbuf, tbuf |-> t]
      BY <1>2, <2>1
    <3> QED BY <1>1, <1>2, <2>1, <2>6, <2>8, <3>1 DEF BuffersOK
  <2>12. ControlOK'
    <3>1. cmdTimer' \in 0 .. Pace /\ queued' \in 0 .. Pace
      BY <1>1, <2>1, CapOK DEF ControlOK
    <3> QED BY <1>1, <2>1, <2>6, <2>8, <3>1 DEF ControlOK
  <2>13. Awaited'
    BY <1>1, <2>6 DEF Awaited
  <2> QED BY <2>8, <2>9, <2>10, <2>11, <2>12, <2>13 DEF TypeInv
<1>5. CASE ProcessEnd
  <2>1. UNCHANGED <<ready, serial, slots, cmdTimer, pacer, port, backlog, sent, shut,
                    taken, joined, got, heard, missed, cut, queued>>
        /\ copy' = <<>> /\ turn' = 1 /\ phase' = "poll"
    BY <1>5 DEF ProcessEnd, world, ghosts
  <2>2. stale' \in BOOLEAN
    BY <1>5 DEF ProcessEnd
  <2>3. WorldOK' /\ GhostsOK' /\ Awaited'
    BY <1>1, <2>1 DEF WorldOK, GhostsOK, Awaited
  <2>4. Apart'
    BY <1>1, <2>1 DEF Apart, SlotConns, ElementsOf
  <2>5. ControlOK'
    BY <1>1, <2>1, <2>2 DEF ControlOK
  <2>6. BuffersOK'
    <3>1. copy' \in Positions /\ Len(copy') <= CopyCap
      BY <2>1, CapOK DEF Positions
    <3> QED BY <1>1, <2>1, <3>1 DEF BuffersOK
  <2> QED BY <2>3, <2>4, <2>5, <2>6 DEF TypeInv
<1> QED BY <1>3, <1>4, <1>5 DEF Process

(* The steps, each with what its device is.                                *)
LEMMA NextCases ==
  ASSUME TypeInv, Next
  PROVE  \/ Poll \/ SerialRead \/ SerialEof \/ SerialWrite \/ Accept
         \/ \E i \in 1 .. Len(slots) : Handler(i)
         \/ ProcessSerial \/ ProcessClient \/ ProcessEnd
         \/ Emit \/ Unplug \/ Tick \/ \E c \in Conns : ClientSide(c)
BY SlotsOK DEF TypeInv, Next, Handle, Process

(* A step keeps the types.                                                 *)
LEMMA TypeNext == ASSUME TypeInv, [Next]_vars PROVE TypeInv'
<1>1. CASE Next
  BY <1>1, NextCases, TypePoll, TypeSerial, TypeAccept, TypeHandler, TypeProcess, TypeWorld,
     TypeClient DEF Process
<1>2. CASE UNCHANGED vars
  <2>1. UNCHANGED <<phase, turn, ready, stale, serial, slots, copy, cmdTimer, pacer, port, backlog, sent,
                    shut, taken, joined, got, heard, missed, cut, queued>>
    BY <1>2 DEF vars, daemon, world, ghosts
  <2>2. ControlOK' /\ BuffersOK' /\ WorldOK' /\ GhostsOK' /\ Awaited'
    BY <2>1 DEF TypeInv, ControlOK, BuffersOK, WorldOK, GhostsOK, Awaited
  <2>3. Apart'
    BY <2>1 DEF TypeInv, Apart, SlotConns, ElementsOf
  <2> QED BY <2>2, <2>3 DEF TypeInv
<1> QED BY <1>1, <1>2

(* The gateway keeps its variables within their types and its buffers      *)
(* within their capacities, the bytes of a client in no slot but its own,  *)
(* and a client is never read beyond what it sent.                         *)
THEOREM TypeCorrect == Spec => []TypeOK
<1>1. TypeInv => TypeOK
  <2> SUFFICES ASSUME TypeInv PROVE TypeOK
    OBVIOUS
  <2>1. DOMAIN slots = 1 .. Len(slots) /\ Len(slots) \in Nat /\ \A i \in 1 .. Len(slots) : slots[i] \in Slot
    BY SlotsOK DEF TypeInv
  <2>2. ASSUME NEW i \in DOMAIN slots
        PROVE  /\ slots[i].conn \in Conns /\ slots[i].state \in {"connected", "inactive"}
               /\ slots[i].rbuf \in BytesOf(slots[i].conn) /\ Len(slots[i].rbuf) <= Cap
               /\ slots[i].tbuf \in Positions /\ Len(slots[i].tbuf) <= Cap
               /\ slots[i].linebuf \in BytesOf(slots[i].conn)
    BY <2>1, SlotOK
  <2>3. ControlOK /\ BuffersOK /\ WorldOK
    BY DEF TypeInv
  <2>4. turn \in 1 .. Len(slots) + 1
    BY <2>1, <2>3 DEF ControlOK
  <2>5. /\ serial.state \in States /\ serial.rbuf \in Positions /\ Len(serial.rbuf) <= Cap
        /\ serial.tbuf \in Seq(Conns \X Nat) /\ Len(serial.tbuf) <= Cap
        /\ copy \in Positions /\ Len(copy) <= CopyCap
    BY <2>3 DEF BuffersOK
  <2>6. \A c \in Conns : taken[c] <= sent[c] /\ sent[c] <= Sends[c]
    BY <2>3 DEF WorldOK
  <2> QED BY <2>2, <2>3, <2>4, <2>5, <2>6 DEF TypeOK, ControlOK
<1>2. TypeInv /\ [Next]_vars => TypeInv'
  BY TypeNext
<1> QED BY <1>1, <1>2, TypeInit, PTL DEF Spec

------------------------------------------------------------------------------
(* The pause between two commands.                                         *)

(* Only a whole line that starts the timer is queued, and only with the    *)
(* timer expired; the ticks count both alike.                              *)
LEMMA PaceStep ==
  ASSUME TypeInv, PaceInv, [Next]_vars
  PROVE  PaceInv' /\ (cmdTimer' > cmdTimer \/ Len(serial.tbuf') > Len(serial.tbuf) => queued = Pace)
<1>1. /\ cmdTimer \in 0 .. Pace /\ queued \in 0 .. Pace /\ Pace \in Nat
      /\ serial.tbuf \in Seq(Conns \X Nat) /\ Len(serial.tbuf) \in Nat
      /\ serial \in [state : States, rbuf : Positions, tbuf : Seq(Conns \X Nat)]
  BY CapOK DEF TypeInv, ControlOK, BuffersOK
<1>2. ASSUME UNCHANGED <<cmdTimer, queued>>, Len(serial.tbuf') <= Len(serial.tbuf), Len(serial.tbuf') \in Nat
      PROVE  PaceInv' /\ ~(cmdTimer' > cmdTimer) /\ ~(Len(serial.tbuf') > Len(serial.tbuf))
  BY <1>1, <1>2 DEF PaceInv
<1>3. ASSUME UNCHANGED <<cmdTimer, queued, serial>>
      PROVE  PaceInv' /\ ~(cmdTimer' > cmdTimer) /\ ~(Len(serial.tbuf') > Len(serial.tbuf))
  BY <1>1, <1>2, <1>3
<1>4. CASE UNCHANGED vars
  BY <1>3, <1>4 DEF vars, daemon, ghosts
<1>5. CASE Poll
  <2>1. UNCHANGED <<cmdTimer, queued>>
    BY <1>5 DEF Poll, ghosts
  <2>2. serial.tbuf' = serial.tbuf
    <3>1. CASE serial' = serial
      BY <3>1
    <3>2. CASE \E outcome \in OpenResults : serial' = [serial EXCEPT !.state = outcome]
      BY <1>1, <3>2
    <3> QED BY <1>5, <3>1, <3>2 DEF Poll, Reopen
  <2> QED BY <1>1, <1>2, <2>1, <2>2
<1>6. CASE SerialRead \/ SerialEof \/ SerialWrite
  <2>1. UNCHANGED <<cmdTimer, queued>>
    BY <1>6 DEF SerialRead, SerialEof, SerialWrite, Dispatch, ghosts
  <2>2. Len(serial.tbuf') <= Len(serial.tbuf) /\ Len(serial.tbuf') \in Nat
    <3>1. CASE SerialRead
      <4> DEFINE r == serial.rbuf \o Numbers(port.taken, port.taken + Lesser(SerialRoom, port.emitted - port.taken))
      <4>1. serial' = [serial EXCEPT !.rbuf = r]
        BY <3>1 DEF SerialRead
      <4> HIDE DEF r
      <4> QED BY <1>1, <4>1
    <3>2. CASE SerialEof
      BY <1>1, <3>2 DEF SerialEof
    <3>3. CASE serial' = serial
      BY <1>1, <3>3
    <3>4. CASE serial.tbuf /= <<>> /\ serial' = [serial EXCEPT !.tbuf = Tail(@)]
      <4>1. serial'.tbuf = Tail(serial.tbuf)
        BY <1>1, <3>4
      <4> QED BY <1>1, <3>4, <4>1, HeadTailProperties
    <3>5. CASE serial' = [serial EXCEPT !.state = "closed"]
      BY <1>1, <3>5
    <3> QED BY <1>6, <3>1, <3>2, <3>3, <3>4, <3>5 DEF SerialWrite
  <2> QED BY <1>2, <2>1, <2>2
<1>7. CASE Accept \/ \E i \in 1 .. Len(slots) : Handler(i)
  BY <1>3, <1>7 DEF Accept, Handler, ClientRead, ClientEof, ClientWrite, ClientWriteFails, SigPipe,
                    Dispatch, ghosts
<1>8. CASE ProcessSerial \/ ProcessEnd
  <2>1. UNCHANGED <<cmdTimer, queued>>
    BY <1>8 DEF ProcessSerial, ProcessEnd, ghosts
  <2>2. serial'.tbuf = serial.tbuf
    <3>1. CASE serial' = serial
      BY <3>1
    <3>2. ASSUME NEW r, serial' = [serial EXCEPT !.rbuf = r] PROVE serial'.tbuf = serial.tbuf
      BY <1>1, <3>2
    <3> QED BY <1>8, <3>1, <3>2 DEF ProcessSerial, ProcessEnd
  <2> QED BY <1>1, <1>2, <2>1, <2>2
<1>9. CASE ProcessClient
  <2> DEFINE line == First(Buffered(slots[turn]), CommandEnd(Buffered(slots[turn])))
             end  == CommandEnd(Buffered(slots[turn]))
             n    == Queued(line)
             t    == serial.tbuf \o First(line, n)
  <2>1. /\ end \in Nat /\ n \in Nat /\ n <= end /\ (end > 0 => cmdTimer = 0)
        /\ serial' = [serial EXCEPT !.tbuf = t] /\ First(line, n) \in Seq(Conns \X Nat)
        /\ Len(First(line, n)) = n
        /\ cmdTimer' = (IF end > 0 THEN Pace ELSE cmdTimer)
        /\ queued' = (IF end > 0 THEN 0 ELSE queued)
    BY <1>9, ServeEffect
  <2>2. serial'.tbuf = t
    <3> HIDE DEF t
    <3> QED BY <1>1, <2>1
  <2>3. n = 0 => Len(t) = Len(serial.tbuf)
    <3> HIDE DEF n, line
    <3>1. Len(t) = Len(serial.tbuf) + Len(First(line, n))
      BY <1>1, <2>1, JoinedOK
    <3> QED BY <1>1, <2>1, <3>1
  <2> HIDE DEF line, end, n, t
  <2>4. CASE end = 0
    BY <1>1, <1>2, <2>1, <2>2, <2>3, <2>4
  <2>5. CASE end > 0
    BY <1>1, <2>1, <2>5 DEF PaceInv
  <2> QED BY <2>1, <2>4, <2>5
<1>10. CASE Emit \/ Unplug \/ \E c \in Conns : ClientSide(c)
  BY <1>3, <1>10 DEF Emit, Unplug, ClientSide, Connect, Send, Shut, daemon, ghosts
<1>11. CASE Tick
  <2>1. /\ cmdTimer' = (IF cmdTimer > 0 THEN cmdTimer - 1 ELSE 0)
        /\ queued' = Lesser(queued + 1, Pace) /\ serial' = serial
    BY <1>11 DEF Tick
  <2> QED BY <1>1, <2>1 DEF PaceInv, Lesser
<1> QED BY <1>4, <1>5, <1>6, <1>7, <1>8, <1>9, <1>10, <1>11, NextCases

(* At every pace, and whatever the clock does inside hdmi2usb_process: the *)
(* timer is started, and bytes are queued for the serial device, only when *)
(* the last command of whatever client is Pace ticks old.                  *)
THEOREM PaceCorrect == Spec => CommandsPaced
<1>1. Init => PaceInv
  BY CapOK DEF Init, PaceInv
<1>2. TypeInv /\ PaceInv /\ [Next]_vars => PaceInv' /\ TypeInv'
  BY PaceStep, TypeNext
<1>3. TypeInv /\ PaceInv /\ [Next]_vars =>
        [cmdTimer' > cmdTimer \/ Len(serial.tbuf') > Len(serial.tbuf) => queued = Pace]_vars
  BY PaceStep
<1> QED BY <1>1, <1>2, <1>3, TypeInit, PTL DEF Spec, CommandsPaced

------------------------------------------------------------------------------
(* What is on its way to the serial device.                                *)

(* The bytes of a connection in a sequence.                                *)
LEMMA NumbersIn ==
  ASSUME NEW S, NEW s \in Seq(S), NEW c
  PROVE  /\ \A x \in NumbersOf(c, s) : \E k \in 1 .. Len(s) : s[k][1] = c /\ s[k][2] = x
         /\ \A k \in 1 .. Len(s) : s[k][1] = c => s[k][2] \in NumbersOf(c, s)
<1>1. DOMAIN s = 1 .. Len(s)
  OBVIOUS
<1> QED BY <1>1 DEF NumbersOf

(* The elements of two sequences in a row.                                 *)
LEMMA ConcatOK ==
  ASSUME NEW S, NEW a \in Seq(S), NEW b \in Seq(S)
  PROVE  /\ a \o b \in Seq(S) /\ Len(a) \in Nat /\ Len(b) \in Nat
         /\ Len(a \o b) = Len(a) + Len(b) /\ DOMAIN (a \o b) = 1 .. Len(a) + Len(b)
         /\ \A k \in 1 .. Len(a) : k \in 1 .. Len(a \o b) /\ (a \o b)[k] = a[k]
         /\ \A k \in 1 .. Len(b) : Len(a) + k \in 1 .. Len(a \o b) /\ (a \o b)[Len(a) + k] = b[k]
         /\ \A k \in 1 .. Len(a \o b) :
              k \in 1 .. Len(a) \/ (k - Len(a) \in 1 .. Len(b) /\ (a \o b)[k] = b[k - Len(a)])
<1> DEFINE d == a \o b
<1>1. d \in Seq(S) /\ Len(d) = Len(a) + Len(b)
      /\ \A i \in 1 .. Len(a) + Len(b) : d[i] = IF i <= Len(a) THEN a[i] ELSE b[i - Len(a)]
  BY ConcatProperties
<1>2. Len(a) \in Nat /\ Len(b) \in Nat /\ DOMAIN d = 1 .. Len(d)
  BY <1>1
<1> HIDE DEF d
<1>3. \A k \in 1 .. Len(a) : k \in 1 .. Len(d) /\ d[k] = a[k]
  BY <1>1, <1>2
<1>4. \A k \in 1 .. Len(b) : Len(a) + k \in 1 .. Len(d) /\ d[Len(a) + k] = b[k]
  <2> SUFFICES ASSUME NEW k \in 1 .. Len(b) PROVE Len(a) + k \in 1 .. Len(d) /\ d[Len(a) + k] = b[k]
    OBVIOUS
  <2>1. Len(a) + k \in 1 .. Len(d) /\ ~(Len(a) + k <= Len(a)) /\ (Len(a) + k) - Len(a) = k
    BY <1>1, <1>2
  <2> QED BY <1>1, <2>1
<1>5. \A k \in 1 .. Len(d) : k \in 1 .. Len(a) \/ (k - Len(a) \in 1 .. Len(b) /\ d[k] = b[k - Len(a)])
  BY <1>1, <1>2
<1> QED BY <1>1, <1>2, <1>3, <1>4, <1>5 DEF d

(* The bytes of two sequences one after the other.                         *)
LEMMA NumbersConcat ==
  ASSUME NEW S, NEW a \in Seq(S), NEW b \in Seq(S), NEW c
  PROVE  NumbersOf(c, a \o b) = NumbersOf(c, a) \cup NumbersOf(c, b)
<1> DEFINE d == a \o b
<1>1. /\ d \in Seq(S) /\ Len(a) \in Nat /\ Len(b) \in Nat
      /\ \A k \in 1 .. Len(a) : k \in 1 .. Len(d) /\ d[k] = a[k]
      /\ \A k \in 1 .. Len(b) : Len(a) + k \in 1 .. Len(d) /\ d[Len(a) + k] = b[k]
      /\ \A k \in 1 .. Len(d) : k \in 1 .. Len(a) \/ (k - Len(a) \in 1 .. Len(b) /\ d[k] = b[k - Len(a)])
  BY ConcatOK
<1> HIDE DEF d
<1>2. ASSUME NEW x \in NumbersOf(c, d) PROVE x \in NumbersOf(c, a) \cup NumbersOf(c, b)
  <2>1. PICK k \in 1 .. Len(d) : d[k][1] = c /\ d[k][2] = x
    BY <1>1, NumbersIn
  <2>2. CASE k \in 1 .. Len(a)
    BY <1>1, <2>1, <2>2, NumbersIn
  <2>3. CASE k - Len(a) \in 1 .. Len(b) /\ d[k] = b[k - Len(a)]
    BY <2>1, <2>3, NumbersIn
  <2> QED BY <1>1, <2>2, <2>3
<1>3. ASSUME NEW x \in NumbersOf(c, a) PROVE x \in NumbersOf(c, d)
  <2>1. PICK k \in 1 .. Len(a) : a[k][1] = c /\ a[k][2] = x
    BY NumbersIn
  <2>2. k \in 1 .. Len(d) /\ d[k] = a[k]
    BY <1>1
  <2> QED BY <1>1, <2>1, <2>2, NumbersIn
<1>4. ASSUME NEW x \in NumbersOf(c, b) PROVE x \in NumbersOf(c, d)
  <2>1. PICK k \in 1 .. Len(b) : b[k][1] = c /\ b[k][2] = x
    BY NumbersIn
  <2>2. Len(a) + k \in 1 .. Len(d) /\ d[Len(a) + k] = b[k]
    BY <1>1
  <2> QED BY <1>1, <2>1, <2>2, NumbersIn
<1> QED BY <1>2, <1>3, <1>4 DEF d

(* What may be added to numbers in order.                                  *)
LEMMA InOrderConcat ==
  ASSUME NEW S, NEW a \in Seq(S), NEW b \in Seq(S), NEW c,
         InOrder(c, a), InOrder(c, b), \A x \in NumbersOf(c, a), y \in NumbersOf(c, b) : x < y
  PROVE  InOrder(c, a \o b)
<1> DEFINE d == a \o b
<1>1. /\ d \in Seq(S) /\ Len(a) \in Nat /\ Len(b) \in Nat /\ DOMAIN d = 1 .. Len(d)
      /\ Len(d) = Len(a) + Len(b)
      /\ \A k \in 1 .. Len(a) : k \in 1 .. Len(d) /\ d[k] = a[k]
      /\ \A k \in 1 .. Len(d) : k \in 1 .. Len(a) \/ (k - Len(a) \in 1 .. Len(b) /\ d[k] = b[k - Len(a)])
  BY ConcatOK
<1> HIDE DEF d
<1>2. DOMAIN a = 1 .. Len(a) /\ DOMAIN b = 1 .. Len(b)
  OBVIOUS
<1> SUFFICES ASSUME NEW j \in 1 .. Len(d), NEW k \in 1 .. Len(d), j < k, d[j][1] = c, d[k][1] = c
             PROVE  d[j][2] < d[k][2]
  BY <1>1 DEF InOrder, d
<1>3. CASE k \in 1 .. Len(a)
  <2>1. j \in 1 .. Len(a)
    BY <1>1, <1>3
  <2>2. d[j] = a[j] /\ d[k] = a[k]
    BY <1>1, <1>3, <2>1
  <2> QED BY <1>2, <1>3, <2>1, <2>2 DEF InOrder
<1>4. CASE k - Len(a) \in 1 .. Len(b) /\ d[k] = b[k - Len(a)]
  <2>1. CASE j \in 1 .. Len(a)
    <3>1. d[j] = a[j]
      BY <1>1, <2>1
    <3>2. d[j][2] \in NumbersOf(c, a) /\ d[k][2] \in NumbersOf(c, b)
      BY <1>4, <2>1, <3>1, NumbersIn
    <3> QED BY <3>2
  <2>2. CASE j - Len(a) \in 1 .. Len(b) /\ d[j] = b[j - Len(a)]
    <3>1. j - Len(a) < k - Len(a)
      BY <1>1
    <3> QED BY <1>2, <1>4, <2>2, <3>1 DEF InOrder
  <2> QED BY <1>1, <2>1, <2>2
<1> QED BY <1>1, <1>3, <1>4

(* A part of an ordered sequence is ordered.                               *)
LEMMA InOrderPrefix ==
  ASSUME NEW S, NEW a \in Seq(S), NEW b \in Seq(S), NEW c, InOrder(c, a \o b)
  PROVE  InOrder(c, a) /\ \A x \in NumbersOf(c, a), y \in NumbersOf(c, b) : x < y
<1> DEFINE d == a \o b
<1>1. /\ d \in Seq(S) /\ Len(a) \in Nat /\ Len(b) \in Nat /\ DOMAIN d = 1 .. Len(d)
      /\ DOMAIN a = 1 .. Len(a)
      /\ \A k \in 1 .. Len(a) : k \in 1 .. Len(d) /\ d[k] = a[k]
      /\ \A k \in 1 .. Len(b) : Len(a) + k \in 1 .. Len(d) /\ d[Len(a) + k] = b[k]
  BY ConcatOK
<1>2. InOrder(c, d)
  OBVIOUS
<1> HIDE DEF d
<1>3. \A j, k \in 1 .. Len(d) : j < k /\ d[j][1] = c /\ d[k][1] = c => d[j][2] < d[k][2]
  BY <1>1, <1>2 DEF InOrder
<1>4. InOrder(c, a)
  BY <1>1, <1>3 DEF InOrder
<1>5. ASSUME NEW x \in NumbersOf(c, a), NEW y \in NumbersOf(c, b) PROVE x < y
  <2>1. PICK j \in 1 .. Len(a) : a[j][1] = c /\ a[j][2] = x
    BY NumbersIn
  <2>2. PICK k \in 1 .. Len(b) : b[k][1] = c /\ b[k][2] = y
    BY NumbersIn
  <2>3. j < Len(a) + k
    BY <1>1
  <2> QED BY <1>1, <1>3, <2>1, <2>2, <2>3
<1> QED BY <1>4, <1>5

(* The numbers of bytes, whoever sent them.                                *)
Offsets(s) == {b[2] : b \in ElementsOf(s)}

(* A run of n bytes of one connection, from the m + 1st.                   *)
IsRun(s, c, m, n) == Len(s) = n /\ \A k \in 1 .. n : s[k] = <<c, m + k>>

(* A run of bytes of one connection has each of them once, in order, and   *)
(* none of another.                                                        *)
LEMMA RunOK ==
  ASSUME NEW S, NEW s \in Seq(S), NEW c, NEW m \in Nat, NEW n \in Nat, IsRun(s, c, m, n)
  PROVE  /\ NumbersOf(c, s) = m + 1 .. m + n /\ \A d : d /= c => NumbersOf(d, s) = {}
         /\ Offsets(s) = m + 1 .. m + n /\ \A d : InOrder(d, s)
<1>1. DOMAIN s = 1 .. n /\ Len(s) = n
  BY DEF IsRun
<1>2. \A k \in 1 .. n : s[k][1] = c /\ s[k][2] = m + k
  BY DEF IsRun
<1>3. \A x \in m + 1 .. m + n : x - m \in 1 .. n /\ m + (x - m) = x
  OBVIOUS
<1>4. NumbersOf(c, s) = m + 1 .. m + n
  <2>1. ASSUME NEW x \in NumbersOf(c, s) PROVE x \in m + 1 .. m + n
    <3>1. PICK k \in 1 .. n : s[k][2] = x
      BY <1>1, NumbersIn
    <3> QED BY <1>2, <3>1
  <2>2. ASSUME NEW x \in m + 1 .. m + n PROVE x \in NumbersOf(c, s)
    <3> DEFINE k == x - m
    <3>1. k \in 1 .. n /\ m + k = x
      BY <1>3
    <3> HIDE DEF k
    <3>2. k \in 1 .. Len(s) /\ s[k][1] = c /\ s[k][2] = x
      BY <1>1, <1>2, <3>1
    <3> QED BY <3>2, NumbersIn
  <2> QED BY <2>1, <2>2
<1>5. ASSUME NEW d, d /= c PROVE NumbersOf(d, s) = {}
  <2> SUFFICES ASSUME NEW x \in NumbersOf(d, s) PROVE FALSE
    OBVIOUS
  <2>1. PICK k \in 1 .. n : s[k][1] = d
    BY <1>1, NumbersIn
  <2> QED BY <1>2, <1>5, <2>1
<1>6. Offsets(s) = m + 1 .. m + n
  <2>1. ASSUME NEW b \in ElementsOf(s) PROVE b[2] \in m + 1 .. m + n
    <3>1. PICK k \in 1 .. n : s[k] = b
      BY <1>1 DEF ElementsOf
    <3> QED BY <1>2, <3>1
  <2>2. ASSUME NEW x \in m + 1 .. m + n PROVE \E b \in ElementsOf(s) : b[2] = x
    <3>1. x - m \in 1 .. n /\ s[x - m][2] = x
      BY <1>2, <1>3
    <3>2. s[x - m] \in ElementsOf(s)
      BY <1>1, <3>1 DEF ElementsOf
    <3> QED BY <3>1, <3>2
  <2> QED BY <2>1, <2>2 DEF Offsets
<1>7. ASSUME NEW d PROVE InOrder(d, s)
  <2> SUFFICES ASSUME NEW j \in 1 .. n, NEW k \in 1 .. n, j < k PROVE s[j][2] < s[k][2]
    BY <1>1 DEF InOrder
  <2>1. s[j][2] = m + j /\ s[k][2] = m + k
    BY <1>2
  <2> QED BY <2>1
<1> QED BY <1>4, <1>5, <1>6, <1>7

(* What went, and will go, to the serial device.                           *)
LEMMA WireOK ==
  ASSUME TypeInv
  PROVE  /\ Wire \in Seq(Conns \X Nat) /\ heard \in Seq(Conns \X Nat) /\ serial.tbuf \in Seq(Conns \X Nat)
         /\ Len(Wire) \in Nat /\ DOMAIN Wire = 1 .. Len(Wire)
<1>1. heard \in Seq(Conns \X Nat) /\ serial.tbuf \in Seq(Conns \X Nat)
  BY DEF TypeInv, GhostsOK, BuffersOK
<1>2. heard \o serial.tbuf \in Seq(Conns \X Nat)
  BY <1>1, JoinedOK
<1>3. Wire \in Seq(Conns \X Nat)
  BY <1>2 DEF Wire
<1> QED BY <1>1, <1>3

(* What a connection has is its line store and then its read buffer.       *)
LEMMA BufferedOK ==
  ASSUME NEW s \in Slot
  PROVE  /\ Buffered(s) \in BytesOf(s.conn) /\ Buffered(s) \in Seq(Conns \X Nat)
         /\ Len(Buffered(s)) \in Nat /\ Len(s.linebuf) \in Nat /\ Len(s.rbuf) \in Nat
         /\ Len(Buffered(s)) = Len(s.linebuf) + Len(s.rbuf)
         /\ \A k \in 1 .. Len(s.linebuf) : Buffered(s)[k] = s.linebuf[k]
         /\ \A k \in 1 .. Len(s.rbuf) : Buffered(s)[Len(s.linebuf) + k] = s.rbuf[k]
<1> DEFINE B == {s.conn} \X (1 .. Sends[s.conn])
           l == s.linebuf
           r == s.rbuf
<1>1. l \in Seq(B) /\ r \in Seq(B) /\ l \in Seq(Conns \X Nat) /\ r \in Seq(Conns \X Nat)
  BY SlotOK DEF BytesOf
<1> DEFINE d == Buffered(s)
<1>2. d = l \o r
  BY DEF Buffered
<1> HIDE DEF B, l, r, d
<1>3. d \in Seq(Conns \X Nat)
  BY <1>1, <1>2, ConcatOK
<1>4. d \in Seq(B) /\ Len(l) \in Nat /\ Len(r) \in Nat /\ Len(d) = Len(l) + Len(r)
  BY <1>1, <1>2, ConcatOK
<1>5. /\ \A k \in 1 .. Len(l) : d[k] = l[k]
      /\ \A k \in 1 .. Len(r) : d[Len(l) + k] = r[k]
  BY <1>1, <1>2, ConcatOK
<1>6. d \in BytesOf(s.conn) /\ Len(d) \in Nat
  BY <1>4 DEF B, BytesOf
<1> QED BY <1>3, <1>4, <1>5, <1>6 DEF l, r, d

(* A step that disturbs nothing of what a slot holds of its client.        *)
LEMMA FollowsSame ==
  ASSUME NEW s, NEW t, t.conn = s.conn, t.state = s.state, t.rbuf = s.rbuf, t.linebuf = s.linebuf,
         NEW m, NEW wire, NEW wire2, NEW read, NEW lost, NumbersOf(s.conn, wire2) = NumbersOf(s.conn, wire),
         Follows(s, m, wire, read, lost)
  PROVE  Follows(t, m, wire2, read, lost)
<1>1. Buffered(t) = Buffered(s)
  BY DEF Buffered
<1>2. IsOpen(t) <=> IsOpen(s)
  BY DEF IsOpen
<1> QED BY <1>1, <1>2 DEF Follows

(* A step that touches nothing on the way to the serial device.            *)
LEMMA UpSame ==
  ASSUME UpInv, Len(slots) \in Nat, DOMAIN slots = 1 .. Len(slots), DOMAIN slots' = DOMAIN slots,
         Len(slots') = Len(slots),
         \A i \in 1 .. Len(slots) : /\ slots'[i].conn = slots[i].conn /\ slots'[i].state = slots[i].state
                                    /\ slots'[i].rbuf = slots[i].rbuf
                                    /\ slots'[i].linebuf = slots[i].linebuf,
         UNCHANGED <<taken, cut>>, Wire' = Wire
  PROVE  UpInv'
<1>1. SlotConns' = SlotConns
  BY DEF SlotConns
<1>2. ASSUME NEW i \in 1 .. Len(slots')
      PROVE  \E m \in 0 .. taken'[slots'[i].conn] :
               Follows(slots'[i], m, Wire', taken'[slots'[i].conn], cut'[slots'[i].conn])
  <2>1. PICK m \in 0 .. taken[slots[i].conn] :
               Follows(slots[i], m, Wire, taken[slots[i].conn], cut[slots[i].conn])
    BY DEF UpInv
  <2>2. Follows(slots'[i], m, Wire, taken[slots[i].conn], cut[slots[i].conn])
    BY <2>1, FollowsSame
  <2> QED BY <2>1, <2>2
<1> QED BY <1>1, <1>2 DEF UpInv

(* The steps that move no byte towards the serial device or take one from  *)
(* a client.                                                               *)
LEMMA UpQuiet ==
  ASSUME TypeInv, UpInv,
         \/ Poll \/ SerialRead \/ SerialWrite \/ ProcessSerial \/ ProcessEnd
         \/ Emit \/ Unplug \/ Tick \/ (\E c \in Conns : ClientSide(c)) \/ UNCHANGED vars
         \/ \E i \in 1 .. Len(slots) : SigPipe(i) \/ ClientWrite(i)
  PROVE  UpInv' /\ Wire' = Wire /\ UNCHANGED taken
<1>1. Len(slots) \in Nat /\ DOMAIN slots = 1 .. Len(slots)
  BY SlotsOK DEF TypeInv
<1>2. serial \in [state : States, rbuf : Positions, tbuf : Seq(Conns \X Nat)]
  BY DEF TypeInv, BuffersOK
<1>3. ASSUME UNCHANGED <<slots, taken, cut>>, Wire' = Wire PROVE UpInv' /\ Wire' = Wire /\ UNCHANGED taken
  BY <1>1, <1>3, UpSame
<1>4. ASSUME serial'.tbuf = serial.tbuf, heard' = heard PROVE Wire' = Wire
  BY <1>4 DEF Wire
<1>5. CASE Poll
  <2>1. UNCHANGED <<slots, taken, cut, heard>>
    BY <1>5 DEF Poll, ghosts
  <2>2. CASE serial' = serial
    BY <1>3, <1>4, <2>1, <2>2
  <2>3. CASE \E outcome \in OpenResults : serial' = [serial EXCEPT !.state = outcome]
    <3>1. serial'.tbuf = serial.tbuf
      BY <1>2, <2>3
    <3> QED BY <1>3, <1>4, <2>1, <3>1
  <2> QED BY <1>5, <2>2, <2>3 DEF Poll, Reopen
<1>6. CASE SerialRead \/ ProcessSerial
  <2>1. UNCHANGED <<slots, taken, cut, heard>>
    BY <1>6 DEF SerialRead, ProcessSerial, ghosts
  <2>2. \/ serial' = serial
        \/ \E r : serial' = [serial EXCEPT !.rbuf = r]
    BY <1>6 DEF SerialRead, ProcessSerial
  <2>3. serial'.tbuf = serial.tbuf
    BY <1>2, <2>2
  <2> QED BY <1>3, <1>4, <2>1, <2>3
<1>7. CASE SerialWrite
  <2>1. UNCHANGED <<slots, taken, cut>>
    BY <1>7 DEF SerialWrite
  <2>2. CASE UNCHANGED <<serial, heard>>
    BY <1>3, <1>4, <2>1, <2>2
  <2>3. CASE serial' = [serial EXCEPT !.state = "closed"] /\ heard' = heard
    <3>1. serial'.tbuf = serial.tbuf
      BY <1>2, <2>3
    <3> QED BY <1>3, <1>4, <2>1, <2>3, <3>1
  <2>4. CASE /\ serial.tbuf /= <<>> /\ heard' = Append(heard, Head(serial.tbuf))
             /\ serial' = [serial EXCEPT !.tbuf = Tail(@)]
    <3> DEFINE t == serial.tbuf
    <3>1. t \in Seq(Conns \X Nat) /\ heard \in Seq(Conns \X Nat) /\ t /= <<>>
      BY <2>4, WireOK
    <3>2. serial'.tbuf = Tail(t) /\ heard' = Append(heard, Head(t))
      BY <1>2, <2>4
    <3> HIDE DEF t
    <3>3. Append(heard, Head(t)) \o Tail(t) = heard \o t
      <4>1. Head(t) \in Conns \X Nat /\ Tail(t) \in Seq(Conns \X Nat)
        BY <3>1, HeadTailProperties
      <4> DEFINE a == Append(heard, Head(t))
                 b == Tail(t)
      <4>2. a \in Seq(Conns \X Nat) /\ b \in Seq(Conns \X Nat) /\ Len(a) = Len(heard) + 1
            /\ Len(b) = Len(t) - 1 /\ Len(t) >= 1 /\ Len(t) \in Nat /\ Len(heard) \in Nat
            /\ a[Len(heard) + 1] = t[1] /\ (\A k \in 1 .. Len(heard) : a[k] = heard[k])
            /\ \A k \in 1 .. Len(t) - 1 : b[k] = t[k + 1]
        BY <3>1, <4>1, AppendProperties, HeadTailProperties
      <4> HIDE DEF a, b
      <4>3. /\ a \o b \in Seq(Conns \X Nat) /\ Len(a \o b) = Len(a) + Len(b)
            /\ \A i \in 1 .. Len(a) + Len(b) : (a \o b)[i] = IF i <= Len(a) THEN a[i] ELSE b[i - Len(a)]
        BY <4>2, ConcatProperties
      <4> DEFINE w == a \o b
      <4>4. /\ w \in Seq(Conns \X Nat) /\ Len(w) = Len(heard) + Len(t)
        BY <4>2, <4>3
      <4>5. ASSUME NEW i \in 1 .. Len(heard) PROVE w[i] = heard[i]
        BY <4>2, <4>3
      <4>6. ASSUME NEW i \in Len(heard) + 1 .. Len(heard) + Len(t) PROVE w[i] = t[i - Len(heard)]
        <5>1. CASE i = Len(heard) + 1
          BY <4>2, <4>3, <5>1
        <5>2. CASE i > Len(heard) + 1
          <6>1. i \in 1 .. Len(a) + Len(b) /\ ~(i <= Len(a)) /\ i - Len(a) \in 1 .. Len(t) - 1
                /\ (i - Len(a)) + 1 = i - Len(heard)
            BY <4>2, <5>2
          <6> QED BY <4>2, <4>3, <6>1
        <5> QED BY <4>2, <5>1, <5>2
      <4> HIDE DEF w
      <4>7. w = heard \o t
        BY <3>1, <4>4, <4>5, <4>6, Joined
      <4> QED BY <4>7 DEF w, a, b
    <3>4. Wire' = Wire
      BY <3>2, <3>3 DEF Wire, t
    <3> QED BY <1>3, <2>1, <3>4
  <2> QED BY <1>7, <2>2, <2>3, <2>4 DEF SerialWrite
<1>8. CASE ProcessEnd \/ Emit \/ Unplug \/ Tick \/ UNCHANGED vars \/ \E c \in Conns : ClientSide(c)
  <2>1. UNCHANGED <<slots, taken, cut, heard, serial>>
    BY <1>8 DEF ProcessEnd, Emit, Unplug, Tick, ClientSide, Connect, Send, Shut, vars, daemon, ghosts
  <2> QED BY <1>3, <1>4, <2>1
<1>9. CASE \E i \in 1 .. Len(slots) : SigPipe(i) \/ ClientWrite(i)
  <2>1. UNCHANGED <<taken, cut, heard, serial>>
    BY <1>9 DEF SigPipe, ClientWrite, ghosts
  <2>2. CASE UNCHANGED slots
    BY <1>3, <1>4, <2>1, <2>2
  <2>3. ASSUME NEW i \in 1 .. Len(slots), ClientWrite(i), IsOpen(slots[i])
        PROVE  UpInv' /\ Wire' = Wire
    <3>1. PICK n \in 1 .. Len(slots[i].tbuf) :
             WroteSlot(slots[i], n) \in Slot /\ slots' = [slots EXCEPT ![i] = WroteSlot(slots[i], n)]
      BY <2>3, WriteEffect
    <3> DEFINE s == WroteSlot(slots[i], n)
    <3>2. s.conn = slots[i].conn /\ s.state = slots[i].state /\ s.rbuf = slots[i].rbuf /\ s.linebuf = slots[i].linebuf
      BY DEF WroteSlot
    <3>3. slots \in Seq(Slot) /\ s \in Slot /\ slots' = [slots EXCEPT ![i] = s]
      BY <3>1 DEF TypeInv, BuffersOK
    <3> HIDE DEF s
    <3>4. DOMAIN slots' = DOMAIN slots /\ Len(slots') = Len(slots) /\ slots'[i] = s
          /\ \A j \in 1 .. Len(slots) : j /= i => slots'[j] = slots[j]
      BY <1>1, <3>3, ExceptSeq
    <3>5. \A j \in 1 .. Len(slots) : /\ slots'[j].conn = slots[j].conn /\ slots'[j].state = slots[j].state
                                    /\ slots'[j].rbuf = slots[j].rbuf
                                    /\ slots'[j].linebuf = slots[j].linebuf
      BY <3>2, <3>4
    <3>6. Wire' = Wire
      BY <1>4, <2>1
    <3> QED BY <1>1, <2>1, <3>4, <3>5, <3>6, UpSame
  <2> QED BY <1>9, <2>1, <2>2, <2>3 DEF SigPipe, ClientWrite
<1> QED BY <1>5, <1>6, <1>7, <1>8, <1>9

(* What is on the wire was read.                                           *)
LEMMA WireRead ==
  ASSUME TypeInv, UpInv, NEW c \in Conns
  PROVE  NumbersOf(c, Wire) \subseteq 1 .. taken[c]
<1>1. CASE c \in SlotConns
  <2>1. PICK i \in 1 .. Len(slots) : slots[i].conn = c
    BY <1>1, SlotsOK DEF SlotConns, TypeInv
  <2>2. PICK m \in 0 .. taken[c] : NumbersOf(c, Wire) = (1 .. m) \ cut[c]
    BY <2>1 DEF UpInv, Follows
  <2>3. taken[c] \in Nat
    BY DEF TypeInv, WorldOK
  <2>4. 1 .. m \subseteq 1 .. taken[c]
    BY <2>3
  <2> QED BY <2>2, <2>4
<1>2. CASE c \notin SlotConns
  BY <1>2 DEF UpInv
<1> QED BY <1>1, <1>2

(* The tty is gone with what was queued for it: the end of the wire.       *)
LEMMA UpEof ==
  ASSUME TypeInv, UpInv, SerialEof
  PROVE  UpInv' /\ UNCHANGED taken /\ Wire' = heard
<1>1. /\ UNCHANGED <<slots, taken, heard>> /\ serial' = [state |-> "closed", rbuf |-> <<>>, tbuf |-> <<>>]
      /\ cut' = [c \in Conns |-> cut[c] \cup {b[2] : b \in {x \in ElementsOf(serial.tbuf) : x[1] = c}}]
  BY DEF SerialEof
<1>2. heard \in Seq(Conns \X Nat) /\ serial.tbuf \in Seq(Conns \X Nat) /\ Wire \in Seq(Conns \X Nat)
  BY WireOK
<1>3. Wire' = heard
  <2>1. Wire' = heard \o <<>>
    BY <1>1 DEF Wire
  <2> QED BY <1>2, <2>1
<1>4. ASSUME NEW c \in Conns
      PROVE  /\ cut'[c] = cut[c] \cup NumbersOf(c, serial.tbuf)
             /\ NumbersOf(c, Wire) = NumbersOf(c, heard) \cup NumbersOf(c, serial.tbuf)
             /\ InOrder(c, heard)
             /\ NumbersOf(c, heard) \cap NumbersOf(c, serial.tbuf) = {}
  <2> DEFINE t == serial.tbuf
  <2>1. {b[2] : b \in {x \in ElementsOf(t) : x[1] = c}} = NumbersOf(c, t)
    BY DEF ElementsOf, NumbersOf
  <2>2. cut'[c] = cut[c] \cup NumbersOf(c, t)
    BY <1>1, <2>1
  <2>3. InOrder(c, heard \o t)
    BY DEF UpInv, Wire
  <2> HIDE DEF t
  <2>4. t \in Seq(Conns \X Nat) /\ Wire = heard \o t
    BY <1>2 DEF t, Wire
  <2>5. NumbersOf(c, Wire) = NumbersOf(c, heard) \cup NumbersOf(c, t)
    BY <1>2, <2>4, NumbersConcat
  <2>6. InOrder(c, heard) /\ \A x \in NumbersOf(c, heard), y \in NumbersOf(c, t) : x < y
    BY <1>2, <2>3, <2>4, InOrderPrefix
  <2>7. \A x \in NumbersOf(c, heard) : x \in Nat
    <3> SUFFICES ASSUME NEW x \in NumbersOf(c, heard) PROVE x \in Nat
      OBVIOUS
    <3>1. PICK k \in 1 .. Len(heard) : heard[k][2] = x
      BY SMTT(30), <1>2, NumbersIn
    <3>2. heard[k] \in Conns \X Nat
      BY <1>2, <3>1, ElementOfSeq
    <3> QED BY <3>1, <3>2
  <2>8. \A x \in Nat : ~(x < x)
    OBVIOUS
  <2>9. NumbersOf(c, heard) \cap NumbersOf(c, t) = {}
    BY <2>6, <2>7, <2>8
  <2> QED BY <2>2, <2>5, <2>6, <2>9 DEF t
<1>5. SlotConns' = SlotConns
  BY <1>1 DEF SlotConns
<1>6. ASSUME NEW i \in 1 .. Len(slots')
      PROVE  \E m \in 0 .. taken'[slots'[i].conn] :
               Follows(slots'[i], m, Wire', taken'[slots'[i].conn], cut'[slots'[i].conn])
  <2> DEFINE s == slots[i]
             c == s.conn
             x == NumbersOf(c, serial.tbuf)
  <2>1. s \in Slot /\ i \in 1 .. Len(slots) /\ slots' = slots
    BY <1>1, SlotsOK DEF TypeInv
  <2>2. c \in Conns
    BY <2>1, SlotOK
  <2>3. taken[c] \in Nat
    BY <2>2 DEF TypeInv, WorldOK
  <2>4. PICK m \in 0 .. taken[c] : Follows(s, m, Wire, taken[c], cut[c])
    BY <2>1 DEF UpInv
  <2>5. x \subseteq 1 .. m
    BY <1>4, <2>2, <2>4 DEF Follows
  <2> HIDE DEF s, c, x
  <2>6. cut'[c] = cut[c] \cup x /\ NumbersOf(c, Wire) = NumbersOf(c, heard) \cup x
        /\ NumbersOf(c, heard) \cap x = {}
    BY <1>4, <2>2 DEF x
  <2>7. NumbersOf(c, heard) = (1 .. m) \ cut'[c]
    <3>1. NumbersOf(c, Wire) = (1 .. m) \ cut[c]
      BY <2>4 DEF Follows, c
    <3> QED BY <2>6, <3>1
  <2>8. cut'[c] \cap (m + 1 .. taken[c]) = cut[c] \cap (m + 1 .. taken[c])
    <3>1. x \cap (m + 1 .. taken[c]) = {}
      BY <2>3, <2>5
    <3> QED BY <2>6, <3>1
  <2>9. Follows(s, m, heard, taken[c], cut'[c])
    BY <2>4, <2>7, <2>8 DEF Follows, c
  <2> QED BY <1>1, <1>3, <2>1, <2>4, <2>9 DEF c, s
<1>7. ASSUME NEW c \in Conns \ SlotConns' PROVE NumbersOf(c, Wire') = (1 .. taken'[c]) \ cut'[c]
  <2>1. NumbersOf(c, Wire) = (1 .. taken[c]) \ cut[c]
    BY <1>5 DEF UpInv
  <2> QED BY <1>1, <1>3, <1>4, <2>1
<1>8. ASSUME NEW c \in Conns PROVE InOrder(c, Wire') /\ cut'[c] \subseteq 1 .. taken'[c]
  <2>1. NumbersOf(c, Wire) \subseteq 1 .. taken[c]
    BY WireRead
  <2> QED BY <1>1, <1>3, <1>4, <2>1 DEF UpInv
<1> QED BY <1>1, <1>3, <1>6, <1>7, <1>8 DEF UpInv

(* One slot, with its own bytes, its count and its losses, changes.        *)
LEMMA UpOne ==
  ASSUME TypeInv, UpInv, NEW i \in 1 .. Len(slots), NEW s \in Slot, slots' = [slots EXCEPT ![i] = s],
         s.conn = slots[i].conn, NEW m \in 0 .. taken'[s.conn],
         Follows(s, m, Wire', taken'[s.conn], cut'[s.conn]),
         \A c \in Conns : c /= s.conn =>
            taken'[c] = taken[c] /\ cut'[c] = cut[c] /\ NumbersOf(c, Wire') = NumbersOf(c, Wire),
         \A c \in Conns : InOrder(c, Wire'), cut'[s.conn] \subseteq 1 .. taken'[s.conn]
  PROVE  UpInv'
<1>1. slots \in Seq(Slot) /\ Len(slots) \in Nat /\ DOMAIN slots = 1 .. Len(slots)
  BY SlotsOK DEF TypeInv, BuffersOK
<1>2. Len(slots') = Len(slots) /\ slots'[i] = s /\ DOMAIN slots' = DOMAIN slots
      /\ \A j \in 1 .. Len(slots) : j /= i => slots'[j] = slots[j]
  BY <1>1, ExceptSeq
<1>3. \A j \in 1 .. Len(slots) : slots'[j].conn = slots[j].conn
  BY <1>2
<1>4. SlotConns' = SlotConns
  BY <1>2, <1>3 DEF SlotConns
<1>5. ASSUME NEW j \in 1 .. Len(slots')
      PROVE  \E l \in 0 .. taken'[slots'[j].conn] :
               Follows(slots'[j], l, Wire', taken'[slots'[j].conn], cut'[slots'[j].conn])
  <2>1. CASE j = i
    BY <1>2, <2>1
  <2>2. CASE j /= i
    <3>1. slots'[j] = slots[j] /\ j \in 1 .. Len(slots) /\ slots[j] \in Slot
      BY <1>1, <1>2, <2>2, SlotsOK DEF TypeInv
    <3>2. slots[j].conn /= s.conn
      BY <2>2, <3>1 DEF TypeInv, Apart
    <3>3. slots[j].conn \in Conns
      BY <3>1, SlotOK
    <3> DEFINE c == slots[j].conn
    <3>4. PICK l \in 0 .. taken[c] : Follows(slots[j], l, Wire, taken[c], cut[c])
      BY <3>1 DEF UpInv
    <3>5. taken'[c] = taken[c] /\ cut'[c] = cut[c] /\ NumbersOf(c, Wire') = NumbersOf(c, Wire)
      BY <3>2, <3>3
    <3>6. Follows(slots[j], l, Wire', taken[c], cut[c])
      BY <3>4, <3>5, FollowsSame
    <3> QED BY <3>1, <3>4, <3>5, <3>6
  <2> QED BY <2>1, <2>2
<1>6. s.conn \in SlotConns
  BY <1>1 DEF SlotConns
<1>7. \A c \in Conns \ SlotConns' : NumbersOf(c, Wire') = (1 .. taken'[c]) \ cut'[c]
  BY <1>4, <1>6 DEF UpInv
<1>8. \A c \in Conns : InOrder(c, Wire') /\ cut'[c] \subseteq 1 .. taken'[c]
  BY DEF UpInv
<1> QED BY <1>5, <1>7, <1>8 DEF UpInv

(* Bytes are read into a slot.                                             *)
LEMMA UpRead ==
  ASSUME TypeInv, ReadersOpen, UpInv, NEW i \in 1 .. Len(slots), ClientRead(i)
  PROVE  UpInv' /\ Wire' = Wire
<1> DEFINE s == slots[i]
           c == s.conn
<1>1. PICK n \in Nat, new \in BytesOf(c) :
              /\ Len(new) = n /\ \A k \in 1 .. n : new[k] = <<c, taken[c] + k>>
              /\ ReadSlot(s, new) \in Slot
              /\ slots' = [slots EXCEPT ![i] = ReadSlot(s, new)]
              /\ taken' = [taken EXCEPT ![c] = @ + n]
  BY ReadEffect
<1>2. UNCHANGED <<serial, heard, cut>>
  BY DEF ClientRead
<1>3. s \in Slot
  BY SlotsOK DEF TypeInv
<1>4. c \in Conns /\ s.linebuf \in Seq(Conns \X Nat) /\ s.rbuf \in Seq(Conns \X Nat)
  BY <1>3, SlotOK
<1>5. IsOpen(s)
  <2>1. ReadOf(Client(i)) \in ready
    BY DEF ClientRead, Dispatch
  <2> QED BY <2>1 DEF ReadersOpen
<1>6. taken \in [Conns -> Nat] /\ taken[c] \in Nat
  BY <1>4 DEF TypeInv, WorldOK
<1>7. PICK m \in 0 .. taken[c] : Follows(s, m, Wire, taken[c], cut[c])
  BY DEF UpInv
<1>8. Wire' = Wire
  BY <1>2 DEF Wire
<1> DEFINE r == ReadSlot(s, new)
           q == Buffered(s)
           q2 == Buffered(r)
<1>9. r.conn = c /\ r.state = s.state /\ r.linebuf = s.linebuf /\ r.rbuf = s.rbuf \o new
  BY DEF ReadSlot
<1>10. /\ q \in Seq(Conns \X Nat) /\ Len(q) \in Nat /\ m + Len(q) = taken[c]
       /\ \A k \in 1 .. Len(q) : q[k] = <<c, m + k>>
  BY <1>3, <1>5, <1>7, BufferedOK DEF Follows
<1>11. new \in Seq(Conns \X Nat)
  BY <1>4, BytesOK
<1>12. q2 = q \o new
  <2> DEFINE a == s.linebuf
             b == s.rbuf
  <2>1. q2 = a \o (b \o new) /\ q = a \o b
    BY <1>9 DEF Buffered
  <2> DEFINE P == Conns \X Nat
  <2>2. a \in Seq(P) /\ b \in Seq(P) /\ new \in Seq(P)
    BY <1>4, <1>11
  <2> HIDE DEF q, q2, a, b, P
  <2>3. a \o (b \o new) = (a \o b) \o new
    BY <2>2, ConcatAssociative
  <2> QED BY <2>1, <2>3
<1>22. q \in Seq(Conns \X Nat) /\ Len(new) = n
  BY <1>1, <1>10
<1> HIDE DEF q, q2
<1>13. /\ Len(q2) = Len(q) + n
       /\ \A k \in 1 .. Len(q) : q2[k] = q[k]
       /\ \A k \in 1 .. Len(q2) : k \in 1 .. Len(q) \/ (k - Len(q) \in 1 .. n /\ q2[k] = new[k - Len(q)])
  <2> DEFINE P == Conns \X Nat
  <2>1. q \in Seq(P) /\ new \in Seq(P)
    BY <1>11, <1>22
  <2> HIDE DEF P
  <2>2. q2 \in Seq(P) /\ Len(q2) = Len(q) + n /\ Len(q) \in Nat
    BY <1>10, <1>12, <1>22, <2>1, ConcatOK
  <2>3. \A k \in 1 .. Len(q) : q2[k] = q[k]
    BY <1>12, <2>1, ConcatOK
  <2>4. \A k \in 1 .. Len(new) : q2[Len(q) + k] = new[k]
    BY <1>12, <2>1, ConcatOK
  <2>5. ASSUME NEW k \in 1 .. Len(q2), k \notin 1 .. Len(q)
        PROVE  k - Len(q) \in 1 .. n /\ q2[k] = new[k - Len(q)]
    <3>1. k - Len(q) \in 1 .. n /\ Len(q) + (k - Len(q)) = k
      BY <2>2, <2>5
    <3>2. q2[Len(q) + (k - Len(q))] = new[k - Len(q)]
      BY <1>22, <2>4, <3>1
    <3> QED BY <3>1, <3>2
  <2> QED BY <2>2, <2>3, <2>5
<1>14. \A k \in 1 .. Len(q2) : q2[k] = <<c, m + k>>
  <2> SUFFICES ASSUME NEW k \in 1 .. Len(q2) PROVE q2[k] = <<c, m + k>>
    OBVIOUS
  <2>1. CASE k \in 1 .. Len(q)
    BY <1>10, <1>13, <2>1
  <2>2. CASE k - Len(q) \in 1 .. n /\ q2[k] = new[k - Len(q)]
    <3>1. new[k - Len(q)] = <<c, taken[c] + (k - Len(q))>>
      BY <1>1, <2>2
    <3>2. taken[c] + (k - Len(q)) = m + k
      BY <1>10, <1>13
    <3> QED BY <2>2, <3>1, <3>2
  <2> QED BY <1>13, <2>1, <2>2
<1>15. taken'[c] = taken[c] + n /\ m + Len(q2) = taken'[c] /\ m \in 0 .. taken'[c]
  BY <1>1, <1>4, <1>6, <1>10, <1>13
<1>16. cut[c] \subseteq 1 .. taken[c]
  BY <1>4 DEF UpInv
<1>17. Follows(r, m, Wire', taken'[c], cut'[c])
  <2>1. cut[c] \cap (m + 1 .. taken[c]) = m + Len(q) + 1 .. taken[c]
    BY <1>7 DEF Follows, q
  <2>2. cut[c] \cap (m + 1 .. taken[c]) = {}
    BY <1>6, <1>10, <2>1
  <2>3. cut[c] \cap (m + 1 .. taken'[c]) = {}
    BY <1>6, <1>7, <1>10, <1>15, <1>16, <2>2
  <2>4. m + Len(q2) + 1 .. taken'[c] = {}
    BY <1>6, <1>10, <1>13, <1>15
  <2>5. m % LineLen = 0 /\ NumbersOf(c, Wire') = (1 .. m) \ cut'[c]
    BY <1>2, <1>7, <1>8 DEF Follows
  <2>6. IsOpen(r)
    BY <1>5, <1>9 DEF IsOpen
  <2>7. m + Len(q2) <= taken'[c]
    BY <1>6, <1>10, <1>13, <1>15
  <2> HIDE DEF r, c
  <2> QED BY <1>2, <1>9, <1>14, <1>15, <2>3, <2>4, <2>5, <2>6, <2>7 DEF Follows, q2
<1>18. \A d \in Conns : d /= c => taken'[d] = taken[d] /\ cut'[d] = cut[d] /\ NumbersOf(d, Wire') = NumbersOf(d, Wire)
  BY <1>1, <1>2, <1>6, <1>8
<1>19. \A d \in Conns : InOrder(d, Wire')
  BY <1>8 DEF UpInv
<1>20. cut'[c] \subseteq 1 .. taken'[c]
  <2>1. 1 .. taken[c] \subseteq 1 .. taken'[c]
    BY <1>6, <1>15
  <2> QED BY <1>2, <1>16, <2>1
<1>21. r \in Slot /\ slots' = [slots EXCEPT ![i] = r]
  BY <1>1
<1> HIDE DEF r
<1> QED BY <1>8, <1>9, <1>15, <1>17, <1>18, <1>19, <1>20, <1>21, UpOne

(* A client leaves: what was not yet in the line buffer is lost.           *)
LEMMA UpLeave ==
  ASSUME TypeInv, UpInv, NEW i \in 1 .. Len(slots), ClientEof(i) \/ ClientWriteFails(i)
  PROVE  UpInv' /\ Wire' = Wire /\ UNCHANGED taken
<1> DEFINE s == slots[i]
           c == s.conn
           r == LeftSlot(s)
           q == Buffered(s)
           off == {b[2] : b \in ElementsOf(s.rbuf)}
<1>1. /\ r \in Slot /\ slots' = [slots EXCEPT ![i] = r]
      /\ cut' = [cut EXCEPT ![c] = @ \cup off] /\ UNCHANGED <<serial, taken, heard>>
  BY LeaveEffect
<1>2. s \in Slot
  BY SlotsOK DEF TypeInv
<1>3. c \in Conns /\ s.linebuf \in Seq(Conns \X Nat) /\ s.rbuf \in Seq(Conns \X Nat)
  BY <1>2, SlotOK
<1>4. taken[c] \in Nat /\ cut \in [Conns -> SUBSET Nat]
  BY <1>3 DEF TypeInv, WorldOK, GhostsOK
<1>5. PICK m \in 0 .. taken[c] : Follows(s, m, Wire, taken[c], cut[c])
  BY DEF UpInv
<1>6. Wire' = Wire
  BY <1>1 DEF Wire
<1>7. r.conn = c /\ r.state = "inactive" /\ r.linebuf = s.linebuf /\ r.rbuf = <<>>
  BY DEF LeftSlot
<1>8. Buffered(r) = s.linebuf
  <2>1. Buffered(r) = s.linebuf \o <<>>
    BY <1>7 DEF Buffered
  <2> QED BY <1>3, <2>1
<1>9. /\ Len(q) \in Nat /\ Len(s.linebuf) \in Nat /\ Len(s.rbuf) \in Nat
      /\ Len(q) = Len(s.linebuf) + Len(s.rbuf)
      /\ \A k \in 1 .. Len(s.linebuf) : q[k] = s.linebuf[k]
      /\ \A k \in 1 .. Len(s.rbuf) : q[Len(s.linebuf) + k] = s.rbuf[k]
  BY <1>2, BufferedOK
<1>10. /\ m + Len(q) <= taken[c] /\ m % LineLen = 0
       /\ IsOpen(s) => m + Len(q) = taken[c]
       /\ ~IsOpen(s) => s.rbuf = <<>>
       /\ \A k \in 1 .. Len(q) : q[k] = <<c, m + k>>
       /\ NumbersOf(c, Wire) = (1 .. m) \ cut[c]
       /\ cut[c] \cap (m + 1 .. taken[c]) = m + Len(q) + 1 .. taken[c]
  BY <1>5 DEF Follows
<1> DEFINE l == Len(s.linebuf)
           n == Len(s.rbuf)
           t == taken[c]
           k == Len(q)
<1>22. /\ m \in Nat /\ l \in Nat /\ n \in Nat /\ t \in Nat /\ k \in Nat
       /\ k = l + n /\ m + k <= t
  <2>1. t \in Nat /\ m \in 0 .. t
    BY <1>4
  <2>2. l \in Nat /\ n \in Nat /\ k \in Nat /\ k = l + n
    BY <1>9
  <2>3. m + k <= t
    BY <1>10
  <2> HIDE DEF t, l, n, k
  <2> QED BY <2>1, <2>2, <2>3
<1>11. off = m + l + 1 .. m + l + n
  <2>1. \A j \in 1 .. n : s.rbuf[j] = <<c, (m + l) + j>>
    <3> SUFFICES ASSUME NEW j \in 1 .. n PROVE s.rbuf[j] = <<c, (m + l) + j>>
      OBVIOUS
    <3>1. q[l + j] = s.rbuf[j]
      BY <1>9
    <3> HIDE DEF n, l, k, t
    <3>2. l + j \in 1 .. k /\ m + (l + j) = (m + l) + j
      BY <1>22
    <3>3. q[l + j] = <<c, m + (l + j)>>
      BY <1>10, <3>2 DEF k
    <3> QED BY <3>1, <3>2, <3>3
  <2>2. m + l \in Nat
    BY <1>22
  <2> DEFINE b == m + l
             u == s.rbuf
             P == Conns \X Nat
  <2>3. b \in Nat /\ IsRun(u, c, b, n)
    BY <2>1, <2>2 DEF IsRun
  <2>4. n \in Nat /\ u \in Seq(P)
    BY <1>3, <1>22
  <2>5. off = Offsets(u)
    BY DEF Offsets
  <2> HIDE DEF b, u, n, P, c, off
  <2>6. Offsets(u) = b + 1 .. b + n
    BY <2>3, <2>4, RunOK
  <2> QED BY <2>5, <2>6 DEF b
<1>23. /\ IsOpen(s) => m + k = t
       /\ ~IsOpen(s) => n = 0
       /\ cut[c] \cap (m + 1 .. t) = m + k + 1 .. t
  BY <1>10
<1> DEFINE lost == cut[c] \cup off
<1>12. cut'[c] = lost
  BY <1>1, <1>3, <1>4
<1>13. lost \cap (m + 1 .. taken[c]) = m + l + 1 .. taken[c]
  <2> SUFFICES lost \cap (m + 1 .. t) = m + l + 1 .. t
    OBVIOUS
  <2> HIDE DEF off, l, n, t, k, s, c
  <2>1. CASE n = 0
    <3>1. off = {} /\ l = k
      BY <1>11, <1>22, <2>1
    <3> QED BY <1>23, <3>1
  <2>2. CASE n /= 0
    <3>1. m + k = t
      BY <1>23, <2>2
    <3>2. m + l + n = t /\ off \subseteq m + 1 .. t /\ m + k + 1 .. t = {}
      BY <1>11, <1>22, <3>1
    <3>3. cut[c] \cap (m + 1 .. t) = {}
      BY <1>23, <3>2
    <3>4. off = m + l + 1 .. t
      BY <1>11, <3>2
    <3> QED BY <3>2, <3>3, <3>4
  <2> QED BY <2>1, <2>2
<1>14. off \cap (1 .. m) = {} /\ off \subseteq 1 .. t
  <2> HIDE DEF off, l, n, t, k
  <2> QED BY <1>11, <1>22
<1>15. NumbersOf(c, Wire) = (1 .. m) \ lost
  BY <1>10, <1>14
<1>16. \A j \in 1 .. l : s.linebuf[j] = <<c, m + j>>
  <2> SUFFICES ASSUME NEW j \in 1 .. l PROVE s.linebuf[j] = <<c, m + j>>
    OBVIOUS
  <2>1. q[j] = s.linebuf[j]
    BY <1>9
  <2>2. j \in 1 .. k
    <3> HIDE DEF l, n, t, k
    <3> QED BY <1>22
  <2> QED BY <1>10, <2>1, <2>2
<1>17. m + l <= t
  <2> HIDE DEF l, n, t, k
  <2> QED BY <1>22
<1> HIDE DEF lost
<1>18. Follows(r, m, Wire, taken[c], lost)
  <2>1. ~IsOpen(r)
    BY <1>7 DEF IsOpen
  <2> HIDE DEF r, c, s
  <2> QED BY <1>7, <1>8, <1>10, <1>13, <1>15, <1>16, <1>17, <2>1 DEF Follows
<1>19. \A d \in Conns : d /= c => taken'[d] = taken[d] /\ cut'[d] = cut[d] /\ NumbersOf(d, Wire') = NumbersOf(d, Wire)
  BY <1>1, <1>4, <1>6
<1>20. \A d \in Conns : InOrder(d, Wire')
  BY <1>6 DEF UpInv
<1>21. cut'[c] \subseteq 1 .. taken'[c]
  BY <1>1, <1>3, <1>12, <1>14 DEF UpInv, lost
<1> HIDE DEF r
<1> QED BY <1>1, <1>5, <1>6, <1>7, <1>12, <1>18, <1>19, <1>20, <1>21, UpOne

(* A connection is accepted: it has nothing yet; what the client before    *)
(* it in its slot left in the line buffer is lost.                         *)
LEMMA UpAccept ==
  ASSUME TypeInv, UpInv, Accept
  PROVE  UpInv' /\ Wire' = Wire /\ UNCHANGED taken
<1> DEFINE c == Head(backlog)
<1>1. backlog /= <<>>
  BY DEF TypeInv, Awaited, Accept, Dispatch
<1>2. backlog \in Seq(Conns) /\ cut \in [Conns -> SUBSET Nat] /\ taken \in [Conns -> Nat]
  BY DEF TypeInv, WorldOK, GhostsOK
<1>3. UNCHANGED <<serial, heard, taken>>
  BY DEF Accept
<1>4. Wire' = Wire
  BY <1>3 DEF Wire
<1>5. PICK i \in 1 .. Len(slots) + 1 :
           /\ c \in Conns /\ Fresh(c) \in Slot
           /\ i \in 1 .. Len(slots') /\ slots'[i] = Fresh(c)
           /\ slots' \in Seq(Slot) /\ Len(slots') \in {Len(slots), Len(slots) + 1}
           /\ \A j \in 1 .. Len(slots') : j /= i => j \in 1 .. Len(slots) /\ slots'[j] = slots[j]
           /\ \A j \in 1 .. Len(slots) : j /= i => j \in 1 .. Len(slots')
           /\ i \in 1 .. Len(slots) => slots[i].state = "inactive" /\ slots[i].conn \in shut
           /\ cut' = IF i \in 1 .. Len(slots)
                     THEN [cut EXCEPT ![slots[i].conn] =
                             @ \cup {b[2] : b \in ElementsOf(slots[i].linebuf)}]
                     ELSE cut
  BY <1>1, AcceptSlots
<1>6. c = backlog[1] /\ 1 \in 1 .. Len(backlog) /\ c \in ElementsOf(backlog)
  BY <1>1, <1>2 DEF ElementsOf
<1> HIDE DEF c
<1>7. Len(slots) \in Nat /\ DOMAIN slots = 1 .. Len(slots) /\ DOMAIN slots' = 1 .. Len(slots')
      /\ \A j \in 1 .. Len(slots) : slots[j] \in Slot
  BY <1>5, SlotsOK DEF TypeInv
<1>8. \A j \in 1 .. Len(slots) : slots[j].conn /= c
  BY <1>6 DEF TypeInv, Apart
<1>9. c \in Conns \ SlotConns
  BY <1>5, <1>7, <1>8 DEF SlotConns
<1>10. taken[c] = 0
  BY <1>6, <1>9 DEF TypeInv, Apart
<1>11. \A d \in Conns : (i \in 1 .. Len(slots) => d /= slots[i].conn) => cut'[d] = cut[d]
  BY <1>2, <1>5
<1>12. Fresh(c).conn = c /\ IsOpen(Fresh(c)) /\ Buffered(Fresh(c)) = <<>>
  BY DEF Fresh, IsOpen, Buffered
<1>13. Follows(Fresh(c), 0, Wire, 0, cut[c])
  <2>1. NumbersOf(c, Wire) = (1 .. 0) \ cut[c]
    BY <1>9, <1>10 DEF UpInv
  <2>2. 0 % LineLen = 0
    BY CapOK
  <2>3. cut[c] \cap (0 + 1 .. 0) = 0 + 0 + 1 .. 0
    OBVIOUS
  <2> DEFINE f == Fresh(c)
             q == Buffered(f)
  <2>4. f.conn = c /\ IsOpen(f) /\ q = <<>> /\ Len(q) = 0
    BY <1>12
  <2> HIDE DEF f
  <2>5. 0 + Len(q) <= 0 /\ 0 + Len(q) = 0 /\ \A k \in 1 .. Len(q) : q[k] = <<c, 0 + k>>
    BY <2>4
  <2>6. cut[c] \cap (0 + 1 .. 0) = 0 + Len(q) + 1 .. 0
    BY <2>3, <2>4
  <2>7. Follows(f, 0, Wire, 0, cut[c])
    BY <2>1, <2>2, <2>4, <2>5, <2>6 DEF Follows
  <2> QED BY <2>7 DEF f
<1>14. ASSUME NEW j \in 1 .. Len(slots')
       PROVE  \E m \in 0 .. taken'[slots'[j].conn] :
                Follows(slots'[j], m, Wire', taken'[slots'[j].conn], cut'[slots'[j].conn])
  <2>1. CASE j = i
    <3>1. slots'[j] = Fresh(c) /\ cut'[c] = cut[c]
      BY <1>5, <1>8, <1>11, <2>1
    <3>2. 0 \in 0 .. taken[c] /\ Follows(slots'[j], 0, Wire', taken'[c], cut'[c])
      BY <1>3, <1>4, <1>10, <1>13, <3>1
    <3>3. slots'[j].conn = c
      BY <1>12, <3>1
    <3> QED BY <1>3, <3>2, <3>3
  <2>2. CASE j /= i
    <3> DEFINE d == slots[j].conn
    <3>1. j \in 1 .. Len(slots) /\ slots'[j] = slots[j]
      BY <1>5, <2>2
    <3>2. i \in 1 .. Len(slots) => d /= slots[i].conn
      BY <2>2, <3>1 DEF TypeInv, Apart
    <3>3. d \in Conns
      BY <1>7, <3>1, SlotOK
    <3>4. cut'[d] = cut[d]
      BY <1>11, <3>2, <3>3
    <3> QED BY <1>3, <1>4, <3>1, <3>4 DEF UpInv
  <2> QED BY <2>1, <2>2
<1>15. ASSUME NEW d \in Conns \ SlotConns' PROVE NumbersOf(d, Wire') = (1 .. taken'[d]) \ cut'[d]
  <2>1. CASE d \notin SlotConns
    <3>1. i \in 1 .. Len(slots) => d /= slots[i].conn
      BY <1>7, <2>1 DEF SlotConns
    <3>2. cut'[d] = cut[d]
      BY <1>11, <3>1
    <3> QED BY <1>3, <1>4, <2>1, <3>2 DEF UpInv
  <2>2. CASE d \in SlotConns
    <3>1. PICK j \in 1 .. Len(slots) : slots[j].conn = d
      BY <1>7, <2>2 DEF SlotConns
    <3>2. j = i
      <4> SUFFICES ASSUME j /= i PROVE FALSE
        OBVIOUS
      <4>1. j \in 1 .. Len(slots') /\ slots'[j] = slots[j]
        BY <1>5
      <4> QED BY <1>7, <3>1, <4>1 DEF SlotConns
    <3> DEFINE s == slots[i]
               l == s.linebuf
               n == Len(l)
               t == taken[d]
               P == Conns \X Nat
    <3>3. i \in 1 .. Len(slots) /\ s \in Slot /\ s.conn = d /\ s.state = "inactive"
      BY <1>5, <1>7, <3>1, <3>2
    <3>4. PICK m \in 0 .. t : Follows(s, m, Wire, t, cut[d])
      BY <3>3 DEF UpInv
    <3>5. ~IsOpen(s)
      BY <3>3 DEF IsOpen
    <3>6. s.rbuf = <<>>
      BY <3>4, <3>5 DEF Follows
    <3>7. l \in Seq(P) /\ n \in Nat
      BY <3>3, SlotOK
    <3>8. Buffered(s) = l
      <4>1. Buffered(s) = l \o <<>>
        BY <3>6 DEF Buffered
      <4> HIDE DEF l, P
      <4> QED BY <3>7, <4>1
    <3>9. m % LineLen = 0 /\ m + n <= t /\ (\A k \in 1 .. n : l[k] = <<d, m + k>>)
          /\ NumbersOf(d, Wire) = (1 .. m) \ cut[d] /\ cut[d] \cap (m + 1 .. t) = m + n + 1 .. t
      BY <3>3, <3>4, <3>8 DEF Follows
    <3>10. t \in Nat /\ m \in Nat
      <4>1. t \in Nat
        BY <1>2
      <4> HIDE DEF t
      <4> QED BY <4>1
    <3>11. Offsets(l) = m + 1 .. m + n
      <4>1. IsRun(l, d, m, n)
        BY <3>9 DEF IsRun
      <4> HIDE DEF l, n, P
      <4> QED BY <3>7, <3>10, <4>1, RunOK
    <3>12. cut'[d] = cut[d] \cup Offsets(l)
      BY <1>2, <1>5, <3>3 DEF Offsets
    <3>13. (1 .. t) \ cut'[d] = (1 .. m) \ cut[d]
      <4>1. cut'[d] = cut[d] \cup (m + 1 .. m + n) /\ cut[d] \cap (m + 1 .. t) = m + n + 1 .. t
        BY <3>9, <3>11, <3>12
      <4>2. m + n <= t
        BY <3>9
      <4> HIDE DEF t, n
      <4> QED BY <3>7, <3>10, <4>1, <4>2
    <3> QED BY <1>3, <1>4, <3>9, <3>13
  <2> QED BY <2>1, <2>2
<1>16. ASSUME NEW d \in Conns PROVE InOrder(d, Wire') /\ cut'[d] \subseteq 1 .. taken'[d]
  <2>1. InOrder(d, Wire') /\ cut[d] \subseteq 1 .. taken[d]
    BY <1>4 DEF UpInv
  <2>2. CASE i \in 1 .. Len(slots) => d /= slots[i].conn
    BY <1>3, <1>11, <2>1, <2>2
  <2>3. CASE i \in 1 .. Len(slots) /\ d = slots[i].conn
    <3> DEFINE s == slots[i]
               l == s.linebuf
               n == Len(l)
               t == taken[d]
               P == Conns \X Nat
    <3>1. s \in Slot /\ ~IsOpen(s)
      BY <1>5, <1>7, <2>3 DEF IsOpen
    <3>2. PICK m \in 0 .. t : Follows(s, m, Wire, t, cut[d])
      BY <2>3 DEF UpInv
    <3>3. l \in Seq(P) /\ n \in Nat
      BY <3>1, SlotOK
    <3>4. Buffered(s) = l
      <4>1. Buffered(s) = l \o <<>>
        BY <3>1, <3>2 DEF Buffered, Follows
      <4> HIDE DEF l, P
      <4> QED BY <3>3, <4>1
    <3>5. m + n <= t /\ (\A k \in 1 .. n : l[k] = <<d, m + k>>)
      BY <2>3, <3>2, <3>4 DEF Follows
    <3>6. t \in Nat /\ m \in Nat
      <4>1. t \in Nat
        BY <1>2
      <4> HIDE DEF t
      <4> QED BY <4>1
    <3>7. Offsets(l) = m + 1 .. m + n
      <4>1. IsRun(l, d, m, n)
        BY <3>5 DEF IsRun
      <4> HIDE DEF l, n, P
      <4> QED BY <3>3, <3>6, <4>1, RunOK
    <3>8. cut'[d] = cut[d] \cup Offsets(l)
      BY <1>2, <1>5, <2>3 DEF Offsets
    <3>9. Offsets(l) \subseteq 1 .. t
      <4> HIDE DEF t, n
      <4> QED BY <3>3, <3>5, <3>6, <3>7
    <3> QED BY <1>3, <2>1, <3>8, <3>9
  <2> QED BY <2>2, <2>3
<1> QED BY <1>3, <1>4, <1>14, <1>15, <1>16 DEF UpInv

(* hdmi2usb_process looks at a slot: its first line, if there is one and   *)
(* the timer allows, is on the wire or lost, and nothing else is.          *)
LEMMA UpServe ==
  ASSUME TypeInv, UpInv, ProcessClient
  PROVE  /\ UpInv' /\ UNCHANGED taken
         /\ \E c \in Conns, m \in Nat, n \in Nat, f \in Seq(Conns \X Nat) :
              /\ IsRun(f, c, m, n) /\ m % LineLen = 0 /\ Wire' = Wire \o f
              /\ IsRun(Buffered(slots[turn]), c, m, Len(Buffered(slots[turn])))
              /\ n = Queued(First(Buffered(slots[turn]), CommandEnd(Buffered(slots[turn]))))
<1> DEFINE s    == slots[turn]
           c    == s.conn
           q    == Buffered(s)
           end  == CommandEnd(q)
           line == First(q, end)
           n    == Queued(line)
           f    == First(line, n)
           g    == Rest(line, n)
           r    == ServedSlot(s, end)
           t    == taken[c]
           k    == Len(q)
           P    == Conns \X Nat
<1>1. /\ turn \in 1 .. Len(slots) /\ s \in Slot /\ q \in BytesOf(c)
      /\ end \in Nat /\ end <= Len(q) /\ n \in Nat /\ n <= end
      /\ line \in BytesOf(c) /\ Len(line) = end
      /\ end > 0 => end = LineEnd(q)
      /\ r \in Slot /\ slots' = [slots EXCEPT ![turn] = r]
      /\ serial' = [serial EXCEPT !.tbuf = @ \o f]
      /\ f \in Seq(P) /\ Len(f) = n
      /\ cut' = [cut EXCEPT ![c] = @ \cup {b[2] : b \in ElementsOf(g)}]
  BY ServeEffect
<1>2. UNCHANGED <<heard, taken>>
  BY DEF ProcessClient
<1>3. c \in Conns /\ q \in Seq(P) /\ k \in Nat
  BY <1>1, SlotOK, BufferedOK
<1>4. line \in Seq(P)
  BY <1>1, <1>3, BytesOK
<1>5. t \in Nat /\ cut \in [Conns -> SUBSET Nat]
  BY <1>3 DEF TypeInv, WorldOK, GhostsOK
<1>6. PICK m \in 0 .. t : Follows(s, m, Wire, t, cut[c])
  BY <1>1 DEF UpInv
<1>7. m \in Nat
  <2> HIDE DEF t
  <2> QED BY <1>5
<1>8. /\ m % LineLen = 0 /\ m + k <= t
      /\ IsOpen(s) => m + k = t
      /\ ~IsOpen(s) => s.rbuf = <<>>
      /\ \A j \in 1 .. k : q[j] = <<c, m + j>>
      /\ NumbersOf(c, Wire) = (1 .. m) \ cut[c]
      /\ cut[c] \cap (m + 1 .. t) = m + k + 1 .. t
  BY <1>6 DEF Follows
<1>9. Wire' = Wire \o f
  <2> DEFINE a == heard
             b == serial.tbuf
  <2>1. a \in Seq(P) /\ b \in Seq(P) /\ f \in Seq(P)
    BY <1>1, WireOK
  <2>2. serial \in [state : States, rbuf : Positions, tbuf : Seq(P)]
    BY DEF TypeInv, BuffersOK
  <2> HIDE DEF f, P
  <2>3. serial'.tbuf = b \o f
    BY <1>1, <2>2
  <2>4. Wire' = a \o (b \o f) /\ Wire = a \o b
    BY <1>2, <2>3 DEF Wire
  <2> HIDE DEF a, b
  <2>5. a \o (b \o f) = (a \o b) \o f
    BY <2>1, ConcatAssociative
  <2> QED BY <2>4, <2>5
<1>10. /\ Len(line) = end /\ \A j \in 1 .. end : line[j] = q[j]
       /\ \A j \in 1 .. n : f[j] = line[j]
       /\ g \in Seq(P) /\ Len(g) = end - n /\ \A j \in 1 .. end - n : g[j] = line[n + j]
  <2>1. end \in Nat /\ n \in Nat /\ end <= Len(q) /\ Len(line) = end /\ n <= end /\ q \in Seq(P) /\ line \in Seq(P)
    BY <1>1, <1>3, <1>4
  <2> HIDE DEF q, end, n, P
  <2>2. \A j \in 1 .. Lesser(end, Len(q)) : line[j] = q[j]
    BY <2>1, FirstOK
  <2>3. Lesser(end, Len(q)) = end
    BY <2>1 DEF Lesser
  <2> HIDE DEF line
  <2>4. /\ \A j \in 1 .. Lesser(n, end) : f[j] = line[j]
        /\ g \in Seq(P) /\ Len(g) = end - Lesser(n, end)
        /\ \A j \in 1 .. end - Lesser(n, end) : g[j] = line[Lesser(n, end) + j]
    BY <2>1, FirstOK, RestOK
  <2>5. Lesser(n, end) = n
    BY <2>1 DEF Lesser
  <2> QED BY <2>1, <2>2, <2>3, <2>4, <2>5
<1>11. /\ Buffered(r) \in Seq(P) /\ Len(Buffered(r)) = k - end
       /\ \A j \in 1 .. k - end : Buffered(r)[j] = q[end + j]
  <2>1. r.linebuf = Rest(q, end) /\ r.rbuf = <<>>
    BY DEF ServedSlot
  <2>2. end \in Nat /\ end <= k /\ q \in Seq(P) /\ k = Len(q) /\ k \in Nat
    BY <1>1, <1>3
  <2> HIDE DEF q, k, end, P, r
  <2>3. /\ Rest(q, end) \in Seq(P) /\ Len(Rest(q, end)) = k - Lesser(end, k)
        /\ \A j \in 1 .. k - Lesser(end, k) : Rest(q, end)[j] = q[Lesser(end, k) + j]
    BY <2>2, RestOK
  <2>4. Lesser(end, k) = end
    BY <2>2 DEF Lesser
  <2> DEFINE u == Rest(q, end)
  <2> HIDE DEF u
  <2>5. Buffered(r) = u \o <<>>
    BY <2>1 DEF Buffered, u
  <2>6. u \in Seq(P)
    BY <2>3 DEF u
  <2>7. Buffered(r) = u
    BY <2>5, <2>6
  <2> QED BY <2>3, <2>4, <2>7 DEF u
<1>12. r.conn = c /\ r.state = s.state /\ r.rbuf = <<>> /\ (IsOpen(r) <=> IsOpen(s))
  BY DEF ServedSlot, IsOpen
<1>13. IsRun(f, c, m, n) /\ IsRun(g, c, m + n, end - n)
  <2>1. /\ n \in Nat /\ end \in Nat /\ k \in Nat /\ n <= end /\ end <= k /\ Len(f) = n
    BY <1>1, <1>3
  <2>2. \A j \in 1 .. k : q[j] = <<c, m + j>>
    BY <1>8
  <2> HIDE DEF n, end, k, q, f, g, line, c
  <2>3. \A j \in 1 .. n : f[j] = <<c, m + j>>
    <3> SUFFICES ASSUME NEW j \in 1 .. n PROVE f[j] = <<c, m + j>>
      OBVIOUS
    <3>1. j \in 1 .. end /\ j \in 1 .. k
      BY <2>1
    <3>2. f[j] = q[j]
      BY <1>10, <3>1
    <3> QED BY <2>2, <3>1, <3>2
  <2>4. \A j \in 1 .. end - n : g[j] = <<c, (m + n) + j>>
    <3> SUFFICES ASSUME NEW j \in 1 .. end - n PROVE g[j] = <<c, (m + n) + j>>
      OBVIOUS
    <3>1. n + j \in 1 .. end /\ n + j \in 1 .. k /\ m + (n + j) = (m + n) + j
      BY <1>7, <2>1
    <3>2. g[j] = q[n + j]
      BY <1>10, <3>1
    <3>3. q[n + j] = <<c, m + (n + j)>>
      BY <2>2, <3>1
    <3> QED BY <3>1, <3>2, <3>3
  <2> QED BY <1>10, <2>1, <2>3, <2>4 DEF IsRun
<1>14. /\ n \in Nat /\ end \in Nat /\ k \in Nat /\ t \in Nat /\ m \in Nat
       /\ n <= end /\ end <= k /\ m + k <= t
  BY <1>1, <1>3, <1>5, <1>7, <1>8
<1> DEFINE lost == cut[c] \cup Offsets(g)
<1>15. cut'[c] = lost /\ \A d \in Conns : d /= c => cut'[d] = cut[d]
  BY <1>1, <1>3, <1>5 DEF Offsets
<1>16. /\ NumbersOf(c, f) = m + 1 .. m + n /\ (\A d : d /= c => NumbersOf(d, f) = {})
       /\ \A d : InOrder(d, f)
  <2>1. f \in Seq(P) /\ n \in Nat /\ IsRun(f, c, m, n)
    BY <1>1, <1>13
  <2> HIDE DEF f, n, P, c
  <2> QED BY <1>7, <2>1, RunOK
<1>17. Offsets(g) = m + n + 1 .. m + end
  <2>1. m + n \in Nat /\ end - n \in Nat /\ (m + n) + (end - n) = m + end
    BY <1>14
  <2> DEFINE a == m + n
             b == end - n
  <2> HIDE DEF g, n, end, P, c
  <2>2. IsRun(g, c, a, b) /\ a \in Nat /\ b \in Nat /\ g \in Seq(P) /\ a + b = m + end
    BY <1>10, <1>13, <2>1
  <2> HIDE DEF a, b
  <2>3. Offsets(g) = a + 1 .. a + b
    BY <2>2, RunOK
  <2> QED BY <2>2, <2>3 DEF a
<1>18. m + end \in 0 .. t /\ (m + end) % LineLen = 0
  <2>1. CASE end = 0
    <3> HIDE DEF end, t, k
    <3> QED BY <1>8, <1>14, <2>1
  <2>2. CASE end > 0
    <3>1. end = LineEnd(q) /\ end \in 1 .. k
      <4> HIDE DEF k, end
      <4> QED BY <1>1, <1>14, <2>2
    <3>2. NewLine(q[end])
      <4> HIDE DEF q, c, P, end
      <4> QED BY <1>3, <2>2, <3>1, LineEndOK
    <3>3. q[end] = <<c, m + end>>
      BY <1>8, <3>1
    <3>4. (m + end) % LineLen = 0
      BY <3>2, <3>3 DEF NewLine
    <3>5. m + end \in 0 .. t
      <4> HIDE DEF end, t, k
      <4> QED BY <1>14
    <3> QED BY <3>4, <3>5
  <2>3. end = 0 \/ end > 0
    <3> HIDE DEF end
    <3> QED BY <1>14
  <2> QED BY <2>1, <2>2, <2>3
<1>19. \A d \in Conns : NumbersOf(d, Wire') = NumbersOf(d, Wire) \cup NumbersOf(d, f)
  <2>1. Wire \in Seq(P) /\ f \in Seq(P)
    BY <1>1, WireOK
  <2> HIDE DEF f, P
  <2> QED BY <1>9, <2>1, NumbersConcat
<1> HIDE DEF lost
<1>20. NumbersOf(c, Wire') = (1 .. m + end) \ lost
  <2>1. NumbersOf(c, Wire') = ((1 .. m) \ cut[c]) \cup (m + 1 .. m + n)
    BY <1>3, <1>8, <1>16, <1>19
  <2>2. lost = cut[c] \cup (m + n + 1 .. m + end)
    BY <1>17 DEF lost
  <2>3. cut[c] \cap (m + 1 .. t) = m + k + 1 .. t
    BY <1>8
  <2> DEFINE old == cut[c]
             new == NumbersOf(c, Wire')
  <2> HIDE DEF n, end, k, t, old, new
  <2>4. old \cap (m + 1 .. m + end) = {}
    BY <1>14, <2>3 DEF old
  <2>5. ((1 .. m) \ old) \cup (m + 1 .. m + n) = (1 .. m + end) \ (old \cup (m + n + 1 .. m + end))
    BY <1>14, <2>4
  <2> QED BY <2>1, <2>2, <2>5 DEF old, new
<1>21. lost \cap (m + end + 1 .. t) = m + k + 1 .. t
  <2>1. lost = cut[c] \cup (m + n + 1 .. m + end)
    BY <1>17 DEF lost
  <2>2. cut[c] \cap (m + 1 .. t) = m + k + 1 .. t
    BY <1>8
  <2> HIDE DEF n, end, k, t
  <2> QED BY <1>14, <2>1, <2>2
<1>22. Follows(r, m + end, Wire', t, lost)
  <2> DEFINE w == Buffered(r)
             e == m + end
  <2>1. Len(w) = k - end /\ \A j \in 1 .. k - end : w[j] = <<c, e + j>>
    <3> SUFFICES ASSUME NEW j \in 1 .. k - end PROVE w[j] = <<c, e + j>>
      BY <1>11
    <3>1. w[j] = q[end + j]
      BY <1>11
    <3>2. end + j \in 1 .. k /\ m + (end + j) = e + j
      <4> HIDE DEF end, k
      <4> QED BY <1>14
    <3> QED BY <1>8, <3>1, <3>2
  <2>2. e + (k - end) = m + k
    <3> HIDE DEF end, k
    <3> QED BY <1>14
  <2>3. e + Len(w) <= t /\ (IsOpen(s) => e + Len(w) = t)
    BY <1>8, <2>1, <2>2
  <2>4. lost \cap (e + 1 .. t) = e + Len(w) + 1 .. t
    BY <1>21, <2>1, <2>2
  <2>5. e % LineLen = 0 /\ NumbersOf(c, Wire') = (1 .. e) \ lost
    BY <1>18, <1>20
  <2>6. \A j \in 1 .. Len(w) : w[j] = <<c, e + j>>
    BY <2>1
  <2> HIDE DEF r, e, t, k, end, c, s
  <2>7. Follows(r, e, Wire', t, lost)
    BY <1>12, <2>3, <2>4, <2>5, <2>6 DEF Follows
  <2> QED BY <2>7 DEF e
<1>23. \A d \in Conns : d /= c =>
         taken'[d] = taken[d] /\ cut'[d] = cut[d] /\ NumbersOf(d, Wire') = NumbersOf(d, Wire)
  <2> HIDE DEF f, c
  <2> QED BY <1>2, <1>15, <1>16, <1>19
<1>24. \A d \in Conns : InOrder(d, Wire')
  <2> SUFFICES ASSUME NEW d \in Conns PROVE InOrder(d, Wire')
    OBVIOUS
  <2>1. InOrder(d, Wire) /\ InOrder(d, f)
    BY <1>16 DEF UpInv
  <2>2. \A x \in NumbersOf(d, Wire), y \in NumbersOf(d, f) : x < y
    <3>1. CASE d /= c
      BY <1>16, <3>1
    <3>2. CASE d = c
      <4>1. NumbersOf(d, Wire) \subseteq 1 .. m /\ NumbersOf(d, f) = m + 1 .. m + n
        BY <1>8, <1>16, <3>2
      <4> HIDE DEF f, n
      <4> QED BY <1>7, <1>14, <4>1
    <3> QED BY <3>1, <3>2
  <2>3. Wire \in Seq(P) /\ f \in Seq(P)
    BY <1>1, WireOK
  <2> HIDE DEF f, P
  <2> QED BY <1>9, <2>1, <2>2, <2>3, InOrderConcat
<1>25. cut'[c] \subseteq 1 .. taken'[c]
  <2>1. cut[c] \subseteq 1 .. t
    BY <1>3 DEF UpInv
  <2>2. m + n + 1 .. m + end \subseteq 1 .. t
    <3> HIDE DEF n, end, k, t
    <3> QED BY <1>14
  <2> QED BY <1>2, <1>15, <1>17, <2>1, <2>2 DEF lost
<1>26. UpInv'
  <2>1. Follows(r, m + end, Wire', taken'[r.conn], cut'[r.conn]) /\ m + end \in 0 .. taken'[r.conn]
        /\ r.conn = slots[turn].conn /\ cut'[r.conn] \subseteq 1 .. taken'[r.conn]
    BY <1>2, <1>12, <1>15, <1>18, <1>22, <1>25
  <2>2. \A d \in Conns : d /= r.conn =>
           taken'[d] = taken[d] /\ cut'[d] = cut[d] /\ NumbersOf(d, Wire') = NumbersOf(d, Wire)
    BY <1>12, <1>23
  <2>3. r \in Slot /\ slots' = [slots EXCEPT ![turn] = r] /\ turn \in 1 .. Len(slots)
    BY <1>1
  <2> DEFINE e == m + end
  <2> HIDE DEF r, e
  <2>4. e \in 0 .. taken'[r.conn] /\ Follows(r, e, Wire', taken'[r.conn], cut'[r.conn])
    BY <2>1 DEF e
  <2> QED BY <1>24, <2>1, <2>2, <2>3, <2>4, UpOne
<1>27. n \in Nat /\ f \in Seq(P) /\ c \in Conns
  BY <1>1, <1>3
<1>28. IsRun(q, c, m, Len(q))
  BY <1>8 DEF IsRun
<1>29. \E i \in Conns, j \in Nat, l \in Nat, h \in Seq(P) :
          /\ IsRun(h, i, j, l) /\ j % LineLen = 0 /\ Wire' = Wire \o h
          /\ IsRun(q, i, j, Len(q)) /\ l = n
  <2> HIDE DEF f, n, c, q, P
  <2> QED BY <1>7, <1>8, <1>9, <1>13, <1>27, <1>28
<1> QED BY <1>2, <1>26, <1>29

(* A slot is closed when its read event, if any, is dispatched, and select *)
(* reports no read event of a closed slot.                                 *)
LEMMA ReadersNext ==
  ASSUME TypeInv, ReadersOpen, [Next]_vars
  PROVE  ReadersOpen'
<1>1. Len(slots) \in Nat /\ DOMAIN slots = 1 .. Len(slots) /\ slots \in Seq(Slot)
      /\ ready \subseteq 0 .. 2 * Cardinality(Conns) + 3
  BY SlotsOK DEF TypeInv, BuffersOK, ControlOK
<1>2. ASSUME UNCHANGED slots, ready' \subseteq ready PROVE ReadersOpen'
  BY <1>2 DEF ReadersOpen
<1>3. ASSUME NEW e, Dispatch(e) PROVE ready' = ready \ {e} /\ ready' \subseteq ready
  BY <1>3 DEF Dispatch
<1>4. ASSUME NEW i \in 1 .. Len(slots), NEW s \in Slot, slots' = [slots EXCEPT ![i] = s], ready' \subseteq ready,
             s.state = slots[i].state \/ ReadOf(Client(i)) \notin ready'
      PROVE  ReadersOpen'
  <2>1. Len(slots') = Len(slots) /\ slots'[i] = s /\ \A j \in 1 .. Len(slots) : j /= i => slots'[j] = slots[j]
    BY <1>1, <1>4, ExceptSeq
  <2>2. ASSUME NEW j \in 1 .. Len(slots), ReadOf(Client(j)) \in ready' PROVE IsOpen(slots'[j])
    BY <1>4, <2>1, <2>2 DEF ReadersOpen, IsOpen
  <2> QED BY <2>1, <2>2 DEF ReadersOpen
<1>5. CASE Poll
  <2>1. UNCHANGED slots
    BY <1>5 DEF Poll
  <2>2. ready' \subseteq Readable \cup WantsWrite
    BY <1>5 DEF Poll, Select
  <2>3. ASSUME NEW i \in 1 .. Len(slots), ReadOf(Client(i)) \in Readable \cup WantsWrite PROVE IsOpen(slots[i])
    <3>1. ReadOf(Client(i)) \notin WantsWrite
      <4>1. ReadOf(Client(i)) /= WriteOf(Serial)
        BY <1>1 DEF ReadOf, WriteOf, Client, Serial
      <4>2. \A j \in 1 .. Len(slots) : ReadOf(Client(i)) /= WriteOf(Client(j))
        BY <1>1 DEF ReadOf, WriteOf, Client
      <4> QED BY <1>1, <4>1, <4>2 DEF WantsWrite, Pending
    <3>2. ReadOf(Client(i)) /= ReadOf(Serial) /\ ReadOf(Client(i)) /= ReadOf(Listener)
      BY <1>1 DEF ReadOf, Client, Serial, Listener
    <3>3. PICK j \in 1 .. Len(slots) : ReadOf(Client(i)) = ReadOf(Client(j)) /\ ClientReadable(j)
      BY <1>1, <2>3, <3>1, <3>2 DEF Readable
    <3>4. i = j
      BY <1>1, <3>3 DEF ReadOf, Client
    <3> QED BY <3>3, <3>4 DEF ClientReadable
  <2> QED BY <2>1, <2>2, <2>3 DEF ReadersOpen
<1>6. CASE SerialRead \/ SerialEof \/ SerialWrite
  BY <1>2, <1>3, <1>6 DEF SerialRead, SerialEof, SerialWrite
<1>7. CASE Accept
  <2>1. backlog /= <<>>
    BY <1>7 DEF TypeInv, Awaited, Accept, Dispatch
  <2>2. ready' \subseteq ready
    BY <1>3, <1>7 DEF Accept
  <2> DEFINE c == Head(backlog)
  <2>3. PICK i \in 1 .. Len(slots) + 1 :
           /\ slots'[i] = Fresh(c)
           /\ \A j \in 1 .. Len(slots') : j /= i => j \in 1 .. Len(slots) /\ slots'[j] = slots[j]
    BY <1>7, <2>1, AcceptSlots
  <2> HIDE DEF c
  <2>4. IsOpen(Fresh(c))
    BY DEF IsOpen, Fresh
  <2>5. ASSUME NEW j \in 1 .. Len(slots'), ReadOf(Client(j)) \in ready' PROVE IsOpen(slots'[j])
    BY <2>2, <2>3, <2>4, <2>5 DEF ReadersOpen
  <2> QED BY <2>5 DEF ReadersOpen
<1>8. ASSUME NEW i \in 1 .. Len(slots), Handler(i) PROVE ReadersOpen'
  <2>1. CASE ClientRead(i)
    <3>1. PICK n \in Nat, new \in BytesOf(slots[i].conn) :
            ReadSlot(slots[i], new) \in Slot /\ slots' = [slots EXCEPT ![i] = ReadSlot(slots[i], new)]
      BY <2>1, ReadEffect
    <3>2. ReadSlot(slots[i], new).state = slots[i].state
      BY DEF ReadSlot
    <3> QED BY <1>3, <1>4, <2>1, <3>1, <3>2 DEF ClientRead
  <2>2. CASE ClientEof(i) \/ ClientWriteFails(i)
    <3>1. LeftSlot(slots[i]) \in Slot /\ slots' = [slots EXCEPT ![i] = LeftSlot(slots[i])]
      BY <2>2, LeaveEffect
    <3>2. ReadOf(Client(i)) \notin ready'
      <4>1. CASE ClientEof(i)
        BY <1>3, <4>1 DEF ClientEof
      <4>2. CASE ClientWriteFails(i)
        <5>1. \A other \in ready : WriteOf(Client(i)) <= other
          BY <4>2 DEF ClientWriteFails, Dispatch
        <5>2. ~(WriteOf(Client(i)) <= ReadOf(Client(i)))
          BY <1>1 DEF ReadOf, WriteOf, Client
        <5> QED BY <1>3, <4>2, <5>1, <5>2 DEF ClientWriteFails
      <4> QED BY <2>2, <4>1, <4>2
    <3> QED BY <1>3, <1>4, <2>2, <3>1, <3>2 DEF ClientEof, ClientWriteFails
  <2>3. CASE ClientWrite(i)
    <3>1. CASE IsOpen(slots[i])
      <4>1. PICK n \in 1 .. Len(slots[i].tbuf) :
              WroteSlot(slots[i], n) \in Slot /\ slots' = [slots EXCEPT ![i] = WroteSlot(slots[i], n)]
        BY <2>3, <3>1, WriteEffect
      <4>2. WroteSlot(slots[i], n).state = slots[i].state
        BY DEF WroteSlot
      <4> QED BY <1>3, <1>4, <2>3, <4>1, <4>2 DEF ClientWrite
    <3>2. CASE ~IsOpen(slots[i])
      BY <1>2, <1>3, <2>3, <3>2 DEF ClientWrite
    <3> QED BY <3>1, <3>2
  <2>4. CASE SigPipe(i)
    BY <1>2, <2>4 DEF SigPipe
  <2> QED BY <1>8, <2>1, <2>2, <2>3, <2>4 DEF Handler
<1>9. CASE ProcessSerial \/ ProcessEnd \/ Emit \/ Unplug \/ Tick \/ (\E c \in Conns : ClientSide(c)) \/ UNCHANGED vars
  BY <1>2, <1>9 DEF ProcessSerial, ProcessEnd, Emit, Unplug, Tick, ClientSide, Connect, Send, Shut, vars, daemon
<1>10. CASE ProcessClient
  <2> DEFINE end == CommandEnd(Buffered(slots[turn]))
  <2>1. /\ turn \in 1 .. Len(slots) /\ ServedSlot(slots[turn], end) \in Slot
        /\ slots' = [slots EXCEPT ![turn] = ServedSlot(slots[turn], end)]
    BY <1>10, ServeEffect
  <2>2. ServedSlot(slots[turn], end).state = slots[turn].state
    BY DEF ServedSlot
  <2>3. ready' = ready
    BY <1>10 DEF ProcessClient
  <2> HIDE DEF end
  <2> QED BY <1>4, <2>1, <2>2, <2>3
<1> QED BY <1>5, <1>6, <1>7, <1>8, <1>9, <1>10, NextCases

(* At the start no byte is on its way.                                     *)
LEMMA UpInit == ASSUME Init PROVE UpInv /\ ReadersOpen
<1>1. slots = <<>> /\ heard = <<>> /\ serial.tbuf = <<>> /\ ready = {}
      /\ taken = [c \in Conns |-> 0] /\ cut = [c \in Conns |-> {}]
  BY DEF Init
<1>2. Wire = <<>>
  BY <1>1 DEF Wire
<1>3. \A c \in Conns : NumbersOf(c, Wire) = {} /\ InOrder(c, Wire)
  BY <1>2 DEF NumbersOf, InOrder
<1>4. \A c \in Conns : taken[c] = 0 /\ cut[c] = {}
  BY <1>1
<1>5. SlotConns = {} /\ Len(slots) = 0
  BY <1>1 DEF SlotConns
<1> QED BY <1>1, <1>3, <1>4, <1>5 DEF UpInv, ReadersOpen

(* A step keeps what was read, what is buffered and what is on the wire    *)
(* one run for each connection.                                            *)
LEMMA UpNext == ASSUME TypeInv, ReadersOpen, UpInv, [Next]_vars PROVE UpInv'
<1>1. CASE Next
  <2>1. \/ Poll \/ SerialRead \/ SerialEof \/ SerialWrite \/ Accept
        \/ \E i \in 1 .. Len(slots) : Handler(i)
        \/ ProcessSerial \/ ProcessClient \/ ProcessEnd
        \/ Emit \/ Unplug \/ Tick \/ \E c \in Conns : ClientSide(c)
    BY <1>1, NextCases
  <2>2. ASSUME NEW i \in 1 .. Len(slots), Handler(i) PROVE UpInv'
    BY <2>2, UpRead, UpLeave, UpQuiet DEF Handler
  <2> QED BY <2>1, <2>2, UpQuiet, UpEof, UpAccept, UpServe
<1>2. CASE UNCHANGED vars
  BY <1>2, UpQuiet
<1> QED BY <1>1, <1>2

(* What the slots hold and what is on the wire, put together.              *)
LEMMA UplinkOK == ASSUME TypeInv, UpInv PROVE UplinkExact
<1> SUFFICES ASSUME NEW c \in Conns
             PROVE  InOrder(c, Uplink(c)) /\ NumbersOf(c, Uplink(c)) = (1 .. taken[c]) \ cut[c]
  BY DEF UplinkExact
<1> DEFINE own == {i \in DOMAIN slots : slots[i].conn = c}
           P   == Conns \X Nat
           h   == Held(c)
           w   == Wire
<1>1. DOMAIN slots = 1 .. Len(slots) /\ \A i \in 1 .. Len(slots) : slots[i] \in Slot
  BY SlotsOK DEF TypeInv
<1>2. w \in Seq(P) /\ Uplink(c) = w \o h /\ InOrder(c, w)
  BY WireOK DEF Uplink, UpInv
<1>3. CASE own = {}
  <2>1. h = <<>>
    BY <1>3 DEF Held
  <2>2. c \notin SlotConns
    BY <1>3 DEF SlotConns
  <2>3. NumbersOf(c, w) = (1 .. taken[c]) \ cut[c]
    BY <2>2 DEF UpInv
  <2> HIDE DEF w, P, h
  <2>4. w \o h = w
    BY <1>2, <2>1
  <2> QED BY <1>2, <2>3, <2>4
<1>4. ASSUME NEW i \in own PROVE InOrder(c, Uplink(c)) /\ NumbersOf(c, Uplink(c)) = (1 .. taken[c]) \ cut[c]
  <2> DEFINE s == slots[i]
             n == Len(h)
             t == taken[c]
  <2>1. i \in 1 .. Len(slots) /\ s \in Slot /\ s.conn = c
    BY <1>1, <1>4
  <2>2. \A j \in own : j = i
    BY <1>1, <2>1 DEF TypeInv, Apart
  <2>3. h = Buffered(s)
    <3>1. h = Buffered(slots[CHOOSE j \in own : TRUE])
      BY <1>4 DEF Held
    <3>2. (CHOOSE j \in own : TRUE) \in own
      BY <1>4
    <3> QED BY <2>2, <3>1, <3>2
  <2>4. PICK m \in 0 .. t : Follows(s, m, w, t, cut[c])
    BY <2>1 DEF UpInv
  <2>5. /\ m + n <= t /\ IsRun(h, c, m, n) /\ NumbersOf(c, w) = (1 .. m) \ cut[c]
        /\ cut[c] \cap (m + 1 .. t) = m + n + 1 .. t
    BY <2>1, <2>3, <2>4 DEF Follows, IsRun
  <2>6. t \in Nat /\ m \in Nat
    <3>1. t \in Nat
      BY DEF TypeInv, WorldOK
    <3> HIDE DEF t
    <3> QED BY <3>1
  <2>7. h \in Seq(P) /\ n \in Nat
    BY <2>1, <2>3, BufferedOK
  <2> HIDE DEF w, h, n, P
  <2>8. NumbersOf(c, h) = m + 1 .. m + n /\ InOrder(c, h)
    BY <2>5, <2>6, <2>7, RunOK
  <2>9. \A x \in NumbersOf(c, w), y \in NumbersOf(c, h) : x < y
    BY <2>5, <2>6, <2>7, <2>8
  <2>10. InOrder(c, w \o h)
    BY <1>2, <2>7, <2>8, <2>9, InOrderConcat
  <2>11. NumbersOf(c, w \o h) = ((1 .. m) \ cut[c]) \cup (m + 1 .. m + n)
    BY <1>2, <2>5, <2>7, <2>8, NumbersConcat
  <2> DEFINE lost == cut[c]
  <2> HIDE DEF lost, t
  <2>12. ((1 .. m) \ lost) \cup (m + 1 .. m + n) = (1 .. t) \ lost
    <3>1. lost \cap (m + 1 .. t) = m + n + 1 .. t /\ m + n <= t
      BY <2>5 DEF lost
    <3> QED BY <2>6, <2>7, <3>1
  <2> QED BY <1>2, <2>10, <2>11, <2>12 DEF lost, t
<1> QED BY <1>3, <1>4

(* What a client sent reaches the serial device in order and at most once, *)
(* and what was read from its socket is on the way unless it was dropped.  *)
THEOREM UplinkCorrect == Spec => []UplinkExact
<1> DEFINE Inv == TypeInv /\ ReadersOpen /\ UpInv
<1>1. Init => Inv
  BY TypeInit, UpInit
<1>2. Inv /\ [Next]_vars => Inv'
  BY TypeNext, ReadersNext, UpNext
<1>3. Inv => UplinkExact
  BY UplinkOK
<1> HIDE DEF Inv
<1> QED BY <1>1, <1>2, <1>3, PTL DEF Spec

------------------------------------------------------------------------------
(* The commands of the clients are not mixed.                              *)

(* A step that queues a line, or takes the end off what was queued.        *)
LEMMA LinesNext == ASSUME TypeInv, UpInv, LinesContiguous, [Next]_vars PROVE LinesContiguous'
<1> DEFINE P == Conns \X Nat
           w == Wire
<1>1. w \in Seq(P) /\ Len(w) \in Nat /\ heard \in Seq(P) /\ serial.tbuf \in Seq(P) /\ w = heard \o serial.tbuf
  BY WireOK DEF Wire
<1>2. \A k \in 1 .. Len(w) - 1 :
        \/ w[k + 1][1] = w[k][1] /\ w[k + 1][2] = w[k][2] + 1
        \/ Starts(w[k + 1])
  BY DEF LinesContiguous
<1>3. ASSUME Wire' = w PROVE LinesContiguous'
  BY <1>3 DEF LinesContiguous
<1>4. CASE SerialEof
  <2>1. serial'.tbuf = <<>> /\ heard' = heard
    BY <1>4 DEF SerialEof
  <2>2. Wire' = heard
    BY <1>1, <2>1 DEF Wire
  <2> DEFINE t == serial.tbuf
  <2>3. w = heard \o t /\ heard \in Seq(P) /\ t \in Seq(P)
    BY <1>1
  <2> HIDE DEF w, t, P
  <2>4. Len(heard) \in Nat /\ Len(t) \in Nat /\ Len(w) = Len(heard) + Len(t)
        /\ \A k \in 1 .. Len(heard) : w[k] = heard[k]
    BY <2>3, ConcatOK
  <2>5. ASSUME NEW k \in 1 .. Len(heard) - 1
        PROVE  \/ heard[k + 1][1] = heard[k][1] /\ heard[k + 1][2] = heard[k][2] + 1
               \/ Starts(heard[k + 1])
    <3>1. k \in 1 .. Len(w) - 1 /\ k \in 1 .. Len(heard) /\ k + 1 \in 1 .. Len(heard)
      BY <2>4
    <3>2. w[k] = heard[k] /\ w[k + 1] = heard[k + 1]
      BY <2>4, <3>1
    <3> QED BY <1>2, <3>1, <3>2
  <2> QED BY <2>2, <2>5 DEF LinesContiguous
<1>5. CASE ProcessClient
  <2>1. PICK c \in Conns, m \in Nat, n \in Nat, f \in Seq(P) :
          IsRun(f, c, m, n) /\ m % LineLen = 0 /\ Wire' = w \o f
    BY <1>5, UpServe
  <2> DEFINE v == w \o f
  <2>2. Len(f) = n /\ \A k \in 1 .. n : f[k][1] = c /\ f[k][2] = m + k
    BY <2>1 DEF IsRun
  <2> HIDE DEF w, P, v
  <2>3. /\ Len(v) = Len(w) + n
        /\ \A k \in 1 .. Len(w) : v[k] = w[k]
        /\ \A k \in 1 .. n : v[Len(w) + k] = f[k]
    <3>1. w \in Seq(P) /\ f \in Seq(P) /\ Len(f) = n
      BY <1>1, <2>2
    <3> DEFINE u == w \o f
    <3>2. /\ Len(u) = Len(w) + Len(f)
          /\ \A k \in 1 .. Len(w) : u[k] = w[k]
          /\ \A k \in 1 .. Len(f) : u[Len(w) + k] = f[k]
      <4>1. Len(u) = Len(w) + Len(f)
        BY <3>1, ConcatOK
      <4>2. ASSUME NEW k \in 1 .. Len(w) PROVE u[k] = w[k]
        BY <3>1, ConcatOK
      <4>3. ASSUME NEW k \in 1 .. Len(f) PROVE u[Len(w) + k] = f[k]
        BY <3>1, ConcatOK
      <4> QED BY <4>1, <4>2, <4>3
    <3> QED BY <3>1, <3>2 DEF v
  <2>4. ASSUME NEW k \in 1 .. Len(v) - 1
        PROVE  \/ v[k + 1][1] = v[k][1] /\ v[k + 1][2] = v[k][2] + 1
               \/ Starts(v[k + 1])
    <3>1. CASE k + 1 <= Len(w)
      <4>1. k \in 1 .. Len(w) - 1 /\ k \in 1 .. Len(w) /\ k + 1 \in 1 .. Len(w)
        BY <1>1, <2>3, <3>1
      <4> QED BY <1>2, <2>3, <4>1
    <3>2. CASE k = Len(w)
      <4>1. 1 \in 1 .. n
        BY <1>1, <2>3, <3>2
      <4>2. v[k + 1] = f[1] /\ f[1][2] = m + 1
        BY <2>2, <2>3, <3>2, <4>1
      <4>3. (m + 1) % LineLen = 1 % LineLen
        BY <2>1, CapOK, AboveMultiple
      <4> QED BY <4>2, <4>3 DEF Starts
    <3>3. CASE k > Len(w)
      <4> DEFINE j == k - Len(w)
      <4>1. j \in 1 .. n /\ j + 1 \in 1 .. n /\ k = Len(w) + j /\ k + 1 = Len(w) + (j + 1)
        BY <1>1, <2>3, <3>3
      <4> HIDE DEF j
      <4>2. v[k] = f[j] /\ v[k + 1] = f[j + 1]
        BY <2>3, <4>1
      <4>3. f[j][1] = c /\ f[j + 1][1] = c /\ f[j][2] = m + j /\ f[j + 1][2] = m + (j + 1)
        BY <2>2, <4>1
      <4>4. m + (j + 1) = (m + j) + 1
        BY <4>1
      <4> QED BY <4>2, <4>3, <4>4
    <3> QED BY <1>1, <3>1, <3>2, <3>3
  <2> QED BY <2>1, <2>4 DEF LinesContiguous, v
<1>6. CASE Accept \/ \E i \in 1 .. Len(slots) : ClientEof(i) \/ ClientWriteFails(i)
  BY <1>3, <1>6, UpAccept, UpLeave
<1>7. CASE \E i \in 1 .. Len(slots) : ClientRead(i)
  <2>1. UNCHANGED <<serial, heard>>
    BY <1>7 DEF ClientRead
  <2> QED BY <1>3, <2>1 DEF Wire
<1>8. CASE \/ Poll \/ SerialRead \/ SerialWrite \/ ProcessSerial \/ ProcessEnd
           \/ Emit \/ Unplug \/ Tick \/ (\E c \in Conns : ClientSide(c)) \/ UNCHANGED vars
           \/ \E i \in 1 .. Len(slots) : SigPipe(i) \/ ClientWrite(i)
  BY <1>3, <1>8, UpQuiet
<1> QED BY <1>4, <1>5, <1>6, <1>7, <1>8, NextCases DEF Handler

(* A byte on its way to the serial device follows the byte before it in    *)
(* the same line of the same client, or it starts a line.                  *)
THEOREM LinesCorrect == Spec => []LinesContiguous
<1> DEFINE Inv == TypeInv /\ ReadersOpen /\ UpInv /\ LinesContiguous
<1>1. ASSUME Init PROVE LinesContiguous
  <2>1. Wire = <<>>
    BY <1>1 DEF Wire, Init
  <2> QED BY <2>1 DEF LinesContiguous
<1>2. Init => Inv
  BY <1>1, TypeInit, UpInit
<1>3. Inv /\ [Next]_vars => Inv'
  BY TypeNext, ReadersNext, UpNext, LinesNext
<1>4. Inv => LinesContiguous
  OBVIOUS
<1> HIDE DEF Inv
<1> QED BY <1>2, <1>3, <1>4, PTL DEF Spec

------------------------------------------------------------------------------
(* What a client receives of the serial device.                            *)

(* Two sequences of numbers in a row.                                      *)
LEMMA StreamOK ==
  ASSUME NEW a \in Positions, NEW b \in Positions
  PROVE  /\ a \o b \in Positions /\ ElementsOf(a \o b) = ElementsOf(a) \cup ElementsOf(b)
         /\ Increasing(a \o b) <=> Increasing(a) /\ Increasing(b) /\ Below(ElementsOf(a), ElementsOf(b))
<1> DEFINE S == 1 .. MaxEmit
           d == a \o b
<1>1. a \in Seq(S) /\ b \in Seq(S)
  BY DEF Positions
<1>2. Len(a) \in Nat /\ Len(b) \in Nat /\ DOMAIN a = 1 .. Len(a) /\ DOMAIN b = 1 .. Len(b)
  BY <1>1
<1> HIDE DEF S, d
<1>3. d \in Seq(S) /\ Len(d) = Len(a) + Len(b) /\ DOMAIN d = 1 .. Len(a) + Len(b)
  BY <1>1, ConcatOK DEF d
<1>4. \A k \in 1 .. Len(a) : k \in DOMAIN d /\ d[k] = a[k]
  <2> SUFFICES ASSUME NEW k \in 1 .. Len(a) PROVE k \in DOMAIN d /\ d[k] = a[k]
    OBVIOUS
  <2> QED BY <1>1, <1>3, ConcatOK DEF d
<1>5. \A k \in 1 .. Len(b) : Len(a) + k \in DOMAIN d /\ d[Len(a) + k] = b[k]
  <2> SUFFICES ASSUME NEW k \in 1 .. Len(b) PROVE Len(a) + k \in DOMAIN d /\ d[Len(a) + k] = b[k]
    OBVIOUS
  <2> QED BY <1>1, <1>3, ConcatOK DEF d
<1>6. \A k \in DOMAIN d : k \in 1 .. Len(a) \/ (k - Len(a) \in 1 .. Len(b) /\ d[k] = b[k - Len(a)])
  <2> SUFFICES ASSUME NEW k \in DOMAIN d
               PROVE  k \in 1 .. Len(a) \/ (k - Len(a) \in 1 .. Len(b) /\ d[k] = b[k - Len(a)])
    OBVIOUS
  <2>1. k \in 1 .. Len(d)
    BY <1>3
  <2> QED BY <1>1, <2>1, ConcatOK DEF d
<1>7. ElementsOf(d) = ElementsOf(a) \cup ElementsOf(b)
  <2>1. \A x \in ElementsOf(d) : x \in ElementsOf(a) \cup ElementsOf(b)
    BY <1>2, <1>4, <1>6 DEF ElementsOf
  <2>2. \A x \in ElementsOf(a) : x \in ElementsOf(d)
    BY <1>2, <1>4 DEF ElementsOf
  <2>3. \A x \in ElementsOf(b) : x \in ElementsOf(d)
    BY <1>2, <1>5 DEF ElementsOf
  <2> QED BY <2>1, <2>2, <2>3
<1>8. ASSUME Increasing(d) PROVE Increasing(a) /\ Increasing(b) /\ Below(ElementsOf(a), ElementsOf(b))
  <2>1. \A i, j \in DOMAIN d : i < j => d[i] < d[j]
    BY <1>8 DEF Increasing
  <2>2. ASSUME NEW i \in 1 .. Len(a), NEW j \in 1 .. Len(a), i < j PROVE a[i] < a[j]
    BY <1>4, <2>1, <2>2
  <2>3. ASSUME NEW i \in 1 .. Len(b), NEW j \in 1 .. Len(b), i < j PROVE b[i] < b[j]
    <3>1. Len(a) + i < Len(a) + j
      BY <1>2, <2>3
    <3> QED BY <1>5, <2>1, <3>1
  <2>4. ASSUME NEW x \in ElementsOf(a), NEW y \in ElementsOf(b) PROVE x < y
    <3>1. PICK i \in 1 .. Len(a) : x = a[i]
      BY <1>2 DEF ElementsOf
    <3>2. PICK j \in 1 .. Len(b) : y = b[j]
      BY <1>2 DEF ElementsOf
    <3>3. i < Len(a) + j
      BY <1>2
    <3> QED BY <1>4, <1>5, <2>1, <3>1, <3>2, <3>3
  <2> QED BY <1>2, <2>2, <2>3, <2>4 DEF Increasing, Below
<1>9. ASSUME Increasing(a), Increasing(b), Below(ElementsOf(a), ElementsOf(b)) PROVE Increasing(d)
  <2> SUFFICES ASSUME NEW i \in DOMAIN d, NEW j \in DOMAIN d, i < j PROVE d[i] < d[j]
    BY DEF Increasing
  <2>1. CASE j \in 1 .. Len(a)
    <3>1. i \in 1 .. Len(a)
      BY <1>2, <1>3, <2>1
    <3> QED BY <1>2, <1>4, <1>9, <2>1, <3>1 DEF Increasing
  <2>2. CASE j - Len(a) \in 1 .. Len(b) /\ d[j] = b[j - Len(a)]
    <3>1. CASE i \in 1 .. Len(a)
      <4>1. d[i] \in ElementsOf(a) /\ d[j] \in ElementsOf(b)
        BY <1>2, <1>4, <2>2, <3>1 DEF ElementsOf
      <4> QED BY <1>9, <4>1 DEF Below
    <3>2. CASE i - Len(a) \in 1 .. Len(b) /\ d[i] = b[i - Len(a)]
      <4>1. i - Len(a) < j - Len(a)
        BY <1>2, <1>3
      <4> QED BY <1>2, <1>9, <2>2, <3>2, <4>1 DEF Increasing
    <3> QED BY <1>6, <3>1, <3>2
  <2> QED BY <1>6, <2>1, <2>2
<1>10. d \in Positions
  BY <1>3 DEF Positions, S
<1>11. Increasing(d) <=> Increasing(a) /\ Increasing(b) /\ Below(ElementsOf(a), ElementsOf(b))
  BY <1>8, <1>9
<1> QED BY <1>7, <1>10, <1>11 DEF d

(* A sequence of numbers, taken from the front.                            *)
LEMMA SplitOK ==
  ASSUME NEW q \in Positions, NEW n \in Nat
  PROVE  /\ First(q, n) \in Positions /\ Rest(q, n) \in Positions
         /\ ElementsOf(q) = ElementsOf(First(q, n)) \cup ElementsOf(Rest(q, n))
         /\ Increasing(q) => /\ Increasing(First(q, n)) /\ Increasing(Rest(q, n))
                             /\ Below(ElementsOf(First(q, n)), ElementsOf(Rest(q, n)))
<1> DEFINE S == 1 .. MaxEmit
           a == First(q, n)
           b == Rest(q, n)
<1>1. q \in Seq(S)
  BY DEF Positions
<1> HIDE DEF S
<1>2. a \in Seq(S) /\ b \in Seq(S)
  BY <1>1, FirstOK, RestOK
<1>3. q = a \o b
  BY <1>1, FirstRest
<1>4. a \in Positions /\ b \in Positions
  BY <1>2 DEF Positions, S
<1> HIDE DEF a, b
<1> QED BY <1>3, <1>4, StreamOK DEF a, b

(* The numbers of the empty sequence and of the serial device's bytes.     *)
LEMMA NoneOK == <<>> \in Positions /\ ElementsOf(<<>>) = {} /\ Increasing(<<>>)
BY DEF Positions, ElementsOf, Increasing

(* The next bytes that are read are the next numbers.                      *)
LEMMA NumbersWay ==
  ASSUME NEW m \in Nat, NEW n \in Nat, m + n <= MaxEmit
  PROVE  /\ Numbers(m, m + n) \in Positions /\ Increasing(Numbers(m, m + n))
         /\ ElementsOf(Numbers(m, m + n)) = m + 1 .. m + n
<1> DEFINE s == Numbers(m, m + n)
<1>1. s \in Positions /\ Len(s) = n /\ \A i \in 1 .. n : s[i] = m + i
  BY NumbersOK
<1> HIDE DEF s
<1>2. DOMAIN s = 1 .. n
  BY <1>1 DEF Positions
<1>3. Increasing(s)
  BY <1>1, <1>2 DEF Increasing
<1>4. \A x \in ElementsOf(s) : x \in m + 1 .. m + n
  BY <1>1, <1>2 DEF ElementsOf
<1>5. ASSUME NEW x \in m + 1 .. m + n PROVE x \in ElementsOf(s)
  <2>1. x - m \in 1 .. n /\ m + (x - m) = x
    OBVIOUS
  <2>2. s[x - m] = x
    BY <1>1, <2>1
  <2> QED BY <1>2, <2>1, <2>2 DEF ElementsOf
<1> QED BY <1>1, <1>3, <1>4, <1>5 DEF s

(* What the four parts of the way are, one after the other.                *)
LEMMA WayOK ==
  ASSUME NEW g \in Positions, NEW t \in Positions, NEW k \in Positions, NEW r \in Positions,
         NEW from, NEW upto, NEW lost, Way(g, t, k, r, from, upto, lost)
  PROVE  /\ Increasing(g \o t \o k \o r)
         /\ ElementsOf(g \o t \o k \o r) = (from + 1 .. upto) \ lost
<1> DEFINE a == g \o t
           b == a \o k
           d == b \o r
<1>1. a \in Positions /\ ElementsOf(a) = ElementsOf(g) \cup ElementsOf(t) /\ Increasing(a)
  BY StreamOK DEF Way
<1> HIDE DEF a
<1>2. Below(ElementsOf(a), ElementsOf(k)) /\ Below(ElementsOf(a), ElementsOf(r))
  BY <1>1 DEF Way, Below
<1>3. b \in Positions /\ ElementsOf(b) = ElementsOf(a) \cup ElementsOf(k) /\ Increasing(b)
  BY <1>1, <1>2, StreamOK DEF Way
<1> HIDE DEF b
<1>4. Below(ElementsOf(b), ElementsOf(r))
  BY <1>2, <1>3 DEF Way, Below
<1>5. ElementsOf(d) = ElementsOf(b) \cup ElementsOf(r) /\ Increasing(d)
  BY <1>3, <1>4, StreamOK DEF Way
<1>6. ElementsOf(d) = (from + 1 .. upto) \ lost
  BY <1>1, <1>3, <1>5 DEF Way
<1> QED BY <1>5, <1>6 DEF a, b

(* The client takes a part of its transmit buffer.                         *)
LEMMA WayTaken ==
  ASSUME NEW g \in Positions, NEW t \in Positions, NEW k \in Positions, NEW r \in Positions,
         NEW from, NEW upto, NEW lost, Way(g, t, k, r, from, upto, lost), NEW n \in Nat
  PROVE  Way(g \o First(t, n), Rest(t, n), k, r, from, upto, lost)
<1> DEFINE a == First(t, n)
           b == Rest(t, n)
<1>1. /\ a \in Positions /\ b \in Positions /\ ElementsOf(t) = ElementsOf(a) \cup ElementsOf(b)
      /\ Increasing(a) /\ Increasing(b) /\ Below(ElementsOf(a), ElementsOf(b))
  BY SplitOK DEF Way
<1> HIDE DEF a, b
<1> DEFINE h == g \o a
<1>2. Below(ElementsOf(g), ElementsOf(a))
  BY <1>1 DEF Way, Below
<1>3. ElementsOf(h) = ElementsOf(g) \cup ElementsOf(a) /\ Increasing(h)
  BY <1>1, <1>2, StreamOK DEF Way
<1> HIDE DEF h
<1>4. /\ Below(ElementsOf(h), ElementsOf(b)) /\ Below(ElementsOf(h), ElementsOf(k))
      /\ Below(ElementsOf(h), ElementsOf(r)) /\ Below(ElementsOf(b), ElementsOf(k))
      /\ Below(ElementsOf(b), ElementsOf(r))
  BY <1>1, <1>3 DEF Way, Below
<1>5. ElementsOf(h) \cup ElementsOf(b) \cup ElementsOf(k) \cup ElementsOf(r)
        = ElementsOf(g) \cup ElementsOf(t) \cup ElementsOf(k) \cup ElementsOf(r)
  BY <1>1, <1>3
<1>6. Way(h, b, k, r, from, upto, lost)
  BY <1>1, <1>3, <1>4, <1>5 DEF Way
<1> QED BY <1>6 DEF a, b, h

(* More is read from the serial device.                                    *)
LEMMA WayRead ==
  ASSUME NEW g \in Positions, NEW t \in Positions, NEW k \in Positions, NEW r \in Positions,
         NEW from \in Nat, NEW upto \in Nat, NEW lost \in SUBSET (1 .. upto), from <= upto,
         Way(g, t, k, r, from, upto, lost), NEW n \in Nat, upto + n <= MaxEmit
  PROVE  Way(g, t, k, r \o Numbers(upto, upto + n), from, upto + n, lost)
<1> DEFINE s == Numbers(upto, upto + n)
           q == r \o s
<1>1. s \in Positions /\ Increasing(s) /\ ElementsOf(s) = upto + 1 .. upto + n
  BY NumbersWay
<1> HIDE DEF s
<1>2. ElementsOf(g) \cup ElementsOf(t) \cup ElementsOf(k) \cup ElementsOf(r) \subseteq from + 1 .. upto
  BY DEF Way
<1>3. /\ ElementsOf(g) \subseteq from + 1 .. upto /\ ElementsOf(t) \subseteq from + 1 .. upto
      /\ ElementsOf(k) \subseteq from + 1 .. upto /\ ElementsOf(r) \subseteq from + 1 .. upto
  BY <1>2
<1>4. \A x \in from + 1 .. upto, y \in upto + 1 .. upto + n : x < y
  OBVIOUS
<1>5. Below(ElementsOf(r), ElementsOf(s))
  BY <1>1, <1>3, <1>4 DEF Below
<1>6. Increasing(q) /\ ElementsOf(q) = ElementsOf(r) \cup ElementsOf(s)
  BY <1>1, <1>5, StreamOK DEF Way
<1> HIDE DEF q
<1>7. /\ Below(ElementsOf(g), ElementsOf(q)) /\ Below(ElementsOf(t), ElementsOf(q))
      /\ Below(ElementsOf(k), ElementsOf(q))
  BY <1>1, <1>3, <1>4, <1>6 DEF Way, Below
<1>8. (from + 1 .. upto + n) \ lost = ((from + 1 .. upto) \ lost) \cup (upto + 1 .. upto + n)
  OBVIOUS
<1>9. ElementsOf(g) \cup ElementsOf(t) \cup ElementsOf(k) \cup ElementsOf(q) = (from + 1 .. upto + n) \ lost
  <2>1. ElementsOf(g) \cup ElementsOf(t) \cup ElementsOf(k) \cup ElementsOf(r) = (from + 1 .. upto) \ lost
    BY DEF Way
  <2>2. ElementsOf(g) \cup ElementsOf(t) \cup ElementsOf(k) \cup ElementsOf(q)
          = ((from + 1 .. upto) \ lost) \cup (upto + 1 .. upto + n)
    BY <1>1, <1>6, <2>1
  <2> QED BY <1>8, <2>2
<1>10. Way(g, t, k, q, from, upto + n, lost)
  BY <1>6, <1>7, <1>9 DEF Way
<1> QED BY <1>10 DEF q, s

(* What is in the receive buffer is lost with the tty.                     *)
LEMMA WayFlushed ==
  ASSUME NEW g, NEW t, NEW k, NEW r,
         NEW from, NEW upto, NEW lost, Way(g, t, k, r, from, upto, lost),
         ElementsOf(g) \subseteq Nat, ElementsOf(t) \subseteq Nat, ElementsOf(k) \subseteq Nat
  PROVE  Way(g, t, k, <<>>, from, upto, lost \cup ElementsOf(r))
<1> DEFINE A == ElementsOf(g)
           B == ElementsOf(t)
           C == ElementsOf(k)
           D == ElementsOf(r)
<1>1. A \cup B \cup C \cup D = (from + 1 .. upto) \ lost /\ Below(A, D) /\ Below(B, D) /\ Below(C, D)
  BY DEF Way
<1> HIDE DEF A, B, C, D
<1>2. A \cap D = {} /\ B \cap D = {} /\ C \cap D = {}
  <2>1. \A x \in Nat : ~(x < x)
    OBVIOUS
  <2>2. A \subseteq Nat /\ B \subseteq Nat /\ C \subseteq Nat
    BY DEF A, B, C
  <2> QED BY <1>1, <2>1, <2>2 DEF Below
<1>3. A \cup B \cup C \cup {} = (from + 1 .. upto) \ (lost \cup D)
  BY <1>1, <1>2
<1>4. Below(A, {}) /\ Below(B, {}) /\ Below(C, {})
  BY DEF Below
<1> QED BY <1>3, <1>4, NoneOK DEF Way, A, B, C, D

(* The first of the receive buffer is copied for all clients.              *)
LEMMA WayCopied ==
  ASSUME NEW g, NEW t, NEW r \in Positions, NEW from, NEW upto, NEW lost,
         Way(g, t, <<>>, r, from, upto, lost), NEW n \in Nat
  PROVE  Way(g, t, First(r, n), Rest(r, n), from, upto, lost)
<1> DEFINE a == First(r, n)
           b == Rest(r, n)
<1>1. /\ ElementsOf(r) = ElementsOf(a) \cup ElementsOf(b)
      /\ Increasing(a) /\ Increasing(b) /\ Below(ElementsOf(a), ElementsOf(b))
  BY SplitOK DEF Way
<1> HIDE DEF a, b
<1>2. /\ Below(ElementsOf(g), ElementsOf(a)) /\ Below(ElementsOf(g), ElementsOf(b))
      /\ Below(ElementsOf(t), ElementsOf(a)) /\ Below(ElementsOf(t), ElementsOf(b))
  BY <1>1 DEF Way, Below
<1>3. ElementsOf(g) \cup ElementsOf(t) \cup ElementsOf(a) \cup ElementsOf(b) = (from + 1 .. upto) \ lost
  BY <1>1, NoneOK DEF Way
<1>4. Way(g, t, a, b, from, upto, lost)
  BY <1>1, <1>2, <1>3 DEF Way
<1> QED BY <1>4 DEF a, b

(* What fits of the copy is in the transmit buffer, the rest is lost.      *)
LEMMA WayServed ==
  ASSUME NEW g \in Positions, NEW t \in Positions, NEW k \in Positions, NEW r \in Positions,
         NEW from, NEW upto, NEW lost, Way(g, t, k, r, from, upto, lost), NEW n \in Nat
  PROVE  Way(g, t \o First(k, n), <<>>, r, from, upto, lost \cup ElementsOf(Rest(k, n)))
<1> DEFINE a == First(k, n)
           b == Rest(k, n)
           G == ElementsOf(g)
           T == ElementsOf(t)
           A == ElementsOf(a)
           B == ElementsOf(b)
           R == ElementsOf(r)
<1>1. /\ a \in Positions /\ b \in Positions /\ ElementsOf(k) = A \cup B
      /\ Increasing(a) /\ Increasing(b) /\ Below(A, B)
  BY SplitOK DEF Way
<1>2. G \subseteq Nat /\ T \subseteq Nat /\ A \subseteq Nat /\ B \subseteq Nat /\ R \subseteq Nat
  <2>1. \A s \in Positions : ElementsOf(s) \subseteq 1 .. MaxEmit
    BY ElementsOK DEF Positions
  <2>2. 1 .. MaxEmit \subseteq Nat
    OBVIOUS
  <2> HIDE DEF a, b
  <2> QED BY <1>1, <2>1, <2>2
<1> HIDE DEF a, b
<1> DEFINE u == t \o a
<1>3. Below(T, A)
  BY <1>1 DEF Way, Below
<1>4. ElementsOf(u) = T \cup A /\ Increasing(u)
  BY <1>1, <1>3, StreamOK DEF Way
<1> HIDE DEF u
<1>5. Below(G, ElementsOf(u)) /\ Below(G, R) /\ Below(ElementsOf(u), R)
  BY <1>1, <1>4 DEF Way, Below
<1>6. Below(G, B) /\ Below(T, B) /\ Below(B, R)
  BY <1>1 DEF Way, Below
<1>7. G \cup T \cup (A \cup B) \cup R = (from + 1 .. upto) \ lost
  BY <1>1 DEF Way
<1>8. \A x \in Nat : ~(x < x)
  OBVIOUS
<1>9. Increasing(g) /\ Increasing(r)
  BY DEF Way
<1>10. Below(G, {}) /\ Below(ElementsOf(u), {}) /\ Below({}, R)
  BY DEF Below
<1>11. G \cup (T \cup A) \cup {} \cup R = (from + 1 .. upto) \ (lost \cup B)
  <2> HIDE DEF G, T, A, B, R
  <2>1. G \cap B = {} /\ T \cap B = {} /\ A \cap B = {} /\ R \cap B = {}
    BY <1>1, <1>2, <1>6, <1>8 DEF Below
  <2> QED BY <1>7, <2>1
<1>12. Way(g, u, <<>>, r, from, upto, lost \cup B)
  BY <1>4, <1>5, <1>9, <1>10, <1>11, NoneOK DEF Way
<1> QED BY <1>12 DEF u, a, b

(* The tty goes away with what was not read.                               *)
LEMMA WayUnplugged ==
  ASSUME NEW g, NEW t, NEW k, NEW r, NEW from \in Nat, NEW upto \in Nat, NEW more \in Nat,
         from <= upto, upto <= more, NEW lost, Way(g, t, k, r, from, upto, lost)
  PROVE  Way(g, t, k, r, from, more, lost \cup (upto + 1 .. more))
<1>1. (from + 1 .. more) \ (lost \cup (upto + 1 .. more)) = (from + 1 .. upto) \ lost
  OBVIOUS
<1> QED BY <1>1 DEF Way

(* The types of the parts.                                                 *)
LEMMA PartsOK ==
  ASSUME TypeInv
  PROVE  /\ copy \in Positions /\ serial.rbuf \in Positions
         /\ port.taken \in Nat /\ port.emitted \in Nat /\ port.taken <= port.emitted
         /\ port.emitted <= MaxEmit
         /\ \A c \in Conns : got[c] \in Positions /\ joined[c] \in Nat
         /\ Len(slots) \in Nat /\ DOMAIN slots = 1 .. Len(slots) /\ slots \in Seq(Slot)
         /\ \A i \in 1 .. Len(slots) : /\ slots[i] \in Slot /\ slots[i].conn \in Conns
                                       /\ slots[i].tbuf \in Positions /\ CopyFor(i) \in Positions
<1>1. /\ copy \in Positions /\ serial.rbuf \in Positions /\ slots \in Seq(Slot)
      /\ Len(slots) \in Nat /\ DOMAIN slots = 1 .. Len(slots)
      /\ \A i \in 1 .. Len(slots) : slots[i] \in Slot
  BY SlotsOK DEF TypeInv, BuffersOK
<1>2. /\ port.taken \in Nat /\ port.emitted \in Nat /\ port.taken <= port.emitted
      /\ port.emitted <= MaxEmit
  BY CapOK DEF TypeInv, WorldOK
<1>3. \A c \in Conns : got[c] \in Positions /\ joined[c] \in Nat
  BY CapOK DEF TypeInv, GhostsOK
<1>4. \A i \in 1 .. Len(slots) : slots[i].conn \in Conns /\ slots[i].tbuf \in Positions
  BY <1>1, SlotOK
<1>5. \A i \in 1 .. Len(slots) : CopyFor(i) \in Positions
  BY <1>1, NoneOK DEF CopyFor
<1> QED BY <1>1, <1>2, <1>3, <1>4, <1>5

(* A step that disturbs nothing on the way.                                *)
LEMMA SerialSame ==
  ASSUME SerialInv, UNCHANGED <<copy, joined, missed>>, serial'.rbuf = serial.rbuf,
         port'.taken = port.taken, phase' = "clients" <=> phase = "clients"
  PROVE  SerialInv'
BY DEF SerialInv

(* A step that touches nothing on the way to a client.                     *)
LEMMA RelaySame ==
  ASSUME RelayInv, UNCHANGED <<copy, joined, missed, turn>>, serial'.rbuf = serial.rbuf,
         port'.taken = port.taken, phase' = "clients" <=> phase = "clients", Len(slots') = Len(slots),
         \A i \in 1 .. Len(slots) : IsOpen(slots'[i]) =>
           /\ IsOpen(slots[i]) /\ slots'[i].conn = slots[i].conn /\ slots'[i].tbuf = slots[i].tbuf
           /\ got'[slots[i].conn] = got[slots[i].conn]
  PROVE  RelayInv'
<1> SUFFICES ASSUME NEW i \in 1 .. Len(slots), IsOpen(slots'[i])
             PROVE  Way(got'[slots'[i].conn], slots'[i].tbuf, CopyFor(i)', serial'.rbuf,
                        joined'[slots'[i].conn], port'.taken, missed'[slots'[i].conn])
  BY DEF RelayInv
<1>1. CopyFor(i)' = CopyFor(i)
  BY DEF CopyFor
<1>2. Way(got[slots[i].conn], slots[i].tbuf, CopyFor(i), serial.rbuf,
          joined[slots[i].conn], port.taken, missed[slots[i].conn])
  BY DEF RelayInv
<1> QED BY <1>1, <1>2

(* The steps that move no byte towards the clients.                        *)
LEMMA DownQuiet ==
  ASSUME TypeInv, SerialInv, RelayInv,
         \/ Poll \/ SerialWrite \/ Emit \/ Tick \/ (\E c \in Conns : ClientSide(c)) \/ UNCHANGED vars
         \/ \E i \in 1 .. Len(slots) : SigPipe(i) \/ ClientRead(i) \/ (ClientWrite(i) /\ ~IsOpen(slots[i]))
  PROVE  SerialInv' /\ RelayInv'
<1>1. UNCHANGED <<copy, joined, missed, turn, got>>
  <2>1. CASE Poll \/ Emit \/ Tick \/ (\E c \in Conns : ClientSide(c)) \/ UNCHANGED vars
    BY <2>1 DEF Poll, Emit, Tick, ClientSide, Connect, Send, Shut, vars, daemon, ghosts
  <2>2. CASE SerialWrite \/ \E i \in 1 .. Len(slots) : SigPipe(i) \/ ClientRead(i) \/ (ClientWrite(i) /\ ~IsOpen(slots[i]))
    BY <2>2 DEF SerialWrite, SigPipe, ClientRead, ClientWrite, Dispatch, ghosts
  <2> QED BY <2>1, <2>2
<1>2. phase' = "clients" <=> phase = "clients"
  <2>1. CASE Poll \/ Emit \/ Tick \/ (\E c \in Conns : ClientSide(c)) \/ UNCHANGED vars
    BY <2>1 DEF Poll, Emit, Tick, ClientSide, Connect, Send, Shut, vars, daemon, ghosts
  <2>2. CASE SerialWrite \/ \E i \in 1 .. Len(slots) : SigPipe(i) \/ ClientRead(i) \/ (ClientWrite(i) /\ ~IsOpen(slots[i]))
    BY <2>2 DEF SerialWrite, SigPipe, ClientRead, ClientWrite, Dispatch
  <2> QED BY <2>1, <2>2
<1>3. /\ serial \in [state : States, rbuf : Positions, tbuf : Seq(Conns \X Nat)]
      /\ port \in [up : BOOLEAN, emitted : 0 .. MaxEmit, taken : 0 .. MaxEmit, faults : 0 .. MaxFaults]
  BY DEF TypeInv, BuffersOK, WorldOK
<1>4. serial'.rbuf = serial.rbuf
  <2>1. \/ serial' = serial \/ (\E st : serial' = [serial EXCEPT !.state = st])
        \/ \E t : serial' = [serial EXCEPT !.tbuf = t]
    <3>1. CASE Poll \/ Emit \/ Tick \/ (\E c \in Conns : ClientSide(c)) \/ UNCHANGED vars
      BY <3>1 DEF Poll, Reopen, Emit, Tick, ClientSide, Connect, Send, Shut, vars, daemon
    <3>2. CASE SerialWrite \/ \E i \in 1 .. Len(slots) : SigPipe(i) \/ ClientRead(i) \/ (ClientWrite(i) /\ ~IsOpen(slots[i]))
      BY <3>2 DEF SerialWrite, SigPipe, ClientRead, ClientWrite
    <3> QED BY <3>1, <3>2
  <2> QED BY <1>3, <2>1
<1>5. port'.taken = port.taken
  <2>1. \/ port' = port \/ (\E n : port' = [port EXCEPT !.emitted = n])
        \/ \E b : port' = [port EXCEPT !.up = b]
    <3>1. CASE Poll \/ Emit \/ Tick \/ (\E c \in Conns : ClientSide(c)) \/ UNCHANGED vars
      BY <3>1 DEF Poll, Reopen, Emit, Tick, ClientSide, Connect, Send, Shut, vars, world
    <3>2. CASE SerialWrite \/ \E i \in 1 .. Len(slots) : SigPipe(i) \/ ClientRead(i) \/ (ClientWrite(i) /\ ~IsOpen(slots[i]))
      BY <3>2 DEF SerialWrite, SigPipe, ClientRead, ClientWrite, world
    <3> QED BY <3>1, <3>2
  <2> QED BY <1>3, <2>1
<1>6. Len(slots') = Len(slots) /\ \A j \in 1 .. Len(slots) : IsOpen(slots'[j]) =>
           /\ IsOpen(slots[j]) /\ slots'[j].conn = slots[j].conn /\ slots'[j].tbuf = slots[j].tbuf
  <2>1. CASE UNCHANGED slots
    BY <2>1
  <2>2. ASSUME NEW i \in 1 .. Len(slots), ClientRead(i)
        PROVE  Len(slots') = Len(slots) /\ \A j \in 1 .. Len(slots) : IsOpen(slots'[j]) =>
           /\ IsOpen(slots[j]) /\ slots'[j].conn = slots[j].conn /\ slots'[j].tbuf = slots[j].tbuf
    <3>1. PICK n \in Nat, new \in BytesOf(slots[i].conn) :
            ReadSlot(slots[i], new) \in Slot /\ slots' = [slots EXCEPT ![i] = ReadSlot(slots[i], new)]
      BY <2>2, ReadEffect
    <3> DEFINE s == ReadSlot(slots[i], new)
    <3>2. s.state = slots[i].state /\ s.conn = slots[i].conn /\ s.tbuf = slots[i].tbuf
      BY DEF ReadSlot
    <3>3. slots' = [slots EXCEPT ![i] = s] /\ s \in Slot
      BY <3>1
    <3> HIDE DEF s
    <3>4. Len(slots') = Len(slots) /\ slots'[i] = s /\ \A j \in 1 .. Len(slots) : j /= i => slots'[j] = slots[j]
      BY <3>3, PartsOK, ExceptSeq
    <3> QED BY <3>2, <3>4 DEF IsOpen
  <2>3. UNCHANGED slots \/ \E i \in 1 .. Len(slots) : ClientRead(i)
    <3>1. CASE Poll \/ Emit \/ Tick \/ (\E c \in Conns : ClientSide(c)) \/ UNCHANGED vars
      BY <3>1 DEF Poll, Emit, Tick, ClientSide, Connect, Send, Shut, vars, daemon
    <3>2. CASE SerialWrite \/ \E i \in 1 .. Len(slots) : SigPipe(i) \/ ClientRead(i) \/ (ClientWrite(i) /\ ~IsOpen(slots[i]))
      BY <3>2 DEF SerialWrite, SigPipe, ClientWrite
    <3> QED BY <3>1, <3>2
  <2> QED BY <2>1, <2>2, <2>3
<1> QED BY <1>1, <1>2, <1>4, <1>5, <1>6, SerialSame, RelaySame

(* The copy has been taken to every slot.                                  *)
LEMMA DownEnd == ASSUME TypeInv, SerialInv, RelayInv, ProcessEnd PROVE SerialInv' /\ RelayInv'
<1>1. /\ UNCHANGED <<serial, slots, port, joined, got, missed>> /\ copy' = <<>> /\ phase' = "poll"
      /\ phase = "clients" /\ turn > Len(slots)
  BY DEF ProcessEnd, world, ghosts
<1>2. SerialInv'
  <2>1. Below({}, ElementsOf(serial.rbuf))
    BY DEF Below
  <2> QED BY <1>1, <2>1, NoneOK DEF SerialInv
<1>3. \A i \in 1 .. Len(slots) : CopyFor(i) = <<>> /\ CopyFor(i)' = <<>>
  <2>1. turn \in Nat /\ Len(slots) \in Nat
    BY PartsOK DEF TypeInv, ControlOK
  <2> QED BY <1>1, <2>1 DEF CopyFor
<1> QED BY <1>1, <1>2, <1>3 DEF RelayInv

(* A client takes some of what is in its transmit buffer.                  *)
LEMMA DownWrite ==
  ASSUME TypeInv, SerialInv, RelayInv, NEW i \in 1 .. Len(slots), ClientWrite(i), IsOpen(slots[i])
  PROVE  SerialInv' /\ RelayInv'
<1> DEFINE c == slots[i].conn
<1>1. PICK n \in 1 .. Len(slots[i].tbuf) :
         /\ got' = [got EXCEPT ![c] = @ \o First(slots[i].tbuf, n)]
         /\ WroteSlot(slots[i], n) \in Slot /\ slots' = [slots EXCEPT ![i] = WroteSlot(slots[i], n)]
  BY WriteEffect
<1>2. UNCHANGED <<copy, joined, missed, turn, serial, port>>
  BY DEF ClientWrite, Dispatch, world
<1>3. phase' = "clients" <=> phase = "clients"
  BY DEF ClientWrite, Dispatch
<1>4. SerialInv'
  BY <1>2, <1>3, SerialSame
<1> DEFINE s == WroteSlot(slots[i], n)
<1>5. s.state = slots[i].state /\ s.conn = c /\ s.tbuf = Rest(slots[i].tbuf, n)
  BY DEF WroteSlot
<1>6. slots' = [slots EXCEPT ![i] = s] /\ s \in Slot
  BY <1>1
<1> HIDE DEF s
<1>7. Len(slots') = Len(slots) /\ slots'[i] = s /\ \A j \in 1 .. Len(slots) : j /= i => slots'[j] = slots[j]
  BY <1>6, PartsOK, ExceptSeq
<1>8. got \in [Conns -> Positions] /\ c \in Conns
  BY PartsOK DEF TypeInv, GhostsOK
<1>9. got'[c] = got[c] \o First(slots[i].tbuf, n) /\ \A d \in Conns : d /= c => got'[d] = got[d]
  BY <1>1, <1>8
<1>10. \A j \in 1 .. Len(slots) : CopyFor(j)' = CopyFor(j)
  BY <1>2, <1>3 DEF CopyFor
<1>11. ASSUME NEW j \in 1 .. Len(slots'), IsOpen(slots'[j])
       PROVE  Way(got'[slots'[j].conn], slots'[j].tbuf, CopyFor(j)', serial'.rbuf,
                  joined'[slots'[j].conn], port'.taken, missed'[slots'[j].conn])
  <2>1. CASE j = i
    <3> DEFINE t == slots[i].tbuf
    <3>1. Way(got[c], t, CopyFor(i), serial.rbuf, joined[c], port.taken, missed[c])
      BY DEF RelayInv
    <3>2. t \in Positions /\ got[c] \in Positions /\ CopyFor(i) \in Positions /\ serial.rbuf \in Positions /\ n \in Nat
      BY PartsOK
    <3> HIDE DEF c, t
    <3>3. Way(got[c] \o First(t, n), Rest(t, n), CopyFor(i), serial.rbuf, joined[c], port.taken, missed[c])
      BY <3>1, <3>2, WayTaken
    <3> QED BY <1>2, <1>5, <1>7, <1>9, <1>10, <2>1, <3>3 DEF t
  <2>2. CASE j /= i
    <3>1. slots'[j] = slots[j] /\ j \in 1 .. Len(slots)
      BY <1>7, <2>2
    <3>2. slots[j].conn /= c /\ slots[j].conn \in Conns
      BY <2>2, <3>1, PartsOK DEF TypeInv, Apart
    <3>3. Way(got[slots[j].conn], slots[j].tbuf, CopyFor(j), serial.rbuf,
              joined[slots[j].conn], port.taken, missed[slots[j].conn])
      BY <1>11, <3>1 DEF RelayInv
    <3> QED BY <1>2, <1>9, <1>10, <3>1, <3>2, <3>3
  <2> QED BY <2>1, <2>2
<1> QED BY <1>4, <1>11 DEF RelayInv

(* A client leaves: what its transmit buffer held is lost, and was not in  *)
(* the receive buffer.                                                     *)
LEMMA DownLeave ==
  ASSUME TypeInv, SerialInv, RelayInv, NEW i \in 1 .. Len(slots), IsOpen(slots[i]),
         ClientEof(i) \/ ClientWriteFails(i)
  PROVE  SerialInv' /\ RelayInv'
<1> DEFINE c == slots[i].conn
           t == slots[i].tbuf
           r == serial.rbuf
<1>1. /\ LeftSlot(slots[i]) \in Slot /\ slots' = [slots EXCEPT ![i] = LeftSlot(slots[i])]
      /\ missed' = [missed EXCEPT ![c] = @ \cup ElementsOf(t)]
      /\ UNCHANGED <<serial, world, joined, got>>
  BY LeaveEffect
<1>2. UNCHANGED <<copy, turn, port>> /\ (phase' = "clients" <=> phase = "clients")
  BY <1>1 DEF ClientEof, ClientWriteFails, Dispatch, world
<1> DEFINE s == LeftSlot(slots[i])
<1>3. ~IsOpen(s)
  BY DEF LeftSlot, IsOpen
<1>4. slots' = [slots EXCEPT ![i] = s] /\ s \in Slot
  BY <1>1
<1> HIDE DEF s
<1>5. Len(slots') = Len(slots) /\ slots'[i] = s /\ \A j \in 1 .. Len(slots) : j /= i => slots'[j] = slots[j]
  BY <1>4, PartsOK, ExceptSeq
<1>6. missed \in [Conns -> SUBSET (1 .. MaxEmit)] /\ c \in Conns
  BY PartsOK DEF TypeInv, GhostsOK
<1>7. missed'[c] = missed[c] \cup ElementsOf(t) /\ \A d \in Conns : d /= c => missed'[d] = missed[d]
  BY <1>1, <1>6
<1>8. Way(got[c], t, CopyFor(i), r, joined[c], port.taken, missed[c])
  BY DEF RelayInv
<1>9. port.taken \in Nat /\ joined[c] \in Nat /\ t \in Positions /\ r \in Positions
  BY <1>6, PartsOK
<1>10. ElementsOf(t) \subseteq 1 .. port.taken /\ ElementsOf(t) \cap ElementsOf(r) = {}
  <2>1. ElementsOf(t) \subseteq joined[c] + 1 .. port.taken /\ Below(ElementsOf(t), ElementsOf(r))
    BY <1>8 DEF Way
  <2>2. joined[c] + 1 .. port.taken \subseteq 1 .. port.taken
    BY <1>9
  <2>3. ElementsOf(t) \subseteq Nat
    BY <2>1, <2>2
  <2>4. \A x \in Nat : ~(x < x)
    OBVIOUS
  <2> QED BY <2>1, <2>2, <2>3, <2>4 DEF Below
<1>11. SerialInv'
  <2>1. \A d \in Conns : missed'[d] \subseteq 1 .. port.taken /\ joined[d] <= port.taken
    BY <1>7, <1>10 DEF SerialInv
  <2>2. ASSUME r /= <<>>, NEW d \in Conns PROVE ElementsOf(r) = (r[1] .. port.taken) \ missed'[d]
    <3>1. ElementsOf(r) = (r[1] .. port.taken) \ missed[d]
      BY <2>2 DEF SerialInv
    <3> QED BY <1>7, <1>10, <3>1
  <2>3. r = serial.rbuf
    OBVIOUS
  <2> HIDE DEF r
  <2> QED BY <1>1, <1>2, <2>1, <2>2, <2>3 DEF SerialInv
<1>12. ASSUME NEW j \in 1 .. Len(slots'), IsOpen(slots'[j])
       PROVE  Way(got'[slots'[j].conn], slots'[j].tbuf, CopyFor(j)', serial'.rbuf,
                  joined'[slots'[j].conn], port'.taken, missed'[slots'[j].conn])
  <2>1. j /= i
    BY <1>3, <1>5, <1>12
  <2>2. slots'[j] = slots[j] /\ j \in 1 .. Len(slots)
    BY <1>5, <2>1
  <2>3. slots[j].conn /= c /\ slots[j].conn \in Conns
    BY <2>1, <2>2, PartsOK DEF TypeInv, Apart
  <2>4. Way(got[slots[j].conn], slots[j].tbuf, CopyFor(j), serial.rbuf,
            joined[slots[j].conn], port.taken, missed[slots[j].conn])
    BY <1>12, <2>2 DEF RelayInv
  <2>5. CopyFor(j)' = CopyFor(j)
    BY <1>2 DEF CopyFor
  <2> QED BY <1>1, <1>2, <1>7, <2>2, <2>3, <2>4, <2>5
<1> QED BY <1>11, <1>12 DEF RelayInv

(* The serial device is read: its bytes are the next ones.                 *)
LEMMA DownRead == ASSUME TypeInv, SerialInv, RelayInv, SerialRead PROVE SerialInv' /\ RelayInv'
<1> DEFINE r == serial.rbuf
           p == port.taken
           n == Lesser(SerialRoom, port.emitted - p)
           new == Numbers(p, p + n)
           q == r \o new
<1>1. /\ n > 0 /\ serial' = [serial EXCEPT !.rbuf = @ \o new]
      /\ port' = [port EXCEPT !.taken = @ + n]
      /\ UNCHANGED <<slots, joined, got, missed, copy, turn>> /\ phase = "dispatch" /\ phase' /= "clients"
  BY DEF SerialRead, Dispatch, ghosts
<1>2. p \in Nat /\ r \in Positions /\ port.emitted \in Nat /\ port.emitted <= MaxEmit /\ p <= port.emitted
  BY PartsOK
<1>3. n \in Nat /\ p + n <= port.emitted
  <2>1. SerialRoom \in Nat
    <3>1. Len(r) \in Nat
      BY <1>2 DEF Positions
    <3>2. Len(r) <= Cap /\ Cap \in Nat
      BY CapOK DEF TypeInv, BuffersOK
    <3> QED BY <3>1, <3>2 DEF SerialRoom
  <2> HIDE DEF p
  <2> QED BY <1>2, <2>1 DEF Lesser
<1>4. p + n <= MaxEmit /\ MaxEmit \in Nat
  <2> HIDE DEF n, p
  <2> QED BY <1>2, <1>3, CapOK
<1>5. /\ serial \in [state : States, rbuf : Positions, tbuf : Seq(Conns \X Nat)]
      /\ port \in [up : BOOLEAN, emitted : 0 .. MaxEmit, taken : 0 .. MaxEmit, faults : 0 .. MaxFaults]
  BY DEF TypeInv, BuffersOK, WorldOK
<1> HIDE DEF n, q, new
<1>6. serial'.rbuf = q /\ port'.taken = p + n
  BY <1>1, <1>5 DEF q
<1>7. new \in Positions /\ ElementsOf(new) = p + 1 .. p + n /\ Increasing(new)
  <2> HIDE DEF p
  <2> QED BY <1>2, <1>3, <1>4, NumbersWay DEF new
<1>8. ElementsOf(r) \subseteq 1 .. p /\ Increasing(r) /\ copy = <<>>
  BY <1>1 DEF SerialInv
<1>9. Below(ElementsOf(r), ElementsOf(new))
  <2> HIDE DEF r, p
  <2> QED BY <1>2, <1>3, <1>7, <1>8 DEF Below
<1>10. ElementsOf(q) = ElementsOf(r) \cup ElementsOf(new) /\ Increasing(q) /\ q \in Positions
  <2> HIDE DEF r
  <2> QED BY <1>2, <1>7, <1>8, <1>9, StreamOK DEF q
<1>11. \A d \in Conns : missed[d] \subseteq 1 .. p /\ joined[d] <= p /\ joined[d] \in Nat
  BY PartsOK DEF SerialInv
<1>12. SerialInv'
  <2>1. \A d \in Conns : missed'[d] \subseteq 1 .. p + n /\ joined'[d] <= p + n
    <3> HIDE DEF p
    <3> SUFFICES ASSUME NEW d \in Conns PROVE missed[d] \subseteq 1 .. p + n /\ joined[d] <= p + n
      BY <1>1
    <3>1. missed[d] \subseteq 1 .. p /\ joined[d] <= p /\ joined[d] \in Nat
      BY <1>11
    <3>2. 1 .. p \subseteq 1 .. p + n
      BY <1>2, <1>3
    <3>3. joined[d] <= p + n
      BY <1>2, <1>3, <3>1
    <3> QED BY <3>1, <3>2, <3>3
  <2>2. ElementsOf(q) \subseteq 1 .. p + n
    <3> HIDE DEF r, p
    <3> QED BY <1>2, <1>3, <1>7, <1>8, <1>10
  <2>3. ASSUME NEW d \in Conns PROVE ElementsOf(q) = (q[1] .. p + n) \ missed[d]
    <3>1. missed[d] \subseteq 1 .. p
      BY <1>11
    <3> DEFINE S == 1 .. MaxEmit
    <3>2. r \in Seq(S) /\ new \in Seq(S)
      BY <1>2, <1>7 DEF Positions
    <3>3. CASE r = <<>>
      <4>1. q = new
        <5> HIDE DEF r, S
        <5> QED BY <3>2, <3>3 DEF q
      <4>2. q[1] = p + 1
        <5>1. 1 \in 1 .. n
          BY <1>1, <1>3 
        <5>2. \A k \in 1 .. n : new[k] = p + k
          <6> HIDE DEF p
          <6> QED BY <1>2, <1>3, <1>4, NumbersOK DEF new
        <5> QED BY <4>1, <5>1, <5>2
      <4>3. ElementsOf(q) = p + 1 .. p + n
        BY <1>7, <4>1
      <4> HIDE DEF p
      <4> QED BY <1>2, <1>3, <3>1, <4>2, <4>3
    <3>4. CASE r /= <<>>
      <4>1. ElementsOf(r) = (r[1] .. p) \ missed[d]
        BY <3>4 DEF SerialInv
      <4>2. Len(r) \in Nat /\ Len(r) >= 1 /\ 1 \in DOMAIN r
        BY <3>2, <3>4
      <4>3. q[1] = r[1]
        <5>1. 1 \in 1 .. Len(r)
          BY <4>2
        <5> HIDE DEF r, S
        <5> QED BY <3>2, <5>1, ConcatOK DEF q
      <4>4. r[1] \in ElementsOf(r)
        BY <4>2 DEF ElementsOf
      <4> DEFINE a == r[1]
                 L == missed[d]
      <4>5. a \in 1 .. p
        BY <1>8, <4>4
      <4>6. ElementsOf(q) = ((a .. p) \ L) \cup (p + 1 .. p + n) /\ L \subseteq 1 .. p
        BY <1>7, <1>10, <3>1, <4>1
      <4> HIDE DEF p, a, L, r
      <4>7. ElementsOf(q) = (a .. p + n) \ L
        BY <1>2, <1>3, <4>5, <4>6
      <4> QED BY <4>3, <4>7 DEF a, L
    <3> QED BY <3>3, <3>4
  <2> HIDE DEF r, p
  <2>4. /\ ElementsOf(copy) \subseteq 1 .. p + n /\ Below(ElementsOf(copy), ElementsOf(q)) /\ Increasing(copy)
    BY <1>8, NoneOK DEF Below
  <2>5. copy' = copy /\ copy = <<>> /\ \A d \in Conns : missed'[d] = missed[d]
    BY <1>1, <1>8
  <2> QED BY <1>6, <1>10, <2>1, <2>2, <2>3, <2>4, <2>5 DEF SerialInv
<1>13. ASSUME NEW j \in 1 .. Len(slots'), IsOpen(slots'[j])
       PROVE  Way(got'[slots'[j].conn], slots'[j].tbuf, CopyFor(j)', serial'.rbuf,
                  joined'[slots'[j].conn], port'.taken, missed'[slots'[j].conn])
  <2> DEFINE c == slots[j].conn
             t == slots[j].tbuf
             g == got[c]
             from == joined[c]
             lost == missed[c]
             k == CopyFor(j)
  <2>1. j \in 1 .. Len(slots) /\ slots' = slots
    BY <1>1
  <2>2. Way(g, t, k, r, from, p, lost)
    BY <1>13, <2>1 DEF RelayInv
  <2>3. t \in Positions /\ g \in Positions /\ k \in Positions /\ c \in Conns
    BY <2>1, PartsOK
  <2>4. from \in Nat /\ from <= p /\ lost \in SUBSET (1 .. p)
    BY <1>11, <2>3
  <2>5. k' = k
    BY <1>1 DEF CopyFor
  <2>6. g' = g /\ t' = t /\ from' = from /\ lost' = lost
    BY <1>1
  <2> HIDE DEF c, t, g, from, lost, k, p, r
  <2>7. Way(g, t, k, q, from, p + n, lost)
    BY <1>2, <1>3, <1>4, <2>2, <2>3, <2>4, WayRead DEF q, new
  <2> QED BY <1>6, <2>5, <2>6, <2>7 DEF c, t, g, from, lost, k
<1> QED BY <1>12, <1>13 DEF RelayInv

(* The tty has gone: what was read of it and not copied is lost to all.    *)
LEMMA DownEof == ASSUME TypeInv, SerialInv, RelayInv, SerialEof PROVE SerialInv' /\ RelayInv'
<1> DEFINE r == serial.rbuf
           p == port.taken
<1>1. /\ serial'.rbuf = <<>> /\ missed' = [c \in Conns |-> missed[c] \cup ElementsOf(r)]
      /\ UNCHANGED <<slots, port, joined, got, copy, turn>> /\ phase = "dispatch" /\ phase' /= "clients"
  BY DEF SerialEof, Dispatch, world
<1>2. \A c \in Conns : missed'[c] = missed[c] \cup ElementsOf(r)
  BY <1>1
<1>3. SerialInv'
  <2>1. \A d \in Conns : missed'[d] \subseteq 1 .. p /\ joined[d] <= p
    BY <1>2 DEF SerialInv
  <2>2. copy = <<>> /\ Increasing(copy) /\ ElementsOf(copy) \subseteq 1 .. p
    BY <1>1 DEF SerialInv
  <2>3. ElementsOf(<<>>) \subseteq 1 .. p /\ Increasing(<<>>) /\ Below(ElementsOf(copy), ElementsOf(<<>>))
    BY NoneOK DEF Below
  <2> HIDE DEF r
  <2> QED BY <1>1, <2>1, <2>2, <2>3 DEF SerialInv
<1>4. ASSUME NEW j \in 1 .. Len(slots'), IsOpen(slots'[j])
      PROVE  Way(got'[slots'[j].conn], slots'[j].tbuf, CopyFor(j)', serial'.rbuf,
                  joined'[slots'[j].conn], port'.taken, missed'[slots'[j].conn])
  <2> DEFINE c == slots[j].conn
             t == slots[j].tbuf
             g == got[c]
             from == joined[c]
             lost == missed[c]
             k == CopyFor(j)
  <2>1. j \in 1 .. Len(slots) /\ slots' = slots
    BY <1>1
  <2>2. Way(g, t, k, r, from, p, lost)
    BY <1>4, <2>1 DEF RelayInv
  <2>3. t \in Positions /\ g \in Positions /\ k \in Positions /\ c \in Conns
    BY <2>1, PartsOK
  <2>4. ElementsOf(g) \subseteq Nat /\ ElementsOf(t) \subseteq Nat /\ ElementsOf(k) \subseteq Nat
    <3>1. \A s \in Positions : ElementsOf(s) \subseteq 1 .. MaxEmit
      BY ElementsOK DEF Positions
    <3>2. 1 .. MaxEmit \subseteq Nat
      OBVIOUS
    <3> HIDE DEF g, t, k
    <3> QED BY <2>3, <3>1, <3>2
  <2>5. k' = k
    BY <1>1 DEF CopyFor
  <2>6. missed'[c] = lost \cup ElementsOf(r) /\ g' = g /\ t' = t /\ from' = from
    BY <1>1, <1>2, <2>3
  <2> HIDE DEF t, g, from, lost, k, p, r
  <2>7. Way(g, t, k, <<>>, from, p, lost \cup ElementsOf(r))
    BY <2>2, <2>4, WayFlushed
  <2> QED BY <1>1, <2>5, <2>6, <2>7 DEF t, g, from, k, p
<1> QED BY <1>3, <1>4 DEF RelayInv

(* A client that is accepted is sent what the receive buffer holds.        *)
LEMMA DownAccept == ASSUME TypeInv, SerialInv, RelayInv, Accept PROVE SerialInv' /\ RelayInv'
<1> DEFINE c == Head(backlog)
           r == serial.rbuf
           p == port.taken
           from == IF r = <<>> THEN p ELSE Head(r) - 1
<1>1. backlog /= <<>>
  BY DEF TypeInv, Awaited, Accept, Dispatch
<1>2. PICK i \in 1 .. Len(slots) + 1 :
           /\ c \in Conns
           /\ i \in 1 .. Len(slots') /\ slots'[i] = Fresh(c)
           /\ \A j \in 1 .. Len(slots') : j /= i => j \in 1 .. Len(slots) /\ slots'[j] = slots[j]
  BY <1>1, AcceptSlots
<1>3. /\ joined' = [joined EXCEPT ![c] = from]
      /\ UNCHANGED <<serial, port, got, missed, copy, turn>> /\ phase = "dispatch" /\ phase' /= "clients"
  BY DEF Accept, Dispatch
<1>4. joined \in [Conns -> 0 .. MaxEmit] /\ backlog \in Seq(Conns)
  BY DEF TypeInv, GhostsOK, WorldOK
<1>5. c = backlog[1] /\ 1 \in 1 .. Len(backlog) /\ c \in ElementsOf(backlog)
  BY <1>1, <1>4 DEF ElementsOf
<1>6. joined'[c] = from /\ \A d \in Conns : d /= c => joined'[d] = joined[d]
  BY <1>2, <1>3, <1>4
<1>7. p \in Nat /\ r \in Positions
  BY PartsOK
<1>8. \A j \in 1 .. Len(slots) : slots[j].conn /= c
  BY <1>5 DEF TypeInv, Apart
<1>9. got[c] = <<>>
  <2>1. DOMAIN slots = 1 .. Len(slots)
    BY PartsOK
  <2>2. c \in Conns \ SlotConns
    BY <1>2, <1>8, <2>1 DEF SlotConns
  <2> QED BY <1>5, <2>2 DEF TypeInv, Apart
<1>10. /\ Increasing(r) /\ ElementsOf(r) \subseteq 1 .. p /\ missed[c] \subseteq 1 .. p /\ copy = <<>>
       /\ r /= <<>> => ElementsOf(r) = (r[1] .. p) \ missed[c]
  BY <1>2, <1>3 DEF SerialInv
<1>11. from <= p /\ ElementsOf(r) = (from + 1 .. p) \ missed[c]
  <2>1. CASE r = <<>>
    <3>1. from = p /\ ElementsOf(r) = {}
      BY <2>1, NoneOK
    <3>2. p + 1 .. p = {}
      <4> HIDE DEF p
      <4> QED BY <1>7
    <3> QED BY <1>7, <3>1, <3>2
  <2>2. CASE r /= <<>>
    <3>1. r[1] \in ElementsOf(r) /\ Head(r) = r[1]
      BY <1>7, <2>2 DEF ElementsOf, Positions
    <3>2. from = r[1] - 1 /\ r[1] \in 1 .. p
      BY <1>10, <2>2, <3>1
    <3> DEFINE a == r[1]
    <3> HIDE DEF a, from, p
    <3>3. from = a - 1 /\ a \in 1 .. p
      BY <3>2 DEF a
    <3>4. from <= p /\ from + 1 = a
      BY <1>7, <3>3
    <3> QED BY <1>10, <2>2, <3>4 DEF a
  <2> QED BY <2>1, <2>2
<1> HIDE DEF c, from
<1>12. SerialInv'
  <2>1. \A d \in Conns : joined'[d] <= p
    BY <1>6, <1>11 DEF SerialInv
  <2> HIDE DEF r
  <2>2. /\ phase /= "clients" => copy = <<>>
        /\ Increasing(copy) /\ Increasing(serial.rbuf)
        /\ Below(ElementsOf(copy), ElementsOf(serial.rbuf))
        /\ ElementsOf(copy) \subseteq 1 .. port.taken /\ ElementsOf(serial.rbuf) \subseteq 1 .. port.taken
        /\ \A d \in Conns : missed[d] \subseteq 1 .. port.taken
        /\ serial.rbuf /= <<>> => \A d \in Conns :
             ElementsOf(serial.rbuf) = (serial.rbuf[1] .. port.taken) \ missed[d]
    BY DEF SerialInv
  <2> QED BY <1>3, <2>1, <2>2 DEF SerialInv
<1>13. ASSUME NEW j \in 1 .. Len(slots'), IsOpen(slots'[j])
       PROVE  Way(got'[slots'[j].conn], slots'[j].tbuf, CopyFor(j)', serial'.rbuf,
                  joined'[slots'[j].conn], port'.taken, missed'[slots'[j].conn])
  <2>1. CopyFor(j)' = <<>> /\ CopyFor(j) = <<>>
    BY <1>3 DEF CopyFor
  <2>2. CASE j = i
    <3>1. slots'[j].conn = c /\ slots'[j].tbuf = <<>>
      BY <1>2, <2>2 DEF Fresh
    <3>2. Way(<<>>, <<>>, <<>>, r, from, p, missed[c])
      <4> HIDE DEF r, p
      <4>1. /\ Below({}, {}) /\ Below({}, ElementsOf(r)) 
        BY DEF Below
      <4>2. {} \cup {} \cup {} \cup ElementsOf(r) = (from + 1 .. p) \ missed[c]
        BY <1>11
      <4> QED BY <1>10, <4>1, <4>2, NoneOK DEF Way
    <3> QED BY <1>3, <1>6, <1>9, <2>1, <3>1, <3>2
  <2>3. CASE j /= i
    <3>1. slots'[j] = slots[j] /\ j \in 1 .. Len(slots)
      BY <1>2, <2>3
    <3>2. slots[j].conn /= c /\ slots[j].conn \in Conns
      BY <1>8, <3>1, PartsOK
    <3>3. Way(got[slots[j].conn], slots[j].tbuf, CopyFor(j), serial.rbuf,
              joined[slots[j].conn], port.taken, missed[slots[j].conn])
      BY <1>13, <3>1 DEF RelayInv
    <3> QED BY <1>3, <1>6, <2>1, <3>1, <3>2, <3>3
  <2> QED BY <2>2, <2>3
<1> QED BY <1>12, <1>13 DEF RelayInv

(* The tty goes away: what it had not delivered is lost to all.            *)
LEMMA DownUnplug == ASSUME TypeInv, SerialInv, RelayInv, Unplug PROVE SerialInv' /\ RelayInv'
<1> DEFINE p == port.taken
           e == port.emitted
<1>1. /\ port' = [port EXCEPT !.up = FALSE, !.faults = @ + 1, !.taken = port.emitted]
      /\ missed' = [c \in Conns |-> missed[c] \cup (p + 1 .. e)]
      /\ UNCHANGED <<phase, turn, serial, slots, copy, joined, got>>
  BY DEF Unplug, daemon
<1>2. p \in Nat /\ e \in Nat /\ p <= e
  BY PartsOK
<1>3. port \in [up : BOOLEAN, emitted : 0 .. MaxEmit, taken : 0 .. MaxEmit, faults : 0 .. MaxFaults]
  BY DEF TypeInv, WorldOK
<1>4. port'.taken = e
  BY <1>1, <1>3
<1>5. \A c \in Conns : missed'[c] = missed[c] \cup (p + 1 .. e)
  BY <1>1
<1>6. \A c \in Conns : missed[c] \subseteq 1 .. p /\ joined[c] <= p /\ joined[c] \in Nat
  BY PartsOK DEF SerialInv
<1> DEFINE r == serial.rbuf
<1>7. SerialInv'
  <2>1. \A d \in Conns : missed'[d] \subseteq 1 .. e /\ joined[d] <= e
    <3> HIDE DEF p, e
    <3> SUFFICES ASSUME NEW d \in Conns PROVE missed'[d] \subseteq 1 .. e /\ joined[d] <= e
      OBVIOUS
    <3>1. missed[d] \subseteq 1 .. p /\ joined[d] <= p /\ joined[d] \in Nat
      BY <1>6
    <3>2. 1 .. p \subseteq 1 .. e /\ p + 1 .. e \subseteq 1 .. e
      BY <1>2
    <3>3. joined[d] <= e
      BY <1>2, <3>1
    <3> QED BY <1>5, <3>1, <3>2, <3>3
  <2>2. ElementsOf(copy) \subseteq 1 .. e /\ ElementsOf(r) \subseteq 1 .. e
    <3>1. ElementsOf(copy) \subseteq 1 .. p /\ ElementsOf(r) \subseteq 1 .. p
      BY DEF SerialInv
    <3> HIDE DEF p, e, r
    <3> QED BY <1>2, <3>1
  <2>3. ASSUME r /= <<>>, NEW d \in Conns PROVE ElementsOf(r) = (r[1] .. e) \ missed'[d]
    <3>1. ElementsOf(r) = (r[1] .. p) \ missed[d] /\ ElementsOf(r) \subseteq 1 .. p
      BY <2>3 DEF SerialInv
    <3>2. r \in Positions
      BY PartsOK
    <3>3. r[1] \in ElementsOf(r)
      BY <2>3, <3>2 DEF ElementsOf, Positions
    <3> DEFINE a == r[1]
               L == missed[d]
    <3>4. a \in 1 .. p
      BY <3>1, <3>3
    <3>5. missed'[d] = L \cup (p + 1 .. e)
      BY <1>5
    <3> HIDE DEF a, L, p, e
    <3>6. (a .. p) \ L = (a .. e) \ (L \cup (p + 1 .. e))
      BY <1>2, <3>4
    <3> QED BY <3>1, <3>5, <3>6 DEF a, L
  <2>4. /\ phase /= "clients" => copy = <<>>
        /\ Increasing(copy) /\ Increasing(serial.rbuf)
        /\ Below(ElementsOf(copy), ElementsOf(serial.rbuf))
    BY DEF SerialInv
  <2>5. r = serial.rbuf
    OBVIOUS
  <2> HIDE DEF r, e
  <2> QED BY <1>1, <1>4, <2>1, <2>2, <2>3, <2>4, <2>5 DEF SerialInv
<1>8. ASSUME NEW j \in 1 .. Len(slots'), IsOpen(slots'[j])
      PROVE  Way(got'[slots'[j].conn], slots'[j].tbuf, CopyFor(j)', serial'.rbuf,
                 joined'[slots'[j].conn], port'.taken, missed'[slots'[j].conn])
  <2> DEFINE c == slots[j].conn
             t == slots[j].tbuf
             g == got[c]
             from == joined[c]
             lost == missed[c]
             k == CopyFor(j)
  <2>1. j \in 1 .. Len(slots) /\ slots' = slots
    BY <1>1
  <2>2. Way(g, t, k, r, from, p, lost)
    BY <1>8, <2>1 DEF RelayInv
  <2>3. c \in Conns
    BY <2>1, PartsOK
  <2>4. from \in Nat /\ from <= p
    BY <1>6, <2>3
  <2>5. k' = k
    BY <1>1 DEF CopyFor
  <2>6. missed'[c] = lost \cup (p + 1 .. e) /\ g' = g /\ t' = t /\ from' = from /\ serial'.rbuf = r
    BY <1>1, <1>5, <2>3
  <2> HIDE DEF t, g, from, lost, k, p, r, e
  <2>7. Way(g, t, k, r, from, e, lost \cup (p + 1 .. e))
    BY <1>2, <2>2, <2>4, WayUnplugged
  <2> QED BY <1>1, <1>4, <2>5, <2>6, <2>7 DEF t, g, from, k
<1> QED BY <1>7, <1>8 DEF RelayInv

(* The first of an increasing sequence is its least.                       *)
LEMMA FirstLeast ==
  ASSUME NEW s \in Positions, Increasing(s), s /= <<>>
  PROVE  s[1] \in ElementsOf(s) /\ \A x \in ElementsOf(s) : s[1] <= x
<1>1. DOMAIN s = 1 .. Len(s) /\ Len(s) \in Nat /\ Len(s) >= 1
  BY DEF Positions
<1>2. \A j \in 1 .. Len(s) : s[j] \in 1 .. MaxEmit
  <2> DEFINE S == 1 .. MaxEmit
  <2>1. s \in Seq(S)
    BY DEF Positions
  <2> HIDE DEF S
  <2>2. \A j \in 1 .. Len(s) : s[j] \in S
    BY <2>1, ElementOfSeq
  <2> QED BY <2>2 DEF S
<1>3. ASSUME NEW x \in ElementsOf(s) PROVE s[1] <= x
  <2>1. PICK j \in 1 .. Len(s) : x = s[j]
    BY <1>1 DEF ElementsOf
  <2>2. CASE j = 1
    BY <1>1, <1>2, <2>1, <2>2
  <2>3. CASE j > 1
    <3>1. s[1] < s[j]
      BY <1>1, <2>3 DEF Increasing
    <3>2. s[1] \in Nat /\ s[j] \in Nat
      BY <1>1, <1>2
    <3> QED BY <2>1, <3>1, <3>2
  <2> QED BY <2>2, <2>3
<1> QED BY <1>1, <1>3 DEF ElementsOf

(* hdmi2usb_process moves the serial data to the copy.                     *)
LEMMA DownCopy == ASSUME TypeInv, SerialInv, RelayInv, ProcessSerial PROVE SerialInv' /\ RelayInv'
<1> DEFINE r == serial.rbuf
           p == port.taken
           n == IF IsOpen(serial) THEN Fitting(copy, CopyCap, r) ELSE 0
           a == First(r, n)
           b == Rest(r, n)
<1>1. phase = "process" /\ UNCHANGED <<slots, port, joined, got, missed>>
  BY DEF ProcessSerial, world, ghosts
<1>2. CASE serial.state = "inactive"
  <2>1. phase' = "exit" /\ UNCHANGED <<serial, copy, turn>>
    BY <1>2 DEF ProcessSerial
  <2> QED BY <1>1, <2>1, SerialSame, RelaySame
<1>3. CASE serial.state /= "inactive"
  <2>1. /\ copy' = copy \o a /\ serial' = [serial EXCEPT !.rbuf = Rest(@, n)]
        /\ turn' = 1 /\ phase' = "clients"
    BY <1>3 DEF ProcessSerial
  <2>2. /\ copy = <<>> /\ Increasing(r) /\ ElementsOf(r) \subseteq 1 .. p
        /\ \A d \in Conns : missed[d] \subseteq 1 .. p /\ joined[d] <= p
        /\ r /= <<>> => \A d \in Conns : ElementsOf(r) = (r[1] .. p) \ missed[d]
    BY <1>1 DEF SerialInv
  <2>3. r \in Positions /\ copy \in Positions /\ p \in Nat
    BY PartsOK
  <2>4. n \in Nat
    <3> DEFINE S == 1 .. MaxEmit
    <3>1. copy \in Seq(S) /\ r \in Seq(S) /\ CopyCap \in Nat /\ Len(copy) <= CopyCap
      BY <2>3, CapOK DEF Positions, TypeInv, BuffersOK
    <3> HIDE DEF S, r
    <3>2. Fitting(copy, CopyCap, r) \in Nat
      BY <3>1, AddedOK
    <3> QED BY <3>2
  <2>5. serial \in [state : States, rbuf : Positions, tbuf : Seq(Conns \X Nat)]
    BY DEF TypeInv, BuffersOK
  <2> HIDE DEF n
  <2>6. serial'.rbuf = b
    BY <2>1, <2>5
  <2>7. /\ a \in Positions /\ b \in Positions /\ ElementsOf(r) = ElementsOf(a) \cup ElementsOf(b)
        /\ Increasing(a) /\ Increasing(b) /\ Below(ElementsOf(a), ElementsOf(b))
    <3> HIDE DEF r
    <3> QED BY <2>2, <2>3, <2>4, SplitOK
  <2> HIDE DEF a, b
  <2>8. copy' = a
    <3>1. <<>> \o a = a
      BY <2>7 DEF Positions
    <3> QED BY <2>1, <2>2, <3>1
  <2>9. SerialInv'
    <3>1. ASSUME b /= <<>>, NEW d \in Conns PROVE ElementsOf(b) = (b[1] .. p) \ missed[d]
      <4>1. r /= <<>>
        <5>1. b[1] \in ElementsOf(b)
          BY <2>7, <3>1, FirstLeast
        <5> HIDE DEF r
        <5> QED BY <2>7, <5>1, NoneOK
      <4> DEFINE x == r[1]
                 y == b[1]
                 L == missed[d]
      <4>2. ElementsOf(r) = (x .. p) \ L
        BY <2>2, <4>1
      <4>3. x \in ElementsOf(r) /\ y \in ElementsOf(b) /\ (\A z \in ElementsOf(b) : y <= z)
        BY <2>2, <2>3, <2>7, <3>1, <4>1, FirstLeast
      <4>4. x \in 1 .. p /\ y \in 1 .. p
        BY <2>2, <2>7, <4>3
      <4> HIDE DEF x, y, L, r, p
      <4>5. x <= y
        BY <2>3, <2>7, <4>2, <4>3, <4>4
      <4>6. \A z \in ElementsOf(b) : z \in (y .. p) \ L
        BY <2>3, <2>7, <4>2, <4>3, <4>4
      <4>7. ASSUME NEW z \in (y .. p) \ L PROVE z \in ElementsOf(b)
        <5>1. z \in ElementsOf(r)
          BY <2>3, <4>2, <4>4, <4>5
        <5>2. z \notin ElementsOf(a)
          <6>1. ~(z < y)
            BY <2>3, <4>4
          <6> QED BY <2>7, <4>3, <6>1 DEF Below
        <5> QED BY <2>7, <5>1, <5>2
      <4> QED BY <4>6, <4>7 DEF y, L
    <3>2. ElementsOf(a) \subseteq 1 .. p /\ ElementsOf(b) \subseteq 1 .. p
      BY <2>2, <2>7
    <3> QED BY <1>1, <2>1, <2>2, <2>6, <2>7, <2>8, <3>1, <3>2 DEF SerialInv
  <2>10. ASSUME NEW j \in 1 .. Len(slots'), IsOpen(slots'[j])
         PROVE  Way(got'[slots'[j].conn], slots'[j].tbuf, CopyFor(j)', serial'.rbuf,
                   joined'[slots'[j].conn], port'.taken, missed'[slots'[j].conn])
    <3> DEFINE c == slots[j].conn
               t == slots[j].tbuf
               g == got[c]
               from == joined[c]
               lost == missed[c]
    <3>1. j \in 1 .. Len(slots) /\ slots' = slots
      BY <1>1
    <3>2. CopyFor(j) = <<>> /\ CopyFor(j)' = a
      <4>1. j >= 1
        BY <3>1
      <4> QED BY <1>1, <2>1, <2>8, <4>1 DEF CopyFor
    <3>3. Way(g, t, <<>>, r, from, p, lost)
      <4>1. Way(g, t, CopyFor(j), r, from, p, lost)
        BY <2>10, <3>1 DEF RelayInv
      <4> QED BY <3>2, <4>1
    <3>4. g' = g /\ t' = t /\ from' = from /\ lost' = lost /\ p' = p
      BY <1>1
    <3> HIDE DEF t, g, from, lost, p, r
    <3>5. Way(g, t, a, b, from, p, lost)
      BY <2>3, <2>4, <3>3, WayCopied DEF a, b
    <3> QED BY <2>6, <3>2, <3>4, <3>5 DEF t, g, from, lost, p
  <2> QED BY <2>9, <2>10 DEF RelayInv
<1> QED BY <1>2, <1>3

(* hdmi2usb_process puts the copy in the transmit buffer of a slot.        *)
LEMMA DownServe == ASSUME TypeInv, SerialInv, RelayInv, ProcessClient PROVE SerialInv' /\ RelayInv'
<1> DEFINE s   == slots[turn]
           c   == s.conn
           end == CommandEnd(Buffered(s))
           n   == Fitting(s.tbuf, Cap, copy)
           a   == First(copy, n)
           b   == Rest(copy, n)
           z   == ServedSlot(s, end)
           r   == serial.rbuf
           p   == port.taken
<1>1. /\ turn \in 1 .. Len(slots) /\ s \in Slot /\ z \in Slot
      /\ slots' = [slots EXCEPT ![turn] = z]
      /\ serial' = [serial EXCEPT !.tbuf = @ \o First(First(Buffered(s), end), Queued(First(Buffered(s), end)))]
      /\ missed' = [missed EXCEPT ![c] = @ \cup ElementsOf(b)]
      /\ turn' = turn + 1
  BY ServeEffect
<1>2. UNCHANGED <<phase, copy, port, joined, got>> /\ phase = "clients"
  BY DEF ProcessClient, world
<1>3. z.conn = c /\ z.state = s.state /\ z.tbuf = Added(s.tbuf, Cap, copy)
  BY DEF ServedSlot
<1>4. /\ s.tbuf \in Positions /\ Len(s.tbuf) <= Cap /\ copy \in Positions /\ c \in Conns
      /\ r \in Positions /\ p \in Nat /\ got[c] \in Positions /\ turn \in Nat
  BY <1>1, SlotOK, PartsOK
<1>5. n \in Nat /\ z.tbuf = s.tbuf \o a
  <2> DEFINE S == 1 .. MaxEmit
             t == s.tbuf
  <2>1. t \in Seq(S) /\ copy \in Seq(S) /\ Cap \in Nat /\ Len(t) <= Cap
    BY <1>4, CapOK DEF Positions
  <2>2. z.tbuf = Added(t, Cap, copy)
    BY <1>3
  <2> HIDE DEF S, t, z
  <2>3. Fitting(t, Cap, copy) \in Nat /\ Added(t, Cap, copy) = t \o First(copy, Fitting(t, Cap, copy))
    BY <2>1, AddedOK
  <2> QED BY <2>2, <2>3 DEF t
<1>6. serial'.rbuf = r
  <2>1. serial \in [state : States, rbuf : Positions, tbuf : Seq(Conns \X Nat)]
    BY DEF TypeInv, BuffersOK
  <2> QED BY <1>1, <2>1
<1>7. missed \in [Conns -> SUBSET (1 .. MaxEmit)]
  BY DEF TypeInv, GhostsOK
<1> HIDE DEF n, z
<1>8. missed'[c] = missed[c] \cup ElementsOf(b) /\ \A d \in Conns : d /= c => missed'[d] = missed[d]
  BY <1>1, <1>4, <1>7
<1>9. ElementsOf(copy) = ElementsOf(a) \cup ElementsOf(b)
  BY <1>4, <1>5, SplitOK
<1>10. ElementsOf(b) \subseteq 1 .. p /\ ElementsOf(b) \cap ElementsOf(r) = {}
  <2>1. ElementsOf(copy) \subseteq 1 .. p /\ Below(ElementsOf(copy), ElementsOf(r))
    BY DEF SerialInv
  <2>2. ElementsOf(b) \subseteq Nat
    <3> HIDE DEF b, p
    <3> QED BY <1>9, <2>1
  <2>3. \A x \in Nat : ~(x < x)
    OBVIOUS
  <2> HIDE DEF a, b
  <2> QED BY <1>9, <2>1, <2>2, <2>3 DEF Below
<1> HIDE DEF a, b
<1>11. SerialInv'
  <2>1. \A d \in Conns : missed'[d] \subseteq 1 .. p /\ joined[d] <= p
    BY <1>8, <1>10 DEF SerialInv
  <2>2. ASSUME r /= <<>>, NEW d \in Conns PROVE ElementsOf(r) = (r[1] .. p) \ missed'[d]
    <3>1. ElementsOf(r) = (r[1] .. p) \ missed[d]
      BY <2>2 DEF SerialInv
    <3> QED BY <1>8, <1>10, <3>1
  <2>3. r = serial.rbuf
    OBVIOUS
  <2> HIDE DEF r
  <2> QED BY <1>2, <1>6, <2>1, <2>2, <2>3 DEF SerialInv
<1>12. Len(slots') = Len(slots) /\ slots'[turn] = z /\ \A j \in 1 .. Len(slots) : j /= turn => slots'[j] = slots[j]
  BY <1>1, PartsOK, ExceptSeq DEF z
<1>13. ASSUME NEW j \in 1 .. Len(slots'), IsOpen(slots'[j])
       PROVE  Way(got'[slots'[j].conn], slots'[j].tbuf, CopyFor(j)', serial'.rbuf,
                  joined'[slots'[j].conn], port'.taken, missed'[slots'[j].conn])
  <2>1. CASE j = turn
    <3> DEFINE t == s.tbuf
               g == got[c]
               from == joined[c]
               lost == missed[c]
    <3>1. IsOpen(s)
      BY <1>3, <1>12, <1>13, <2>1 DEF IsOpen
    <3>2. CopyFor(j) = copy
      BY <1>2, <1>4, <2>1 DEF CopyFor
    <3>3. CopyFor(j)' = <<>>
      BY <1>1, <1>2, <1>4, <2>1 DEF CopyFor
    <3>4. Way(g, t, copy, r, from, p, lost)
      <4>1. Way(g, t, CopyFor(turn), r, from, p, lost)
        BY <1>1, <3>1 DEF RelayInv
      <4> QED BY <2>1, <3>2, <4>1
    <3>5. t \in Positions /\ g \in Positions
      BY <1>4
    <3>6. got'[c] = g /\ joined'[c] = from /\ p' = p /\ slots'[j].conn = c /\ slots'[j].tbuf = t \o a
          /\ missed'[c] = lost \cup ElementsOf(b)
      BY <1>2, <1>3, <1>5, <1>8, <1>12, <2>1
    <3> HIDE DEF t, g, from, lost, p, r
    <3>7. Way(g, t \o a, <<>>, r, from, p, lost \cup ElementsOf(b))
      BY <1>4, <1>5, <3>4, <3>5, WayServed DEF a, b
    <3> QED BY <1>6, <3>3, <3>6, <3>7 DEF p
  <2>2. CASE j /= turn
    <3>1. slots'[j] = slots[j] /\ j \in 1 .. Len(slots)
      BY <1>12, <2>2
    <3>2. slots[j].conn /= c /\ slots[j].conn \in Conns
      BY <1>1, <2>2, <3>1, PartsOK DEF TypeInv, Apart
    <3>3. CopyFor(j)' = CopyFor(j)
      <4>1. j >= turn + 1 <=> j >= turn
        BY <1>4, <2>2, <3>1, PartsOK
      <4> QED BY <1>1, <1>2, <4>1 DEF CopyFor
    <3>4. Way(got[slots[j].conn], slots[j].tbuf, CopyFor(j), serial.rbuf,
              joined[slots[j].conn], port.taken, missed[slots[j].conn])
      BY <1>13, <3>1 DEF RelayInv
    <3> QED BY <1>2, <1>6, <1>8, <3>1, <3>2, <3>3, <3>4
  <2> QED BY <2>1, <2>2
<1> QED BY <1>11, <1>13 DEF RelayInv

(* A step keeps, for each client, what it got and what is on its way to it *)
(* in order.                                                               *)
LEMMA DownNext ==
  ASSUME TypeInv, ReadersOpen, SerialInv, RelayInv, [Next]_vars
  PROVE  SerialInv' /\ RelayInv'
<1>1. ASSUME NEW i \in 1 .. Len(slots), Handler(i) PROVE SerialInv' /\ RelayInv'
  <2>1. CASE ClientEof(i) \/ ClientWriteFails(i)
    <3>1. IsOpen(slots[i])
      BY <2>1 DEF ClientEof, ClientWriteFails, Dispatch, ReadersOpen
    <3> QED BY <2>1, <3>1, DownLeave
  <2>2. CASE ClientRead(i) \/ SigPipe(i) \/ ClientWrite(i)
    BY <2>2, DownQuiet, DownWrite
  <2> QED BY <1>1, <2>1, <2>2 DEF Handler
<1>2. CASE Next
  <2>1. \/ Poll \/ SerialRead \/ SerialEof \/ SerialWrite \/ Accept
        \/ \E i \in 1 .. Len(slots) : Handler(i)
        \/ ProcessSerial \/ ProcessClient \/ ProcessEnd
        \/ Emit \/ Unplug \/ Tick \/ \E c \in Conns : ClientSide(c)
    BY <1>2, NextCases
  <2> QED BY <1>1, <2>1, DownQuiet, DownRead, DownEof, DownAccept, DownUnplug, DownCopy, DownServe, DownEnd
<1>3. CASE UNCHANGED vars
  BY <1>3, DownQuiet
<1> QED BY <1>2, <1>3

(* At the start nothing is on its way.                                     *)
LEMMA DownInit == ASSUME Init PROVE SerialInv /\ RelayInv
<1>1. /\ copy = <<>> /\ serial.rbuf = <<>> /\ slots = <<>> /\ port.taken = 0 /\ phase = "poll"
      /\ missed = [c \in Conns |-> {}] /\ joined = [c \in Conns |-> 0]
  BY DEF Init
<1>2. Below({}, {})
  BY DEF Below
<1>3. \A c \in Conns : missed[c] = {} /\ joined[c] = 0
  BY <1>1
<1>4. ElementsOf(copy) = {} /\ ElementsOf(serial.rbuf) = {} /\ Increasing(copy) /\ Increasing(serial.rbuf)
  BY <1>1, NoneOK
<1>5. \A c \in Conns : missed[c] \subseteq 1 .. port.taken /\ joined[c] <= port.taken
  BY <1>1, <1>3
<1>6. SerialInv
  BY <1>1, <1>2, <1>4, <1>5 DEF SerialInv
<1>7. 1 .. Len(slots) = {}
  BY <1>1
<1>8. RelayInv
  BY <1>7 DEF RelayInv
<1> QED BY <1>6, <1>8

(* An open client is sent what the serial device sent since it was         *)
(* accepted, in order and without repetition, and nothing is missing but   *)
(* what was lost.                                                          *)
THEOREM RelayCorrect == Spec => []RelayExact
<1> DEFINE Inv == TypeInv /\ ReadersOpen /\ SerialInv /\ RelayInv
<1>1. Init => Inv
  BY TypeInit, UpInit, DownInit
<1>2. Inv /\ [Next]_vars => Inv'
  BY TypeNext, ReadersNext, DownNext
<1>3. ASSUME Inv PROVE RelayExact
  <2> SUFFICES ASSUME NEW i \in 1 .. Len(slots), IsOpen(slots[i])
               PROVE  /\ Increasing(Downlink(i))
                      /\ ElementsOf(Downlink(i)) =
                           (joined[slots[i].conn] + 1 .. port.taken) \ missed[slots[i].conn]
    BY <1>3, PartsOK DEF RelayExact
  <2> DEFINE g == got[slots[i].conn]
             t == slots[i].tbuf
             k == CopyFor(i)
             r == serial.rbuf
             from == joined[slots[i].conn]
             lost == missed[slots[i].conn]
  <2>1. Way(g, t, k, r, from, port.taken, lost)
    BY <1>3 DEF RelayInv
  <2>2. g \in Positions /\ t \in Positions /\ k \in Positions /\ r \in Positions
    BY <1>3, PartsOK
  <2>3. Downlink(i) = g \o t \o k \o r
    BY DEF Downlink, CopyFor
  <2> HIDE DEF g, t, k, r, from, lost
  <2>4. /\ Increasing(g \o t \o k \o r)
        /\ ElementsOf(g \o t \o k \o r) = (from + 1 .. port.taken) \ lost
    BY <2>1, <2>2, WayOK
  <2> QED BY <2>3, <2>4 DEF from, lost
<1> HIDE DEF Inv
<1> QED BY <1>1, <1>2, <1>3, PTL DEF Spec

(* A handler does not take the event of another client that waits.         *)
LEMMA FastDispatch ==
  ASSUME TypeInv, FastInv, NEW event, Dispatch(event), UNCHANGED shut,
         port'.faults = 0 => port.faults = 0 /\ (port.up => port'.up),
         port.up => \A c \in Conns \ (Slow \cup shut) : missed'[c] = missed[c],
         \A j \in 1 .. Len(slots') : Waits(j)' =>
           j \in 1 .. Len(slots) /\ Waits(j) /\ WriteOf(Client(j)) /= event
  PROVE  FastInv'
<1> SUFFICES ASSUME port'.faults = 0
             PROVE  /\ port'.up /\ \A c \in Conns \ (Slow \cup shut') : missed'[c] = {}
                    /\ phase' = "clients" => Len(copy') <= Cap
                    /\ \A j \in 1 .. Len(slots') : Waits(j)' => Due(j)'
  BY DEF FastInv, FastMissNothing
<1>1. port.faults = 0 /\ port.up /\ port'.up /\ \A c \in Conns \ (Slow \cup shut) : missed[c] = {}
  BY DEF FastInv, FastMissNothing
<1>2. /\ phase = "dispatch" /\ ready' = ready \ {event}
      /\ phase' = IF ready = {event} THEN "poll" ELSE "dispatch"
  BY DEF Dispatch
<1>3. ASSUME NEW j \in 1 .. Len(slots'), Waits(j)' PROVE Due(j)'
  <2>1. j \in 1 .. Len(slots) /\ Waits(j) /\ WriteOf(Client(j)) /= event
    BY <1>3
  <2>2. WriteOf(Client(j)) \in ready
    BY <1>1, <1>2, <2>1 DEF FastInv, Due
  <2>3. WriteOf(Client(j)) \in ready' /\ phase' = "dispatch"
    BY <1>2, <2>1, <2>2
  <2> QED BY <2>3 DEF Due
<1> QED BY <1>1, <1>2, <1>3

(* The events of two clients, of reading and of writing, differ, and they  *)
(* differ from those of the serial device and of the listener.             *)
LEMMA EventsDiffer ==
  ASSUME NEW i \in Nat, NEW j \in Nat
  PROVE  /\ WriteOf(Client(j)) /= ReadOf(Client(i)) /\ (WriteOf(Client(j)) = WriteOf(Client(i)) => i = j)
         /\ WriteOf(Client(j)) /= ReadOf(Serial) /\ WriteOf(Client(j)) /= ReadOf(Listener)
         /\ j >= 1 => WriteOf(Client(j)) /= WriteOf(Serial)
BY DEF WriteOf, ReadOf, Client, Serial, Listener

(* A slot whose client waits is open.                                      *)
LEMMA WaitsOpen ==
  ASSUME TypeInv, NEW i \in 1 .. Len(slots), Waits(i)
  PROVE  IsOpen(slots[i])
<1>1. slots[i] \in Slot
  BY SlotsOK DEF TypeInv
<1>2. slots[i].state \in {"connected", "inactive"}
  BY <1>1, SlotOK
<1> QED BY <1>2 DEF TypeInv, Apart, Waits, IsOpen

(* The handlers of the serial device and of the listener.                  *)
LEMMA FastSerial ==
  ASSUME TypeInv, FastInv, SerialRead \/ SerialEof \/ SerialWrite PROVE FastInv'
<1>1. port \in [up : BOOLEAN, emitted : 0 .. MaxEmit, taken : 0 .. MaxEmit, faults : 0 .. MaxFaults]
  BY DEF TypeInv, WorldOK
<1>2. UNCHANGED <<slots, shut>> /\ port'.faults = port.faults /\ port'.up = port.up
  BY <1>1 DEF SerialRead, SerialEof, SerialWrite, world
<1>3. PICK event \in {ReadOf(Serial), WriteOf(Serial)} : Dispatch(event)
  BY DEF SerialRead, SerialEof, SerialWrite
<1>4. port.up => UNCHANGED missed
  BY DEF SerialRead, SerialEof, SerialWrite, ghosts
<1>5. ASSUME NEW j \in 1 .. Len(slots'), Waits(j)'
      PROVE  j \in 1 .. Len(slots) /\ Waits(j) /\ WriteOf(Client(j)) /= event
  <2>1. j \in 1 .. Len(slots) /\ Waits(j) /\ j \in Nat /\ j >= 1
    BY <1>2, <1>5, SlotsOK DEF Waits, TypeInv
  <2> QED BY <1>3, <2>1, EventsDiffer
<1> QED BY <1>2, <1>3, <1>4, <1>5, FastDispatch

(* A client that connects has its buffer empty.                            *)
LEMMA FastAccept == ASSUME TypeInv, FastInv, Accept PROVE FastInv'
<1>1. backlog /= <<>>
  BY DEF TypeInv, Awaited, Accept, Dispatch
<1>2. PICK i \in 1 .. Len(slots) + 1 :
           /\ i \in 1 .. Len(slots') /\ slots'[i] = Fresh(Head(backlog))
           /\ \A j \in 1 .. Len(slots') : j /= i => j \in 1 .. Len(slots) /\ slots'[j] = slots[j]
  BY <1>1, AcceptSlots
<1>3. UNCHANGED <<port, shut, missed>> /\ Dispatch(ReadOf(Listener))
  BY DEF Accept
<1>4. slots'[i].tbuf = <<>>
  BY <1>2 DEF Fresh
<1>5. ASSUME NEW j \in 1 .. Len(slots'), Waits(j)'
      PROVE  j \in 1 .. Len(slots) /\ Waits(j) /\ WriteOf(Client(j)) /= ReadOf(Listener)
  <2>1. j /= i
    BY <1>4, <1>5 DEF Waits
  <2>2. j \in 1 .. Len(slots) /\ slots'[j] = slots[j]
    BY <1>2, <2>1
  <2>3. Waits(j)
    BY <1>3, <1>5, <2>2 DEF Waits
  <2>4. j \in Nat
    BY <2>2, PartsOK
  <2> QED BY <2>2, <2>3, <2>4, EventsDiffer
<1> QED BY <1>3, <1>5, FastDispatch

(* The handlers of a client: its buffer is emptied when it is open, and    *)
(* its data is not lost unless it has left.                                *)
LEMMA FastHandler ==
  ASSUME TypeInv, FastInv, NEW i \in 1 .. Len(slots), Handler(i) PROVE FastInv'
<1> DEFINE s == slots[i]
<1>1. s \in Slot /\ s.conn \in Conns /\ s.tbuf \in Positions /\ slots \in Seq(Slot) /\ Len(slots) \in Nat
  BY PartsOK
<1>2. CASE ClientRead(i)
  <2>1. PICK n \in Nat, new \in BytesOf(s.conn) :
          ReadSlot(s, new) \in Slot /\ slots' = [slots EXCEPT ![i] = ReadSlot(s, new)]
    BY <1>2, ReadEffect
  <2> DEFINE z == ReadSlot(s, new)
  <2>2. z.conn = s.conn /\ z.tbuf = s.tbuf
    BY DEF ReadSlot
  <2>3. z \in Slot /\ slots' = [slots EXCEPT ![i] = z]
    BY <2>1
  <2> HIDE DEF z
  <2>4. Len(slots') = Len(slots) /\ slots'[i] = z /\ \A j \in 1 .. Len(slots) : j /= i => slots'[j] = slots[j]
    BY <1>1, <2>3, ExceptSeq
  <2>5. UNCHANGED <<port, shut, missed>> /\ Dispatch(ReadOf(Client(i)))
    BY <1>2 DEF ClientRead, world
  <2>6. ASSUME NEW j \in 1 .. Len(slots'), Waits(j)'
        PROVE  j \in 1 .. Len(slots) /\ Waits(j) /\ WriteOf(Client(j)) /= ReadOf(Client(i))
    <3>1. j \in 1 .. Len(slots) /\ slots'[j].conn = slots[j].conn /\ slots'[j].tbuf = slots[j].tbuf
      BY <2>2, <2>4
    <3>2. Waits(j)
      BY <2>5, <2>6, <3>1 DEF Waits
    <3>3. i \in Nat /\ j \in Nat
      BY <1>1, <3>1
    <3> QED BY <3>1, <3>2, <3>3, EventsDiffer
  <2> QED BY <2>5, <2>6, FastDispatch
<1>3. ASSUME NEW z \in Slot, slots' = [slots EXCEPT ![i] = z], z.conn = s.conn,
             s.conn \notin Slow \cup shut => z.tbuf = <<>>,
             UNCHANGED <<port, shut>>, Dispatch(WriteOf(Client(i))) \/ Dispatch(ReadOf(Client(i))),
             \A c \in Conns \ (Slow \cup shut) : missed'[c] = missed[c]
      PROVE  FastInv'
  <2>1. Len(slots') = Len(slots) /\ slots'[i] = z /\ \A j \in 1 .. Len(slots) : j /= i => slots'[j] = slots[j]
    BY <1>1, <1>3, ExceptSeq
  <2>2. PICK event \in {WriteOf(Client(i)), ReadOf(Client(i))} : Dispatch(event)
    BY <1>3
  <2>3. ASSUME NEW j \in 1 .. Len(slots'), Waits(j)'
        PROVE  j \in 1 .. Len(slots) /\ Waits(j) /\ WriteOf(Client(j)) /= event
    <3>1. j /= i
      BY <1>3, <2>1, <2>3 DEF Waits
    <3>2. j \in 1 .. Len(slots) /\ slots'[j] = slots[j]
      BY <2>1, <3>1
    <3>3. Waits(j)
      BY <1>3, <2>3, <3>2 DEF Waits
    <3>4. i \in Nat /\ j \in Nat
      BY <1>1, <3>2
    <3> QED BY <2>2, <3>1, <3>2, <3>3, <3>4, EventsDiffer
  <2> QED BY <1>3, <2>2, <2>3, FastDispatch
<1>4. CASE ClientEof(i) \/ ClientWriteFails(i)
  <2>1. /\ LeftSlot(s) \in Slot /\ slots' = [slots EXCEPT ![i] = LeftSlot(s)]
        /\ s.conn \in shut /\ UNCHANGED <<port, shut>>
        /\ missed' = [missed EXCEPT ![s.conn] = @ \cup ElementsOf(s.tbuf)]
    BY <1>4, LeaveEffect DEF world
  <2>2. LeftSlot(s).conn = s.conn /\ LeftSlot(s).tbuf = <<>>
    BY DEF LeftSlot
  <2>3. missed \in [Conns -> SUBSET (1 .. MaxEmit)]
    BY DEF TypeInv, GhostsOK
  <2>4. \A c \in Conns \ (Slow \cup shut) : missed'[c] = missed[c]
    BY <2>1, <2>3
  <2>5. Dispatch(WriteOf(Client(i))) \/ Dispatch(ReadOf(Client(i)))
    BY <1>4 DEF ClientEof, ClientWriteFails
  <2> QED BY <1>3, <2>1, <2>2, <2>4, <2>5
<1>5. CASE ClientWrite(i) /\ IsOpen(s)
  <2>1. PICK n \in 1 .. Len(s.tbuf) :
           /\ s.conn \notin Slow => n = Len(s.tbuf)
           /\ WroteSlot(s, n) \in Slot /\ slots' = [slots EXCEPT ![i] = WroteSlot(s, n)]
    BY <1>5, WriteEffect
  <2>2. WroteSlot(s, n).conn = s.conn /\ WroteSlot(s, n).tbuf = Rest(s.tbuf, n)
    BY DEF WroteSlot
  <2>3. s.conn \notin Slow => Rest(s.tbuf, n) = <<>>
    BY <1>1, <2>1, RestOfAll DEF Positions
  <2>4. UNCHANGED <<port, shut, missed>> /\ Dispatch(WriteOf(Client(i)))
    BY <1>5 DEF ClientWrite, world
  <2> QED BY <1>3, <2>1, <2>2, <2>3, <2>4
<1>6. CASE ClientWrite(i) /\ ~IsOpen(s)
  <2>1. UNCHANGED <<slots, port, shut, missed>> /\ Dispatch(WriteOf(Client(i)))
    BY <1>6 DEF ClientWrite, world
  <2>2. ASSUME NEW j \in 1 .. Len(slots'), Waits(j)'
        PROVE  j \in 1 .. Len(slots) /\ Waits(j) /\ WriteOf(Client(j)) /= WriteOf(Client(i))
    <3>1. j \in 1 .. Len(slots) /\ Waits(j)
      BY <2>1, <2>2 DEF Waits
    <3>2. j /= i
      BY <1>6, <3>1, WaitsOpen
    <3>3. i \in Nat /\ j \in Nat
      BY <1>1, <3>1
    <3> QED BY <3>1, <3>2, <3>3, EventsDiffer
  <2> QED BY <2>1, <2>2, FastDispatch
<1>7. CASE SigPipe(i)
  <2>1. phase' = "killed" /\ UNCHANGED <<port, shut, missed, slots>>
    BY <1>7 DEF SigPipe, world, ghosts
  <2>2. \A j : Due(j)'
    BY <2>1 DEF Due
  <2> QED BY <2>1, <2>2 DEF FastInv, FastMissNothing
<1> QED BY <1>2, <1>4, <1>5, <1>6, <1>7 DEF Handler

(* select reports the socket of every client that waits.                   *)
LEMMA FastPoll == ASSUME TypeInv, SerialInv, FastInv, Poll PROVE FastInv'
<1> SUFFICES ASSUME port'.faults = 0 PROVE FastInv'
  BY DEF FastInv
<1>1. port \in [up : BOOLEAN, emitted : 0 .. MaxEmit, taken : 0 .. MaxEmit, faults : 0 .. MaxFaults]
  BY DEF TypeInv, WorldOK
<1>2. /\ phase = "poll" /\ phase' \in {"process", "dispatch"} /\ UNCHANGED <<slots, copy, shut, missed, stale, turn>>
      /\ port'.faults = port.faults /\ (port.up => port'.up)
      /\ (ready' /= {} => phase' = "dispatch")
  BY <1>1 DEF Poll, Reopen, ghosts
<1>3. port.faults = 0 /\ port'.up /\ FastMissNothing
  BY <1>2 DEF FastInv
<1>4. ASSUME NEW i \in 1 .. Len(slots), Waits(i) PROVE WriteOf(Client(i)) \in ready'
  <2>1. ~stale
    BY <1>2, <1>3, <1>4 DEF FastInv, Due
  <2>2. PICK W \in SUBSET (WantsWrite \cap MayStall) : ready' = Readable \cup (WantsWrite \ W)
    BY <2>1 DEF Poll, Select
  <2>3. i \in Nat /\ i >= 1 /\ DOMAIN slots = 1 .. Len(slots)
    BY SlotsOK DEF TypeInv
  <2>4. i \in Pending /\ slots[i].conn \notin Slow
    BY <1>4, <2>3, WaitsOpen DEF Pending, Waits
  <2>5. WriteOf(Client(i)) \notin MayStall
    <3>1. ASSUME NEW j \in Pending, slots[j].conn \in Slow PROVE WriteOf(Client(i)) /= WriteOf(Client(j))
      <4>1. j \in Nat /\ j /= i
        BY <2>3, <2>4, <3>1 DEF Pending
      <4> QED BY <2>3, <4>1, EventsDiffer
    <3>2. WriteOf(Client(i)) /= WriteOf(Serial)
      BY <2>3, EventsDiffer
    <3> QED BY <3>1, <3>2 DEF MayStall
  <2>6. WriteOf(Client(i)) \in WantsWrite
    BY <2>4 DEF WantsWrite
  <2> QED BY <2>2, <2>5, <2>6
<1>5. ASSUME NEW i \in 1 .. Len(slots'), Waits(i)' PROVE Due(i)'
  <2>1. i \in 1 .. Len(slots) /\ Waits(i)
    BY <1>2, <1>5 DEF Waits
  <2>2. WriteOf(Client(i)) \in ready'
    BY <1>4, <2>1
  <2> QED BY <1>2, <2>2 DEF Due
<1>6. FastMissNothing'
  BY <1>2, <1>3 DEF FastMissNothing
<1> QED BY <1>2, <1>3, <1>5, <1>6 DEF FastInv

(* The receive buffer is copied, when nothing waits; the copy fits.        *)
LEMMA FastCopy == ASSUME TypeInv, SerialInv, FastInv, ProcessSerial PROVE FastInv'
<1>1. phase = "process" /\ UNCHANGED <<slots, port, shut, missed>> /\ phase' \in {"exit", "clients"}
  BY DEF ProcessSerial, world, ghosts
<1> SUFFICES ASSUME port.faults = 0 PROVE FastInv'
  BY <1>1 DEF FastInv
<1>2. \A i \in 1 .. Len(slots') : ~Waits(i)'
  BY <1>1 DEF FastInv, Waits, Due
<1>3. port'.up /\ FastMissNothing'
  BY <1>1 DEF FastInv, FastMissNothing
<1>4. ASSUME phase' = "clients" PROVE Len(copy') <= Cap
  <2> DEFINE r == serial.rbuf
             n == IF IsOpen(serial) THEN Fitting(copy, CopyCap, r) ELSE 0
  <2>1. copy = <<>> /\ copy' = copy \o First(r, n)
    BY <1>1, <1>4 DEF ProcessSerial, SerialInv
  <2>2. r \in Positions /\ Len(r) <= Cap /\ CopyCap \in Nat /\ Cap \in Nat
    BY CapOK DEF TypeInv, BuffersOK
  <2>3. n \in Nat
    BY <2>1, <2>2 DEF Fitting, Lesser, Positions
  <2> DEFINE S == 1 .. MaxEmit
  <2>4. r \in Seq(S)
    BY <2>2 DEF Positions
  <2> HIDE DEF r, n, S
  <2>5. First(r, n) \in Seq(S) /\ Len(First(r, n)) <= Len(r)
    BY <2>3, <2>4, FirstOK DEF Lesser
  <2>6. copy' = First(r, n)
    BY <2>1, <2>5
  <2> QED BY <2>2, <2>4, <2>5, <2>6
<1> QED BY <1>2, <1>3, <1>4 DEF FastInv

(* A client that reads is given the whole copy.                            *)
LEMMA FastServe == ASSUME TypeInv, FastInv, ProcessClient PROVE FastInv'
<1> DEFINE s   == slots[turn]
           c   == s.conn
           end == CommandEnd(Buffered(s))
           z   == ServedSlot(s, end)
<1>1. /\ turn \in 1 .. Len(slots) /\ s \in Slot /\ z \in Slot
      /\ slots' = [slots EXCEPT ![turn] = z]
      /\ missed' = [missed EXCEPT ![c] = @ \cup ElementsOf(Rest(copy, Fitting(s.tbuf, Cap, copy)))]
      /\ turn' = turn + 1
  BY ServeEffect
<1>2. UNCHANGED <<phase, copy, port, shut>> /\ phase = "clients"
  BY DEF ProcessClient, world
<1> SUFFICES ASSUME port.faults = 0 PROVE FastInv'
  BY <1>2 DEF FastInv
<1>3. /\ c \in Conns /\ copy \in Positions /\ slots \in Seq(Slot) /\ Len(slots) \in Nat /\ turn \in Nat
      /\ missed \in [Conns -> SUBSET (1 .. MaxEmit)]
  BY <1>1, PartsOK DEF TypeInv, GhostsOK
<1>4. Len(copy) <= Cap
  BY <1>2 DEF FastInv
<1>5. c \notin Slow \cup shut => s.tbuf = <<>>
  BY <1>1, <1>2, <1>3 DEF FastInv, Waits, Due
<1>6. c \notin Slow \cup shut => ElementsOf(Rest(copy, Fitting(s.tbuf, Cap, copy))) = {}
  <2> SUFFICES ASSUME c \notin Slow \cup shut PROVE ElementsOf(Rest(copy, Fitting(<<>>, Cap, copy))) = {}
    BY <1>5
  <2>1. Len(copy) \in Nat /\ Cap \in Nat
    BY <1>3, CapOK DEF Positions
  <2>2. Fitting(<<>>, Cap, copy) = Len(copy)
    BY <1>4, <2>1 DEF Fitting, Lesser
  <2>3. Rest(copy, Len(copy)) = <<>>
    BY <1>3, RestOfAll DEF Positions
  <2> QED BY <2>2, <2>3, NoneOK
<1> HIDE DEF z
<1>7. /\ Len(slots') = Len(slots) /\ slots'[turn] = z
      /\ \A j \in 1 .. Len(slots) : j /= turn => slots'[j] = slots[j]
  BY <1>1, <1>3, ExceptSeq
<1>8. FastMissNothing'
  <2>1. \A d \in Conns \ (Slow \cup shut) : missed[d] = {}
    BY DEF FastInv, FastMissNothing
  <2> DEFINE lost == ElementsOf(Rest(copy, Fitting(s.tbuf, Cap, copy)))
  <2>2. c \notin Slow \cup shut => lost = {}
    BY <1>6
  <2>3. missed' = [missed EXCEPT ![c] = @ \cup lost]
    BY <1>1
  <2> HIDE DEF lost, c
  <2>4. \A d \in Conns \ (Slow \cup shut) : missed'[d] = {}
    BY <1>3, <2>1, <2>2, <2>3
  <2> QED BY <1>2, <2>4 DEF FastMissNothing
<1>9. ASSUME NEW i \in 1 .. Len(slots'), Waits(i)' PROVE Due(i)'
  <2>1. i \in 1 .. Len(slots) /\ i \in Nat
    BY <1>3, <1>7
  <2>2. CASE i = turn
    BY <1>1, <1>2, <1>3, <2>2 DEF Due
  <2>3. CASE i /= turn
    <3>1. Waits(i)
      BY <1>2, <1>7, <1>9, <2>1, <2>3 DEF Waits
    <3>2. i < turn
      BY <1>2, <2>1, <3>1 DEF FastInv, Due
    <3> QED BY <1>1, <1>2, <1>3, <2>1, <3>2 DEF Due
  <2> QED BY <2>2, <2>3
<1> QED BY <1>2, <1>4, <1>8, <1>9 DEF FastInv

(* The end of hdmi2usb_process: every client had its turn, so none has     *)
(* data waiting but for the next pass.                                     *)
LEMMA FastEnd == ASSUME FastInv, ProcessEnd PROVE FastInv'
<1>1. phase' = "poll" /\ stale' = FALSE /\ UNCHANGED <<slots, port, shut, missed>>
  BY DEF ProcessEnd, world, ghosts
<1>2. \A i : Due(i)'
  BY <1>1 DEF Due
<1> QED BY <1>1, <1>2 DEF FastInv, FastMissNothing

(* What the tty, the clients and the clock do.                             *)
LEMMA FastWorld ==
  ASSUME TypeInv, FastInv,
         Emit \/ Unplug \/ Tick \/ (\E c \in Conns : ClientSide(c)) \/ UNCHANGED vars
  PROVE  FastInv'
<1>1. port \in [up : BOOLEAN, emitted : 0 .. MaxEmit, taken : 0 .. MaxEmit, faults : 0 .. MaxFaults]
  BY DEF TypeInv, WorldOK
<1>2. CASE Unplug
  <2>1. port'.faults = port.faults + 1 /\ port.faults \in Nat
    BY <1>1, <1>2 DEF Unplug
  <2> QED BY <2>1 DEF FastInv
<1>3. CASE ~Unplug
  <2>1. UNCHANGED <<phase, turn, ready, stale, slots, copy, missed>> /\ shut \subseteq shut'
    BY <1>3 DEF Emit, Tick, ClientSide, Connect, Send, Shut, vars, daemon, world, ghosts
  <2>2. port'.faults = port.faults /\ port'.up = port.up
    BY <1>1, <1>3 DEF Emit, Tick, ClientSide, Connect, Send, Shut, vars, daemon, world
  <2>3. \A i : (Waits(i)' => Waits(i)) /\ Due(i)' = Due(i)
    BY <2>1 DEF Waits, Due
  <2> QED BY <2>1, <2>2, <2>3 DEF FastInv, FastMissNothing
<1> QED BY <1>2, <1>3

(* A step keeps the copy whole for a client that stays and keeps reading.  *)
LEMMA FastNext ==
  ASSUME TypeInv, SerialInv, FastInv, [Next]_vars
  PROVE  FastInv'
<1>1. CASE Next
  BY <1>1, NextCases, FastPoll, FastSerial, FastAccept, FastHandler, FastCopy, FastServe, FastEnd, FastWorld
<1>2. CASE UNCHANGED vars
  BY <1>2, FastWorld
<1> QED BY <1>1, <1>2

(* A client that stays and keeps reading misses nothing the device sends,  *)
(* until the tty goes away.                                                *)
THEOREM FastCorrect == Spec => []FastMissNothing
<1> DEFINE Inv == TypeInv /\ ReadersOpen /\ SerialInv /\ RelayInv /\ FastInv
<1>1. ASSUME Init PROVE FastInv
  <2>1. /\ slots = <<>> /\ port.up /\ phase = "poll" /\ missed = [c \in Conns |-> {}]
    BY <1>1 DEF Init
  <2> QED BY <2>1 DEF FastInv, FastMissNothing
<1>2. Init => Inv
  BY <1>1, TypeInit, UpInit, DownInit
<1>3. Inv /\ [Next]_vars => Inv'
  BY TypeNext, ReadersNext, DownNext, FastNext
<1>4. ASSUME Inv PROVE FastMissNothing
  BY <1>4 DEF FastInv, FastMissNothing
<1> HIDE DEF Inv
<1> QED BY <1>2, <1>3, <1>4, PTL DEF Spec

(* A step that disturbs neither what is on the wire nor what was cut.      *)
LEMMA QuietSame ==
  ASSUME QuietInv, Undisturbed' => Undisturbed,
         Undisturbed => /\ Wire' = Wire /\ UNCHANGED cut
                        /\ port'.up /\ ~stale'
                        /\ serial'.state = "closed" => phase' = "poll"
                        /\ ~IsOpen(serial') \/ phase' = "process" => serial'.tbuf = <<>>
                        /\ phase' = "clients" => IsOpen(serial') /\ (serial'.tbuf = <<>> \/ cmdTimer' > 0)
  PROVE  QuietInv'
<1> SUFFICES ASSUME QuietPort, Undisturbed' PROVE QuietInv'
  BY DEF QuietInv, QuietPort
<1>1. Undisturbed /\ LinesWhole /\ (\A c \in Conns : cut[c] = {})
      /\ (Wire /= <<>> => NewLine(Wire[Len(Wire)]))
  BY DEF QuietInv
<1>2. /\ Wire' = Wire /\ UNCHANGED cut /\ port'.up /\ ~stale'
      /\ serial'.state = "closed" => phase' = "poll"
      /\ ~IsOpen(serial') \/ phase' = "process" => serial'.tbuf = <<>>
      /\ phase' = "clients" => IsOpen(serial') /\ (serial'.tbuf = <<>> \/ cmdTimer' > 0)
  BY <1>1
<1>3. LinesWhole'
  BY <1>1, <1>2 DEF LinesWhole
<1>4. Wire' /= <<>> => NewLine(Wire'[Len(Wire')])
  BY <1>1, <1>2
<1>5. (\A c \in Conns : cut[c] = {})'
  BY <1>1, <1>2
<1> QED BY <1>2, <1>3, <1>4, <1>5 DEF QuietInv

(* select lets selector_loop end only when the tty has taken everything.   *)
LEMMA QuietPoll == ASSUME TypeInv, UpInv, QuietInv, Poll PROVE QuietInv'
<1> SUFFICES ASSUME QuietPort PROVE QuietInv'
  BY DEF QuietInv, QuietPort
<1>1. /\ port \in [up : BOOLEAN, emitted : 0 .. MaxEmit, taken : 0 .. MaxEmit, faults : 0 .. MaxFaults]
      /\ serial \in [state : States, rbuf : Positions, tbuf : Seq(Conns \X Nat)]
  BY DEF TypeInv, WorldOK, BuffersOK
<1>2. phase = "poll" /\ phase' \in {"process", "dispatch"} /\ UNCHANGED <<shut, stale, cut>>
      /\ (phase' = "process" => ready' = {})
  BY DEF Poll, ghosts
<1>3. /\ port'.faults = port.faults /\ (port.up => port'.up) /\ serial'.tbuf = serial.tbuf
      /\ serial'.state \in {"connected", "inactive"}
      /\ serial.state /= "closed" => serial'.state = serial.state
  <2>1. CASE serial.state = "closed"
    <3>1. PICK outcome \in OpenResults :
            /\ serial' = [serial EXCEPT !.state = outcome]
            /\ port' = [port EXCEPT !.up = @ \/ outcome = "connected"]
      BY <2>1 DEF Poll, Reopen
    <3>2. outcome \in {"connected", "inactive"}
      BY <3>1 DEF QuietPort
    <3> QED BY <1>1, <2>1, <3>1, <3>2
  <2>2. CASE serial.state /= "closed"
    <3>1. UNCHANGED <<serial, port>>
      BY <2>2 DEF Poll, Reopen
    <3>2. serial.state \in {"connected", "inactive"}
      BY <1>1, <2>2 DEF States
    <3> QED BY <3>1, <3>2
  <2> QED BY <2>1, <2>2
<1>4. Wire' = Wire
  BY UpQuiet
<1>5. ASSUME Undisturbed, IsOpen(serial), serial.tbuf /= <<>> PROVE ready' /= {}
  <2>1. ~stale
    BY <1>5 DEF QuietInv
  <2>2. PICK W \in SUBSET (WantsWrite \cap MayStall) : ready' = Readable \cup (WantsWrite \ W)
    BY <2>1 DEF Poll, Select
  <2>3. WriteOf(Serial) \in WantsWrite
    BY <1>5 DEF WantsWrite
  <2>4. ASSUME NEW j \in Pending PROVE WriteOf(Client(j)) /= WriteOf(Serial)
    <3>1. j \in Nat /\ j >= 1
      BY <2>4, PartsOK DEF Pending
    <3> QED BY <3>1, EventsDiffer
  <2>5. WriteOf(Serial) \notin MayStall
    BY <2>4 DEF MayStall, QuietPort
  <2> QED BY <2>2, <2>3, <2>5
<1>6. ASSUME Undisturbed PROVE ~IsOpen(serial') \/ phase' = "process" => serial'.tbuf = <<>>
  <2>1. CASE ~IsOpen(serial)
    BY <1>3, <1>6, <2>1 DEF QuietInv
  <2>2. CASE IsOpen(serial)
    BY <1>2, <1>3, <1>5, <1>6, <2>2 DEF IsOpen
  <2> QED BY <2>1, <2>2
<1>7. Undisturbed' => Undisturbed
  BY <1>2, <1>3 DEF Undisturbed
<1>8. Undisturbed => port.up /\ ~stale
  BY DEF QuietInv
<1> QED BY <1>2, <1>3, <1>4, <1>6, <1>7, <1>8, QuietSame

(* The handlers: the tty is not closed, and no client is.                  *)
LEMMA QuietHandle ==
  ASSUME TypeInv, UpInv, QuietInv,
         SerialRead \/ SerialEof \/ SerialWrite \/ Accept \/ \E i \in 1 .. Len(slots) : Handler(i)
  PROVE  QuietInv'
<1> SUFFICES ASSUME QuietPort PROVE QuietInv'
  BY DEF QuietInv, QuietPort
<1>1. /\ port \in [up : BOOLEAN, emitted : 0 .. MaxEmit, taken : 0 .. MaxEmit, faults : 0 .. MaxFaults]
      /\ serial \in [state : States, rbuf : Positions, tbuf : Seq(Conns \X Nat)]
  BY DEF TypeInv, WorldOK, BuffersOK
<1>2. UNCHANGED shut /\ port'.faults = port.faults /\ port'.up = port.up
      /\ phase = "dispatch" /\ phase' \in {"poll", "dispatch", "killed"}
  BY <1>1 DEF SerialRead, SerialEof, SerialWrite, Accept, Handler, ClientRead, ClientEof, ClientWrite,
              ClientWriteFails, SigPipe, Dispatch, world
<1>3. Undisturbed' => Undisturbed
  BY <1>2 DEF Undisturbed
<1>4. ASSUME Undisturbed
      PROVE  port.up /\ ~stale /\ serial.state /= "closed" /\ (~IsOpen(serial) => serial.tbuf = <<>>) /\ shut = {}
  BY <1>2, <1>4 DEF QuietInv, Undisturbed
<1>5. ASSUME Wire' = Wire, UNCHANGED <<cut, stale>>, serial'.state = serial.state,
             serial'.tbuf = serial.tbuf \/ IsOpen(serial)
      PROVE  QuietInv'
  <2>1. IsOpen(serial') <=> IsOpen(serial)
    BY <1>5 DEF IsOpen
  <2> QED BY <1>2, <1>3, <1>4, <1>5, <2>1, QuietSame
<1>6. CASE SerialRead
  <2>1. UNCHANGED <<cut, stale>> /\ Wire' = Wire /\ serial'.state = serial.state /\ serial'.tbuf = serial.tbuf
    BY <1>1, <1>6, UpQuiet DEF SerialRead, ghosts
  <2> QED BY <1>5, <2>1
<1>7. CASE SerialEof
  <2>1. ~port.up
    BY <1>7 DEF SerialEof
  <2> QED BY <1>3, <1>4, <2>1 DEF QuietInv
<1>8. CASE SerialWrite
  <2>1. CASE IsOpen(serial) /\ ~port.up
    BY <1>3, <1>4, <2>1 DEF QuietInv
  <2>2. CASE ~IsOpen(serial) \/ port.up
    <3>1. UNCHANGED <<cut, stale>> /\ Wire' = Wire
      BY <1>8, <2>2, UpQuiet DEF SerialWrite, ghosts
    <3>2. CASE UNCHANGED serial
      BY <1>5, <3>1, <3>2
    <3>3. CASE IsOpen(serial) /\ serial' = [serial EXCEPT !.tbuf = Tail(@)]
      <4>1. serial'.state = serial.state
        BY <1>1, <3>3
      <4> QED BY <1>5, <3>1, <3>3, <4>1
    <3> QED BY <1>8, <2>2, <3>2, <3>3 DEF SerialWrite
  <2> QED BY <2>1, <2>2
<1>9. CASE Accept
  <2>1. backlog /= <<>>
    BY <1>9 DEF TypeInv, Awaited, Accept, Dispatch
  <2>2. PICK i \in 1 .. Len(slots) + 1 :
           /\ i \in 1 .. Len(slots) => slots[i].conn \in shut
           /\ cut' = IF i \in 1 .. Len(slots)
                     THEN [cut EXCEPT ![slots[i].conn] =
                             @ \cup {b[2] : b \in ElementsOf(slots[i].linebuf)}]
                     ELSE cut
    BY <1>9, <2>1, AcceptSlots
  <2>3. shut = {} => cut' = cut
    BY <2>2
  <2>4. UNCHANGED <<serial, stale>> /\ Wire' = Wire
    BY <1>9, UpAccept DEF Accept
  <2>5. CASE shut = {}
    BY <1>5, <2>3, <2>4, <2>5
  <2>6. CASE shut /= {}
    BY <1>2, <2>6 DEF QuietInv, Undisturbed
  <2> QED BY <2>5, <2>6
<1>10. ASSUME NEW i \in 1 .. Len(slots), Handler(i) PROVE QuietInv'
  <2>1. CASE ClientEof(i) \/ ClientWriteFails(i) \/ SigPipe(i)
    <3>1. shut /= {}
      BY <2>1 DEF ClientEof, ClientWriteFails, SigPipe
    <3> QED BY <1>2, <3>1 DEF QuietInv, Undisturbed
  <2>2. CASE ClientRead(i) \/ ClientWrite(i)
    <3>1. UNCHANGED <<cut, stale, serial, heard>>
      BY <2>2 DEF ClientRead, ClientWrite
    <3>2. Wire' = Wire
      BY <3>1 DEF Wire
    <3> QED BY <1>5, <3>1, <3>2
  <2> QED BY <1>10, <2>1, <2>2 DEF Handler
<1> QED BY <1>6, <1>7, <1>8, <1>9, <1>10

(* hdmi2usb_process but for the commands, and what the tty, the clients    *)
(* and the clock do.                                                       *)
LEMMA QuietRest ==
  ASSUME TypeInv, UpInv, QuietInv,
         ProcessSerial \/ ProcessEnd \/ Emit \/ Unplug \/ Tick \/ (\E c \in Conns : ClientSide(c))
           \/ UNCHANGED vars
  PROVE  QuietInv'
<1> SUFFICES ASSUME QuietPort PROVE QuietInv'
  BY DEF QuietInv, QuietPort
<1>1. /\ port \in [up : BOOLEAN, emitted : 0 .. MaxEmit, taken : 0 .. MaxEmit, faults : 0 .. MaxFaults]
      /\ serial \in [state : States, rbuf : Positions, tbuf : Seq(Conns \X Nat)]
  BY DEF TypeInv, WorldOK, BuffersOK
<1>2. CASE Unplug
  <2>1. port'.faults = port.faults + 1 /\ port.faults \in Nat
    BY <1>1, <1>2 DEF Unplug
  <2>2. ~Undisturbed'
    BY <2>1 DEF Undisturbed
  <2> QED BY <2>2 DEF QuietInv
<1>3. CASE ~Unplug
  <2>1. Wire' = Wire /\ UNCHANGED cut
    BY <1>3, UpQuiet DEF ProcessSerial, ProcessEnd, Emit, Tick, ClientSide, Connect, Send, Shut, vars, ghosts
  <2>2. port'.faults = port.faults /\ port'.up = port.up /\ shut \subseteq shut'
    BY <1>1, <1>3 DEF ProcessSerial, ProcessEnd, Emit, Tick, ClientSide, Connect, Send, Shut, vars, daemon, world
  <2>3. Undisturbed' => Undisturbed
    BY <2>2 DEF Undisturbed
  <2>4. ASSUME Undisturbed
        PROVE  /\ port.up /\ ~stale
               /\ serial.state = "closed" => phase = "poll"
               /\ ~IsOpen(serial) \/ phase = "process" => serial.tbuf = <<>>
               /\ phase = "clients" => IsOpen(serial) /\ (serial.tbuf = <<>> \/ cmdTimer > 0)
    BY <2>4 DEF QuietInv
  <2>5. CASE ProcessSerial
    <3>1. /\ phase = "process" /\ UNCHANGED <<stale, cmdTimer>>
          /\ serial'.state = serial.state /\ serial'.tbuf = serial.tbuf
          /\ phase' = IF serial.state = "inactive" THEN "exit" ELSE "clients"
      BY <1>1, <2>5 DEF ProcessSerial
    <3>2. serial.state /= "closed" /\ serial.state /= "inactive" => IsOpen(serial)
      BY <1>1 DEF States, IsOpen
    <3>3. IsOpen(serial') <=> IsOpen(serial)
      BY <3>1 DEF IsOpen
    <3> QED BY <2>1, <2>2, <2>3, <2>4, <3>1, <3>2, <3>3, QuietSame
  <2>6. CASE ProcessEnd
    <3>1. phase = "clients" /\ phase' = "poll" /\ stale' = FALSE /\ UNCHANGED serial
      BY <2>6 DEF ProcessEnd
    <3> QED BY <2>1, <2>2, <2>3, <2>4, <3>1, QuietSame
  <2>7. CASE Emit \/ Tick \/ (\E c \in Conns : ClientSide(c)) \/ UNCHANGED vars
    <3>1. UNCHANGED <<phase, stale, serial>> /\ (phase = "clients" => cmdTimer' = cmdTimer)
      BY <2>7 DEF QuietPort, Emit, Tick, ClientSide, Connect, Send, Shut, vars, daemon
    <3> QED BY <2>1, <2>2, <2>3, <2>4, <3>1, QuietSame
  <2> QED BY <1>3, <2>5, <2>6, <2>7
<1> QED BY <1>2, <1>3

(* A run that starts a line and ends one, after lines that are whole.      *)
Whole(w) == \A k \in 1 .. Len(w) - 1 : Starts(w[k + 1]) => NewLine(w[k])

(* A line after lines that are whole.                                      *)
LEMMA WholeConcat ==
  ASSUME NEW w \in Seq(Conns \X Nat), Whole(w), w /= <<>> => NewLine(w[Len(w)]),
         NEW c \in Conns, NEW m \in Nat, NEW n \in Nat \ {0},
         NEW f \in Seq(Conns \X Nat), IsRun(f, c, m, n), NewLine(f[n])
  PROVE  Whole(w \o f) /\ w \o f /= <<>> /\ NewLine((w \o f)[Len(w \o f)])
<1> DEFINE P == Conns \X Nat
           v == w \o f
<1>1. Len(f) = n /\ \A k \in 1 .. n : f[k] = <<c, m + k>>
  BY DEF IsRun
<1>2. w \in Seq(P) /\ f \in Seq(P)
  OBVIOUS
<1> HIDE DEF P, v
<1>3. Len(w) \in Nat /\ Len(v) = Len(w) + n
  <2>1. Len(w) \in Nat /\ Len(v) = Len(w) + Len(f)
    BY <1>2, ConcatOK DEF v
  <2> QED BY <1>1, <2>1
<1>4. ASSUME NEW k \in 1 .. Len(w) PROVE v[k] = w[k]
  BY <1>2, ConcatOK DEF v
<1>5. ASSUME NEW k \in 1 .. n PROVE v[Len(w) + k] = f[k]
  BY <1>1, <1>2, ConcatOK DEF v
<1>6. ASSUME NEW k \in 1 .. Len(v) - 1, Starts(v[k + 1]) PROVE NewLine(v[k])
  <2>1. CASE k + 1 <= Len(w)
    <3>1. k \in 1 .. Len(w) - 1 /\ k \in 1 .. Len(w) /\ k + 1 \in 1 .. Len(w)
      BY <1>3, <2>1
    <3>2. v[k] = w[k] /\ v[k + 1] = w[k + 1]
      BY <1>4, <3>1
    <3> QED BY <1>6, <3>1, <3>2 DEF Whole
  <2>2. CASE k = Len(w)
    <3>1. w /= <<>> /\ k \in 1 .. Len(w)
      BY <2>2
    <3> QED BY <1>4, <2>2, <3>1
  <2>3. CASE k > Len(w)
    <3> DEFINE j == k - Len(w)
    <3>1. j \in 1 .. n /\ j + 1 \in 1 .. n /\ k = Len(w) + j /\ k + 1 = Len(w) + (j + 1) /\ j \in Nat
      BY <1>3, <2>3
    <3> HIDE DEF j
    <3>2. v[k] = f[j] /\ v[k + 1] = f[j + 1]
      BY <1>5, <3>1
    <3>3. f[j] = <<c, m + j>> /\ f[j + 1] = <<c, m + (j + 1)>>
      BY <1>1, <3>1
    <3> DEFINE a == m + j
    <3>4. a \in Nat /\ m + (j + 1) = a + 1
      BY <3>1
    <3>5. v[k][2] = a /\ v[k + 1][2] = a + 1
      BY <3>2, <3>3, <3>4
    <3> HIDE DEF a
    <3>6. (a + 1) % LineLen = 1 % LineLen
      BY <1>6, <3>5 DEF Starts
    <3>7. a % LineLen = 0
      BY <3>4, <3>6, CapOK, BelowStart
    <3> QED BY <3>5, <3>7 DEF NewLine
  <2> QED BY <1>3, <2>1, <2>2, <2>3
<1>7. NewLine(v[Len(v)])
  <2>1. n \in 1 .. n
    OBVIOUS
  <2>2. v[Len(w) + n] = f[n]
    BY <1>5, <2>1
  <2> QED BY <1>3, <2>2
<1>8. v /= <<>>
  BY <1>3
<1> QED BY <1>6, <1>7, <1>8 DEF Whole, v

(* A line within a run that starts at a line's start is LineLen at most.   *)
LEMMA LineFits ==
  ASSUME NEW q \in Seq(Conns \X Nat), NEW c, NEW m \in Nat, m % LineLen = 0, IsRun(q, c, m, Len(q))
  PROVE  LineEnd(q) <= LineLen
<1>1. Len(q) \in Nat /\ DOMAIN q = 1 .. Len(q) /\ LineLen \in Nat \ {0}
  BY CapOK
<1> DEFINE e == LineEnd(q)
<1>2. e \in Nat /\ e <= Len(q) /\ \A k \in 1 .. e - 1 : ~NewLine(q[k])
  BY <1>1, LineEndOK
<1> HIDE DEF e
<1>3. SUFFICES ASSUME e > LineLen PROVE FALSE
  BY <1>1, <1>2 DEF e
<1>4. LineLen \in 1 .. e - 1 /\ LineLen \in 1 .. Len(q)
  BY <1>1, <1>2, <1>3
<1>5. q[LineLen] = <<c, m + LineLen>>
  BY <1>4 DEF IsRun
<1>6. (m + LineLen) % LineLen = 0
  BY <1>1, NextMultiple
<1> QED BY <1>2, <1>4, <1>5, <1>6 DEF NewLine

(* A line is queued when the transmit buffer is empty, and fits.           *)
LEMMA QuietServe == ASSUME TypeInv, UpInv, QuietInv, ProcessClient PROVE QuietInv'
<1> DEFINE q    == Buffered(slots[turn])
           end  == CommandEnd(q)
           line == First(q, end)
           P    == Conns \X Nat
<1>1. PICK c \in Conns, m \in Nat, n \in Nat, f \in Seq(P) :
         /\ IsRun(f, c, m, n) /\ m % LineLen = 0 /\ Wire' = Wire \o f
         /\ IsRun(q, c, m, Len(q)) /\ n = Queued(line)
  BY UpServe
<1>2. UNCHANGED <<phase, stale, port, shut>> /\ phase = "clients"
  BY DEF ProcessClient, world
<1> SUFFICES ASSUME QuietPort, Undisturbed PROVE QuietInv'
  BY <1>2 DEF QuietInv, QuietPort, Undisturbed
<1>3. /\ port.up /\ ~stale /\ Whole(Wire) /\ (\A d \in Conns : cut[d] = {})
      /\ Wire /= <<>> => NewLine(Wire[Len(Wire)])
      /\ IsOpen(serial) /\ (serial.tbuf = <<>> \/ cmdTimer > 0)
  BY <1>2 DEF QuietInv, LinesWhole, Whole
<1>4. /\ end \in Nat /\ end <= Len(q) /\ Len(line) = end
      /\ end > 0 => cmdTimer = 0 /\ end = LineEnd(q)
      /\ serial' = [serial EXCEPT !.tbuf = @ \o First(line, n)]
      /\ cmdTimer' = (IF end > 0 THEN Pace ELSE cmdTimer)
      /\ cut' = [cut EXCEPT ![slots[turn].conn] = @ \cup {b[2] : b \in ElementsOf(Rest(line, n))}]
      /\ line \in BytesOf(slots[turn].conn) /\ turn \in 1 .. Len(slots)
  BY <1>1, ServeEffect
<1>5. /\ serial \in [state : States, rbuf : Positions, tbuf : Seq(P)] /\ cut \in [Conns -> SUBSET Nat]
      /\ slots[turn] \in Slot /\ slots[turn].conn \in Conns
  BY <1>4, PartsOK DEF TypeInv, BuffersOK, GhostsOK
<1>6. q \in Seq(P) /\ line \in Seq(P)
  BY <1>4, <1>5, BufferedOK, BytesOK
<1>7. end > 0 => end <= LineLen
  <2>1. LineEnd(q) <= LineLen
    <3> HIDE DEF q
    <3> QED BY <1>1, <1>6, LineFits
  <2> QED BY <1>4, <2>1
<1>8. n = end
  <2>1. n = Fitting(serial.tbuf, Cap, line)
    BY <1>1, <1>3 DEF Queued
  <2> DEFINE e == end
             l == line
             t == serial.tbuf
  <2>2. /\ e \in Nat /\ Len(l) = e /\ n = Lesser(e, Cap - Len(t)) /\ t \in Seq(P)
        /\ Len(t) \in Nat /\ Len(t) <= Cap /\ Cap \in Nat
        /\ e > 0 => e <= LineLen /\ t = <<>>
        /\ LineLen <= Cap /\ LineLen \in Nat
    <3>1. n = Lesser(Len(l), Cap - Len(t))
      BY <2>1 DEF Fitting
    <3>2. t \in Seq(P) /\ Len(t) <= Cap /\ Cap \in Nat /\ LineLen \in Nat /\ LineLen <= Cap
      BY <1>5, CapOK DEF TypeInv, BuffersOK, QuietPort
    <3>3. e \in Nat /\ Len(l) = e /\ (e > 0 => e <= LineLen)
      BY <1>4, <1>7
    <3>4. e > 0 => t = <<>>
      <4>1. e > 0 => cmdTimer = 0
        BY <1>4
      <4>2. cmdTimer = 0 => t = <<>>
        BY <1>3
      <4> HIDE DEF e, t
      <4> QED BY <4>1, <4>2
    <3> HIDE DEF e, l, t, P
    <3>5. Len(t) \in Nat
      BY <3>2
    <3> QED BY <3>1, <3>2, <3>3, <3>4, <3>5
  <2> HIDE DEF e, l, t
  <2>3. n = e
    <3>1. CASE e = 0
      BY <2>2, <3>1 DEF Lesser
    <3>2. CASE e > 0
      <4>1. Len(t) = 0 /\ e <= Cap
        BY <2>2, <3>2
      <4> QED BY <2>2, <4>1 DEF Lesser
    <3> QED BY <2>2, <3>1, <3>2
  <2> QED BY <2>3 DEF e
<1>9. \A d \in Conns : cut'[d] = {}
  <2>1. Rest(line, n) = <<>>
    <3>1. n = Len(line) /\ line \in Seq(P)
      BY <1>4, <1>6, <1>8
    <3> HIDE DEF line, P
    <3> QED BY <3>1, RestOfAll
  <2>2. {b[2] : b \in ElementsOf(Rest(line, n))} = {}
    BY <2>1, NoneOK
  <2> DEFINE A == {b[2] : b \in ElementsOf(Rest(line, n))}
  <2>3. A = {} /\ cut' = [cut EXCEPT ![slots[turn].conn] = @ \cup A]
    BY <1>4, <2>2
  <2> HIDE DEF A
  <2> QED BY <1>3, <1>5, <2>3
<1>10. serial'.state = serial.state /\ serial'.tbuf = serial.tbuf \o First(line, n)
  BY <1>4, <1>5
<1>11. IsOpen(serial') /\ serial'.state /= "closed"
  BY <1>3, <1>10 DEF IsOpen
<1>12. Pace > 0
  BY DEF QuietPort
<1>13. LinesWhole' <=> Whole(Wire')
  BY DEF LinesWhole, Whole
<1>14. CASE end = 0
  <2>1. f = <<>> /\ Len(First(line, n)) = 0 /\ First(line, n) \in Seq(P)
    <3>1. f = <<>>
      BY <1>1, <1>8, <1>14 DEF IsRun
    <3>2. line = <<>>
      BY <1>4, <1>6, <1>14
    <3>3. n = 0
      BY <1>8, <1>14
    <3> HIDE DEF line, end, P
    <3> QED BY <1>6, <3>1, <3>2, <3>3, FirstOK DEF Lesser
  <2>2. Wire' = Wire
    BY <1>1, <2>1, WireOK
  <2>3. serial'.tbuf = serial.tbuf
    <3> DEFINE h == First(line, n)
    <3>1. h = <<>>
      BY <2>1
    <3> HIDE DEF h
    <3> QED BY <1>5, <1>10, <3>1 DEF h
  <2>4. cmdTimer' = cmdTimer
    BY <1>4, <1>14
  <2> QED BY <1>2, <1>3, <1>9, <1>11, <1>13, <2>2, <2>3, <2>4 DEF QuietInv
<1>15. CASE end > 0
  <2>1. NewLine(f[n])
    <3>1. q \in Seq(P) /\ end = LineEnd(q) /\ end \in 1 .. Len(q)
      BY <1>4, <1>6, <1>15
    <3>2. NewLine(q[end])
      <4> HIDE DEF q, end, P
      <4> QED BY <1>15, <3>1, LineEndOK
    <3>3. q[end] = <<c, m + end>>
      <4> HIDE DEF q, end
      <4> QED BY <1>1, <3>1 DEF IsRun
    <3>4. f[end] = <<c, m + end>>
      <4> HIDE DEF end
      <4>1. end \in 1 .. n
        BY <1>8, <1>15
      <4> QED BY <1>1, <4>1 DEF IsRun
    <3> QED BY <1>8, <3>2, <3>3, <3>4
  <2>2. n \in Nat \ {0}
    BY <1>8, <1>15
  <2>3. Whole(Wire') /\ NewLine(Wire'[Len(Wire')])
    <3>1. Wire \in Seq(Conns \X Nat) /\ f \in Seq(Conns \X Nat)
      BY <1>1, WireOK
    <3>2. Whole(Wire \o f) /\ NewLine((Wire \o f)[Len(Wire \o f)])
      <4> HIDE DEF P, q, line, end
      <4> QED BY <1>1, <1>3, <2>1, <2>2, <3>1, WholeConcat
    <3> QED BY <1>1, <3>2
  <2>4. cmdTimer' > 0
    BY <1>4, <1>12, <1>15
  <2> QED BY <1>2, <1>3, <1>9, <1>11, <1>13, <2>3, <2>4 DEF QuietInv
<1> QED BY <1>4, <1>14, <1>15

(* While no client leaves and the serial device stays, a step cuts no      *)
(* line.                                                                   *)
LEMMA QuietNext ==
  ASSUME TypeInv, UpInv, QuietInv, [Next]_vars
  PROVE  QuietInv'
<1>1. CASE Next
  BY <1>1, NextCases, QuietPoll, QuietHandle, QuietServe, QuietRest
<1>2. CASE UNCHANGED vars
  BY <1>2, QuietRest
<1> QED BY <1>1, <1>2

(* With a tty that takes its output, a thread that is not preempted inside *)
(* hdmi2usb_process and lines that fit in the transmit buffer: as long as  *)
(* neither a client nor the tty leaves, no byte is dropped once it was     *)
(* read, and lines arrive whole.                                           *)
THEOREM NothingCutCorrect == Spec => [](QuietPort => NothingCut)
<1> DEFINE Inv == TypeInv /\ ReadersOpen /\ UpInv /\ QuietInv
<1>1. ASSUME Init PROVE QuietInv
  <2>1. /\ port.up /\ ~stale /\ phase = "poll" /\ serial.tbuf = <<>> /\ heard = <<>>
        /\ cut = [c \in Conns |-> {}]
    BY <1>1 DEF Init
  <2>2. Wire = <<>>
    BY <2>1 DEF Wire
  <2>3. LinesWhole
    BY <2>2 DEF LinesWhole
  <2> QED BY <2>1, <2>2, <2>3 DEF QuietInv
<1>2. Init => Inv
  BY <1>1, TypeInit, UpInit
<1>3. Inv /\ [Next]_vars => Inv'
  BY TypeNext, ReadersNext, UpNext, QuietNext
<1>4. Inv => (QuietPort => NothingCut)
  BY DEF QuietInv, NothingCut
<1> HIDE DEF Inv
<1> QED BY <1>2, <1>3, <1>4, PTL DEF Spec
=============================================================================
