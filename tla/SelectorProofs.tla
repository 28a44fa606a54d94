--------------------------- MODULE SelectorProofs ---------------------------
(***************************************************************************)
(* Proofs about Selector, for every number of descriptors and connections  *)
(* and every growth of the array: the devices and the descriptors they     *)
(* hold stay in step, the serial device and the listener stay where they   *)
(* are, and until the tty hangs up every handler runs for an event of the  *)
(* file its device holds.                                                  *)
(***************************************************************************)
EXTENDS Selector, QueueProofs, FiniteSetTheorems, TLAPS

(* What a descriptor may be of.                                            *)
Names == Conns \cup {"tty", "listener"}

(* What an element of the array is.                                        *)
Device == [kind : Kinds, state : States, fd : Fds \cup {-1}]

(* An accepted device is never new or closed, so set_masks never reopens   *)
(* it.                                                                     *)
DevicesOK ==
  /\ devs \in Seq(Device) /\ Len(devs) >= 2
  /\ \A i \in Indices : devs[i].kind = "client" => devs[i].state \in {"connected", "inactive"}

FilesOK == /\ file \in [Fds -> Names \cup {"none"}]
           /\ backlog \in Seq(Conns)

(* Every tty, listener and connection is in one place only.                *)
Alone == /\ \A f, g \in Fds : file[f] = file[g] /\ file[f] /= "none" => f = g
         /\ \A i, j \in 1 .. Len(backlog) : backlog[i] = backlog[j] => i = j
         /\ \A i \in 1 .. Len(backlog), f \in Fds : file[f] /= backlog[i]

DevInv == DevicesOK /\ FilesOK /\ Alone /\ DescriptorsHeld /\ SerialFirst

(* The rest of the type invariant.                                         *)
LoopInv == /\ alloced \in Nat /\ alloced > Len(devs) /\ alloced % Chunk = 0
           /\ pc \in {"enter", "ioset", "dispatch", "outside", "exit"}
           /\ at \in Nat \ {0} /\ rdy \in Int /\ highest \in Nat /\ active \in Nat
           /\ rset \subseteq Fds /\ wset \subseteq Fds /\ xset \subseteq Fds
           /\ out \subseteq Indices

(* Until the tty hangs up: a place that is still to be looked at has its   *)
(* bit for what select reported of the file the device still holds, and    *)
(* what made that file ready is still true.  No descriptor with a bit is   *)
(* closed before the listener has accepted.                                *)
EventOK(p) == /\ <<Held(devs[DevAt(p)]), PartAt(p)>> \in reported
              /\ PartAt(p) = "r" /\ DevAt(p) = 1 => tty.data
              /\ PartAt(p) = "r" /\ DevAt(p) > 2 => Held(devs[DevAt(p)]) \in input \cup ended
              /\ PartAt(p) = "x" => Held(devs[DevAt(p)]) \in urgent
EventsOK == Calm /\ pc = "dispatch" =>
              /\ \A p \in at .. 3 * Len(devs) : devs[DevAt(p)].fd \in Set(PartAt(p)) => EventOK(p)
              /\ at <= 4 => \A f \in rset \cup wset \cup xset : file[f] /= "none"
CalmInv == /\ Calm => ~tty.hung
           /\ tty \in [data : BOOLEAN, hung : BOOLEAN, hangs : Nat] /\ urgent \subseteq Conns
           /\ EventsOK

------------------------------------------------------------------------------
(* The helpers.                                                            *)

(* What a device that is not open does not hold; what one that is open     *)
(* holds.                                                                  *)
LEMMA HeldOK ==
  ASSUME DevInv, NEW i \in Indices
  PROVE  /\ devs[i] \in Device
         /\ i \in Nat \ {0} /\ i <= Len(devs)
         /\ devs[i].fd \in Fds <=> IsOpen(devs[i])
         /\ devs[i].fd \in Fds => Held(devs[i]) = file[devs[i].fd]
         /\ devs[i].fd \in Fds => file[devs[i].fd] /= "none"
<1>1. devs[i] \in Device
  BY ElementOfSeq DEF DevInv, DevicesOK, Indices
<1>2. -1 \notin Fds /\ "none" \notin Conns
  BY SelectorAssumption
<1>3. devs[i].fd \in Fds <=> IsOpen(devs[i])
  BY <1>1, <1>2 DEF DevInv, DescriptorsHeld, Device
<1>4. devs[i].fd \in Fds => Held(devs[i]) = file[devs[i].fd]
  BY <1>2 DEF Held
<1>5. ASSUME devs[i].fd \in Fds PROVE Held(devs[i]) /= "none"
  <2>1. IsOpen(devs[i]) /\ devs[i].kind \in {"serial", "listen", "client"}
    BY <1>1, <1>3, <1>5 DEF Kinds, Device
  <2>2. CASE devs[i].kind = "serial"
    BY <2>1, <2>2 DEF DevInv, DescriptorsHeld
  <2>3. CASE devs[i].kind = "listen"
    BY <2>1, <2>3 DEF DevInv, DescriptorsHeld
  <2>4. CASE devs[i].kind = "client"
    BY <1>2, <2>1, <2>4 DEF DevInv, DescriptorsHeld
  <2> QED BY <2>1, <2>2, <2>3, <2>4
<1> QED BY <1>1, <1>3, <1>4, <1>5 DEF DevInv, DevicesOK, Indices

(* As long as one of the files that could be open is not, there is a free  *)
(* descriptor: the sockets and the tty are no more than the descriptors.   *)
LEMMA FreeOK ==
  ASSUME DevInv, NEW what \in Names, \A f \in Fds : file[f] /= what
  PROVE  Free \in Fds /\ file[Free] = "none"
<1>1. /\ Fds \subseteq Nat /\ IsFiniteSet(Fds) /\ IsFiniteSet(Conns)
      /\ Cardinality(Conns) + 2 <= Cardinality(Fds)
  BY SelectorAssumption
<1>2. Cardinality(Conns) \in Nat /\ Cardinality(Fds) \in Nat
  BY <1>1, FS_CardinalityType
<1>3. IsFiniteSet(Names) /\ Cardinality(Names) <= Cardinality(Conns) + 2
  <2>1. /\ IsFiniteSet(Conns \cup {"tty"})
        /\ Cardinality(Conns \cup {"tty"}) = IF "tty" \in Conns THEN Cardinality(Conns)
                                             ELSE Cardinality(Conns) + 1
    BY <1>1, FS_AddElement
  <2>2. /\ IsFiniteSet((Conns \cup {"tty"}) \cup {"listener"})
        /\ Cardinality((Conns \cup {"tty"}) \cup {"listener"})
             = IF "listener" \in Conns \cup {"tty"} THEN Cardinality(Conns \cup {"tty"})
               ELSE Cardinality(Conns \cup {"tty"}) + 1
    BY <2>1, FS_AddElement
  <2>3. Names = (Conns \cup {"tty"}) \cup {"listener"}
    BY DEF Names
  <2> QED BY <1>2, <2>1, <2>2, <2>3
<1>4. IsFiniteSet(Names \ {what}) /\ Cardinality(Names \ {what}) = Cardinality(Names) - 1
  BY <1>3, FS_RemoveElement
<1>5. Cardinality(Names \ {what}) < Cardinality(Fds)
  <2>1. Cardinality(Names) \in Nat
    BY <1>3, FS_CardinalityType
  <2> QED BY <1>1, <1>2, <1>3, <1>4, <2>1
<1>6. Closed /= {}
  <2> SUFFICES ASSUME Closed = {} PROVE FALSE
    OBVIOUS
  <2>1. file \in [Fds -> Names \ {what}]
    BY DEF Closed, DevInv, FilesOK
  <2>2. \E f, g \in Fds : f # g /\ file[f] = file[g]
    <3> DEFINE T == Names \ {what}
    <3>1. IsFiniteSet(Fds) /\ IsFiniteSet(T) /\ Cardinality(T) < Cardinality(Fds)
      BY <1>1, <1>4, <1>5
    <3>2. file \in [Fds -> T]
      BY <2>1
    <3> HIDE DEF T
    <3> QED BY <3>1, <3>2, FS_PigeonHole
  <2> QED BY <2>2 DEF Closed, DevInv, Alone
<1>7. \E f \in Closed : \A g \in Closed : f <= g
  <2>1. Closed \in SUBSET Nat
    BY <1>1 DEF Closed
  <2> QED BY <1>6, <2>1, LeastNumber
<1>8. \E f \in Fds : file[f] = "none" /\ \A g \in Fds : file[g] = "none" => f <= g
  BY <1>7 DEF Closed
<1> QED BY <1>8 DEF Free

(* A device that is dispatched.                                            *)
LEMMA PlaceOK ==
  ASSUME DevInv, LoopInv, Coming /= {}
  PROVE  /\ Place \in Coming /\ Place \in Nat \ {0} /\ Place >= at /\ Place <= 3 * Len(devs)
         /\ Dev \in Indices /\ Dev \in Nat /\ devs[Dev].fd \in Set(PartAt(Place))
         /\ IsOpen(devs[Dev]) /\ devs[Dev].fd \in Fds
<1>1. at \in Nat /\ at > 0 /\ Len(devs) \in Nat
  BY DEF DevInv, DevicesOK, LoopInv
<1>2. Coming \in SUBSET Nat
  BY <1>1 DEF Coming
<1>3. \E p \in Coming : \A q \in Coming : p <= q
  BY <1>2, LeastNumber
<1>4. Place \in Coming
  BY <1>3 DEF Place
<1>5. /\ Place \in at .. 3 * Len(devs) /\ devs[Dev].fd \in Set(PartAt(Place))
  BY <1>4 DEF Coming, Dev
<1>6. Dev \in 1 .. Len(devs)
  BY <1>1, <1>5 DEF Dev, DevAt
<1>7. Dev \in Indices
  BY <1>6 DEF DevInv, DevicesOK, Indices
<1>8. PartAt(Place) \in {"r", "w", "x"}
  <2>1. Place - 3 * DevAt(Place) + 3 \in 1 .. 3
    BY <1>1, <1>5 DEF DevAt
  <2> QED BY <2>1 DEF PartAt
<1>9. devs[Dev].fd \in Fds
  BY <1>5, <1>8 DEF Set, LoopInv
<1> QED BY <1>1, <1>4, <1>5, <1>6, <1>7, <1>9, HeldOK

------------------------------------------------------------------------------
(* The ways in which devices and descriptors change.                       *)

(* The file that a device of a kind holds when it is open.                 *)
Fits(kind, what) == \/ kind = "serial" /\ what = "tty"
                    \/ kind = "listen" /\ what = "listener"
                    \/ kind = "client" /\ what \in Conns

(* Every open device holds a file of its own kind.                         *)
LEMMA OwnFile ==
  ASSUME DevInv, NEW i \in Indices, devs[i].fd \in Fds
  PROVE  Fits(devs[i].kind, file[devs[i].fd])
<1>1. IsOpen(devs[i]) /\ Held(devs[i]) = file[devs[i].fd]
  BY HeldOK
<1>2. devs[i].kind \in {"serial", "listen", "client"}
  BY HeldOK DEF Device, Kinds
<1>3. CASE devs[i].kind = "serial"
  BY <1>1, <1>3 DEF DevInv, DescriptorsHeld, Fits
<1>4. CASE devs[i].kind = "listen"
  BY <1>1, <1>4 DEF DevInv, DescriptorsHeld, Fits
<1>5. CASE devs[i].kind = "client"
  BY <1>1, <1>5 DEF DevInv, DescriptorsHeld, Fits
<1> QED BY <1>2, <1>3, <1>4, <1>5

(* Which device is of which kind.                                          *)
LEMMA KindOK ==
  ASSUME DevInv, NEW i \in Indices
  PROVE  /\ devs[i].kind = "serial" <=> i = 1
         /\ devs[i].kind = "listen" <=> i = 2
         /\ devs[i].kind = "client" <=> i > 2
         /\ 1 \in Indices /\ 2 \in Indices
<1>1. i \in Nat /\ i > 0 /\ 1 \in Indices /\ 2 \in Indices
  BY DEF DevInv, DevicesOK, Indices
<1>2. CASE i = 1
  BY <1>1, <1>2 DEF DevInv, SerialFirst
<1>3. CASE i = 2
  BY <1>1, <1>3 DEF DevInv, SerialFirst
<1>4. CASE i > 2
  BY <1>1, <1>4 DEF DevInv, SerialFirst
<1> QED BY <1>1, <1>2, <1>3, <1>4

(* The four parts of DescriptorsHeld and SerialFirst, in terms of Fits.    *)
LEMMA HeldNext ==
  ASSUME devs' \in Seq(Device),
         \A i \in Indices' : IsOpen(devs'[i]) <=> devs'[i].fd \in Fds,
         \A i \in Indices' : devs'[i].fd \in Fds => Fits(devs'[i].kind, file'[devs'[i].fd]),
         \A i, j \in Indices' : devs'[i].fd = devs'[j].fd /\ devs'[i].fd \in Fds => i = j,
         \A f \in Fds : file'[f] /= "none" => \E i \in Indices' : devs'[i].fd = f
  PROVE  DescriptorsHeld'
<1>1. -1 \notin Fds /\ "tty" \notin Conns /\ "listener" \notin Conns
  BY SelectorAssumption
<1>2. \A i \in Indices' : devs'[i] \in Device
  BY ElementOfSeq DEF Indices
<1>3. \A i \in Indices' : devs'[i].fd \in Fds <=> devs'[i].fd /= -1
  BY <1>1, <1>2 DEF Device
<1>4. ASSUME NEW i \in Indices', IsOpen(devs'[i])
      PROVE  /\ devs'[i].kind = "serial" => Held(devs[i])' = "tty"
             /\ devs'[i].kind = "listen" => Held(devs[i])' = "listener"
             /\ devs'[i].kind = "client" => Held(devs[i])' \in Conns
             /\ devs'[i].kind \in {"serial", "listen", "client"}
  <2>1. devs'[i].fd \in Fds /\ Held(devs[i])' = file'[devs'[i].fd]
    BY <1>3, <1>4 DEF Held
  <2>2. Fits(devs'[i].kind, file'[devs'[i].fd])
    BY <2>1
  <2> QED BY <2>1, <2>2 DEF Fits
<1>5. ASSUME NEW i \in Indices', IsOpen(devs'[i])
      PROVE  (CASE devs[i].kind = "serial" -> Held(devs[i]) = "tty"
                [] devs[i].kind = "listen" -> Held(devs[i]) = "listener"
                [] devs[i].kind = "client" -> Held(devs[i]) \in Conns)'
  BY <1>4, <1>5
<1>6. \A i \in Indices' : IsOpen(devs[i])' =>
        (CASE devs[i].kind = "serial" -> Held(devs[i]) = "tty"
           [] devs[i].kind = "listen" -> Held(devs[i]) = "listener"
           [] devs[i].kind = "client" -> Held(devs[i]) \in Conns)'
  BY <1>5 DEF IsOpen
<1>7. \A i \in Indices' : IsOpen(devs[i])' <=> devs'[i].fd /= -1
  BY <1>3 DEF IsOpen
<1>8. \A i, j \in Indices' : devs'[i].fd = devs'[j].fd /\ devs'[i].fd /= -1 => i = j
  BY <1>3
<1> QED BY <1>6, <1>7, <1>8 DEF DescriptorsHeld

(* A device that is added is a client, after the serial device and the     *)
(* listener.                                                               *)
LEMMA KindNext ==
  ASSUME DevInv, NEW i \in Indices',
         \A j \in Indices' \ {i} : j \in Indices /\ devs'[j].kind = devs[j].kind,
         (i \in Indices /\ devs'[i].kind = devs[i].kind) \/ (i > 2 /\ devs'[i].kind = "client")
  PROVE  SerialFirst'
<1> SUFFICES ASSUME NEW j \in Indices'
             PROVE  (devs[j].kind = (CASE j = 1 -> "serial" [] j = 2 -> "listen"
                                       [] OTHER -> "client"))'
  BY DEF SerialFirst
<1>1. CASE j \in Indices /\ devs'[j].kind = devs[j].kind
  BY <1>1 DEF DevInv, SerialFirst
<1>2. CASE j = i /\ i > 2 /\ devs'[i].kind = "client"
  BY <1>2
<1> QED BY <1>1, <1>2

(* A device, an old one that is not open or a new client, is given a free  *)
(* descriptor for a file that is not open.                                 *)
LEMMA OpenedOK ==
  ASSUME DevInv, NEW i, NEW f \in Fds, file[f] = "none",
         NEW what \in Names, \A g \in Fds : file[g] /= what,
         devs' \in Seq(Device), Indices' = Indices \cup {i},
         \A j \in Indices \ {i} : devs'[j] = devs[j],
         devs'[i].fd = f, devs'[i].state = "connected", Fits(devs'[i].kind, what),
         \/ i \in Indices /\ ~IsOpen(devs[i]) /\ devs'[i].kind = devs[i].kind
         \/ i \notin Indices /\ i > 2 /\ devs'[i].kind = "client",
         file' = [file EXCEPT ![f] = what]
  PROVE  /\ DevicesOK' /\ DescriptorsHeld' /\ SerialFirst'
         /\ file' \in [Fds -> Names \cup {"none"}]
         /\ \A g \in Fds : file'[g] = IF g = f THEN what ELSE file[g]
         /\ \A g, h \in Fds : file'[g] = file'[h] /\ file'[g] /= "none" => g = h
<1>1. /\ file' \in [Fds -> Names \cup {"none"}]
      /\ \A g \in Fds : file'[g] = IF g = f THEN what ELSE file[g]
  BY DEF DevInv, FilesOK
<1>2. \A g, h \in Fds : file'[g] = file'[h] /\ file'[g] /= "none" => g = h
  BY <1>1 DEF DevInv, Alone
<1>3. \A j \in Indices : j /= i => devs[j].fd /= f
  <2>1. \A j \in Indices : devs[j].fd \in Fds => file[devs[j].fd] /= "none"
    BY HeldOK
  <2> QED BY <2>1
<1>4. what /= "none"
  BY SelectorAssumption DEF Names
<1>5. DescriptorsHeld'
  <2>1. \A j \in Indices' : IsOpen(devs'[j]) <=> devs'[j].fd \in Fds
    <3> TAKE j \in Indices'
    <3>1. CASE j = i
      BY <3>1 DEF IsOpen
    <3>2. CASE j /= i
      BY <3>2, HeldOK
    <3> QED BY <3>1, <3>2
  <2>2. \A j \in Indices' : devs'[j].fd \in Fds => Fits(devs'[j].kind, file'[devs'[j].fd])
    <3> SUFFICES ASSUME NEW j \in Indices', devs'[j].fd \in Fds
                 PROVE  Fits(devs'[j].kind, file'[devs'[j].fd])
      OBVIOUS
    <3>1. CASE j = i
      BY <1>1, <3>1
    <3>2. CASE j /= i
      <4>1. j \in Indices /\ devs'[j] = devs[j] /\ devs[j].fd /= f /\ devs[j].fd \in Fds
        BY <1>3, <3>2
      <4> QED BY <1>1, <4>1, OwnFile
    <3> QED BY <3>1, <3>2
  <2>3. \A j, k \in Indices' : devs'[j].fd = devs'[k].fd /\ devs'[j].fd \in Fds => j = k
    <3>1. \A j, k \in Indices : devs[j].fd = devs[k].fd /\ devs[j].fd \in Fds => j = k
      BY SelectorAssumption DEF DevInv, DescriptorsHeld
    <3> QED BY <1>3, <3>1
  <2>4. \A g \in Fds : file'[g] /= "none" => \E j \in Indices' : devs'[j].fd = g
    <3> SUFFICES ASSUME NEW g \in Fds, file'[g] /= "none" PROVE \E j \in Indices' : devs'[j].fd = g
      OBVIOUS
    <3>1. CASE g = f
      BY <3>1
    <3>2. CASE g /= f
      <4>1. PICK j \in Indices : devs[j].fd = g
        BY <1>1, <3>2 DEF DevInv, DescriptorsHeld
      <4>2. j /= i
        BY <4>1, HeldOK, <1>1, <3>2
      <4> QED BY <4>1, <4>2
    <3> QED BY <3>1, <3>2
  <2> QED BY <2>1, <2>2, <2>3, <2>4, HeldNext
<1>6. SerialFirst'
  <2>1. \A j \in Indices' \ {i} : j \in Indices /\ devs'[j].kind = devs[j].kind
    OBVIOUS
  <2>2. i \in Indices' /\ ((i \in Indices /\ devs'[i].kind = devs[i].kind) \/ (i > 2 /\ devs'[i].kind = "client"))
    OBVIOUS
  <2> QED BY <2>1, <2>2, KindNext
<1>7. DevicesOK'
  <2>1. Len(devs') >= 2
    <3>1. 1 \in Indices' /\ 2 \in Indices'
      BY DEF DevInv, DevicesOK, Indices
    <3> QED BY <3>1 DEF Indices
  <2>2. \A j \in Indices' : devs'[j].kind = "client" => devs'[j].state \in {"connected", "inactive"}
    BY DEF DevInv, DevicesOK
  <2> QED BY <2>1, <2>2 DEF DevicesOK
<1> QED BY <1>1, <1>2, <1>5, <1>6, <1>7

(* A device is closed: what holds before holds after, for the clients with *)
(* a place less.                                                           *)
LEMMA ClosedOK ==
  ASSUME DevInv, NEW i \in Indices, devs[i].fd \in Fds, Close(i)
  PROVE  /\ DevicesOK' /\ DescriptorsHeld' /\ SerialFirst' /\ Indices' = Indices /\ Len(devs') = Len(devs)
         /\ devs'[i].fd = -1 /\ devs'[i].kind = devs[i].kind
         /\ \A j \in Indices \ {i} : devs'[j] = devs[j]
         /\ file' \in [Fds -> Names \cup {"none"}]
         /\ \A g \in Fds : file'[g] = IF g = devs[i].fd THEN "none" ELSE file[g]
         /\ \A g, h \in Fds : file'[g] = file'[h] /\ file'[g] /= "none" => g = h
<1> DEFINE state == IF devs[i].kind = "client" THEN "inactive" ELSE "closed"
<1>1. devs \in Seq(Device) /\ devs[i] \in Device /\ i \in Indices
  BY HeldOK DEF DevInv, DevicesOK
<1>2. devs' = [devs EXCEPT ![i].fd = -1, ![i].state = state]
  BY DEF Close
<1>3. state \in States
  BY DEF States
<1>4. [devs[i] EXCEPT !.fd = -1, !.state = state] \in Device
  BY <1>1, <1>3 DEF Device
<1>5. devs' = [devs EXCEPT ![i] = [devs[i] EXCEPT !.fd = -1, !.state = state]]
  BY <1>1, <1>2 DEF Indices
<1>6. devs' \in Seq(Device) /\ Len(devs') = Len(devs) /\ Indices' = Indices
  BY <1>1, <1>4, <1>5, ExceptSeq DEF Indices
<1>7. /\ \A j \in Indices \ {i} : devs'[j] = devs[j]
      /\ devs'[i] = [devs[i] EXCEPT !.fd = -1, !.state = state]
  BY <1>1, <1>5 DEF Indices
<1>8. devs'[i].fd = -1 /\ devs'[i].kind = devs[i].kind /\ devs'[i].state = state
  BY <1>1, <1>7 DEF Device
<1>9. /\ file' \in [Fds -> Names \cup {"none"}]
      /\ \A g \in Fds : file'[g] = IF g = devs[i].fd THEN "none" ELSE file[g]
  BY DEF DevInv, FilesOK, Close
<1>10. \A g, h \in Fds : file'[g] = file'[h] /\ file'[g] /= "none" => g = h
  BY <1>9 DEF DevInv, Alone
<1>11. -1 \notin Fds
  BY SelectorAssumption
<1>12. \A j, k \in Indices : devs[j].fd = devs[k].fd /\ devs[j].fd \in Fds => j = k
  BY SelectorAssumption DEF DevInv, DescriptorsHeld
<1>13. DescriptorsHeld'
  <2>1. \A j \in Indices' : IsOpen(devs'[j]) <=> devs'[j].fd \in Fds
    <3> TAKE j \in Indices'
    <3>1. CASE j = i
      BY <1>8, <1>11, <3>1 DEF IsOpen
    <3>2. CASE j /= i
      BY <1>6, <1>7, <3>2, HeldOK
    <3> QED BY <3>1, <3>2
  <2>2. \A j \in Indices' : devs'[j].fd \in Fds => Fits(devs'[j].kind, file'[devs'[j].fd])
    <3> SUFFICES ASSUME NEW j \in Indices', devs'[j].fd \in Fds
                 PROVE  Fits(devs'[j].kind, file'[devs'[j].fd])
      OBVIOUS
    <3>1. j \in Indices /\ j /= i /\ devs'[j] = devs[j] /\ devs[j].fd \in Fds
      BY <1>6, <1>7, <1>8, <1>11
    <3>2. devs[j].fd /= devs[i].fd
      BY <1>12, <3>1
    <3> QED BY <1>9, <3>1, <3>2, OwnFile
  <2>3. \A j, k \in Indices' : devs'[j].fd = devs'[k].fd /\ devs'[j].fd \in Fds => j = k
    <3> SUFFICES ASSUME NEW j \in Indices', NEW k \in Indices',
                        devs'[j].fd = devs'[k].fd, devs'[j].fd \in Fds
                 PROVE  j = k
      OBVIOUS
    <3>1. j /= i /\ k /= i /\ j \in Indices /\ k \in Indices
      BY <1>6, <1>8, <1>11
    <3>2. devs'[j] = devs[j] /\ devs'[k] = devs[k]
      BY <1>7, <3>1
    <3> QED BY <1>12, <3>1, <3>2
  <2>4. \A g \in Fds : file'[g] /= "none" => \E j \in Indices' : devs'[j].fd = g
    <3> SUFFICES ASSUME NEW g \in Fds, file'[g] /= "none" PROVE \E j \in Indices' : devs'[j].fd = g
      OBVIOUS
    <3>1. g /= devs[i].fd /\ file[g] /= "none"
      BY <1>9
    <3>2. PICK j \in Indices : devs[j].fd = g
      BY <3>1 DEF DevInv, DescriptorsHeld
    <3> QED BY <1>6, <1>7, <3>1, <3>2
  <2> QED BY <1>6, <2>1, <2>2, <2>3, <2>4, HeldNext
<1>14. SerialFirst'
  <2>1. \A j \in Indices' \ {i} : j \in Indices /\ devs'[j].kind = devs[j].kind
    BY <1>6, <1>7
  <2>2. i \in Indices' /\ ((i \in Indices /\ devs'[i].kind = devs[i].kind) \/ (i > 2 /\ devs'[i].kind = "client"))
    BY <1>6, <1>8
  <2> QED BY <2>1, <2>2, KindNext
<1>15. DevicesOK'
  BY <1>6, <1>7, <1>8 DEF DevInv, DevicesOK
<1> QED BY <1>6, <1>7, <1>8, <1>9, <1>10, <1>13, <1>14, <1>15

------------------------------------------------------------------------------
(* The devices and their descriptors: DevInv is kept by every step.        *)

(* The devices before the first pass.                                      *)
LEMMA DevInit == Init => DevInv
<1> SUFFICES ASSUME Init PROVE DevInv
  OBVIOUS
<1>1. devs = <<NewSerial, NewListen>> /\ file = [f \in Fds |-> "none"] /\ backlog = <<>>
  BY DEF Init
<1>2. NewSerial \in Device /\ NewListen \in Device
  BY DEF NewSerial, NewListen, Device, Kinds, States
<1>3. devs \in Seq(Device) /\ Len(devs) = 2 /\ Indices = {1, 2}
  <2> HIDE DEF NewSerial, NewListen, Device
  <2> QED BY <1>1, <1>2 DEF Indices
<1>4. devs[1] = NewSerial /\ devs[2] = NewListen
  BY <1>1
<1>5. DevicesOK
  BY <1>3, <1>4 DEF DevicesOK, NewSerial, NewListen
<1>6. FilesOK /\ Alone
  BY <1>1 DEF FilesOK, Alone
<1>7. DescriptorsHeld
  <2>1. \A i \in Indices : ~IsOpen(devs[i]) /\ devs[i].fd = -1
    BY <1>3, <1>4 DEF NewSerial, NewListen, IsOpen
  <2>2. \A f \in Fds : file[f] = "none"
    BY <1>1
  <2> QED BY <2>1, <2>2 DEF DescriptorsHeld
<1>8. SerialFirst
  BY <1>3, <1>4 DEF SerialFirst, NewSerial, NewListen
<1> QED BY <1>5, <1>6, <1>7, <1>8 DEF DevInv

(* A step that touches no descriptor.                                      *)
LEMMA DevSame ==
  ASSUME DevInv, UNCHANGED <<devs, file, backlog>>
  PROVE  DevInv'
<1>1. DevicesOK' /\ FilesOK' /\ Alone' /\ SerialFirst'
  BY DEF DevInv, DevicesOK, FilesOK, Alone, SerialFirst, Indices
<1>2. DescriptorsHeld'
  BY DEF DevInv, DescriptorsHeld, Indices, IsOpen, Held
<1> QED BY <1>1, <1>2 DEF DevInv

(* A new connection is not known yet.                                      *)
LEMMA DevConnect ==
  ASSUME DevInv, NEW c \in Conns, Connect(c)
  PROVE  DevInv'
<1>1. backlog' = Append(backlog, c) /\ UNCHANGED <<devs, file>>
  BY DEF Connect, World
<1>2. backlog \in Seq(Conns) /\ backlog' \in Seq(Conns) /\ Len(backlog') = Len(backlog) + 1
  BY <1>1 DEF DevInv, FilesOK
<1>3. \A i \in 1 .. Len(backlog) + 1 : backlog'[i] = IF i = Len(backlog) + 1 THEN c ELSE backlog[i]
  BY <1>1, <1>2
<1>4. /\ \A i \in 1 .. Len(backlog) : backlog[i] /= c
      /\ \A f \in Fds : file[f] /= c
  BY <1>2 DEF Connect, Known
<1>5. Alone'
  BY <1>1, <1>2, <1>3, <1>4 DEF DevInv, Alone
<1>6. DevicesOK' /\ DescriptorsHeld' /\ SerialFirst'
  BY <1>1 DEF DevInv, DevicesOK, DescriptorsHeld, SerialFirst, Indices, IsOpen, Held
<1> QED BY <1>1, <1>2, <1>5, <1>6 DEF DevInv, FilesOK

(* A close leaves the backlog alone.                                       *)
LEMMA DevClose ==
  ASSUME DevInv, NEW i \in Indices, devs[i].fd \in Fds, Close(i), UNCHANGED backlog
  PROVE  DevInv'
<1>1. /\ DevicesOK' /\ DescriptorsHeld' /\ SerialFirst'
      /\ file' \in [Fds -> Names \cup {"none"}]
      /\ \A g \in Fds : file'[g] = IF g = devs[i].fd THEN "none" ELSE file[g]
      /\ \A g, h \in Fds : file'[g] = file'[h] /\ file'[g] /= "none" => g = h
  BY ClosedOK
<1>2. \A j \in 1 .. Len(backlog) : backlog[j] /= "none"
  BY SelectorAssumption DEF DevInv, FilesOK
<1>3. Alone'
  BY <1>1, <1>2 DEF DevInv, Alone
<1> QED BY <1>1, <1>3 DEF DevInv, FilesOK

(* set_masks opens a new or closed device, which is the serial device or   *)
(* the listener and is open nowhere, or fails to.                          *)
LEMMA DevReopen ==
  ASSUME DevInv, at \in Nat, MasksReopen
  PROVE  DevInv' /\ Len(devs') = Len(devs) /\ Indices' = Indices /\ Free \in Fds /\ file[Free] = "none"
<1> DEFINE what == IF devs[at].kind = "serial" THEN "tty" ELSE "listener"
<1>1. at \in Indices /\ devs[at].state \in {"none", "closed"} /\ UNCHANGED backlog
  BY DEF MasksReopen
<1>2. devs \in Seq(Device) /\ devs[at] \in Device /\ at \in 1 .. Len(devs)
  BY <1>1, HeldOK DEF DevInv, DevicesOK, Indices
<1>3. devs[at].kind \in {"serial", "listen"} /\ ~IsOpen(devs[at]) /\ devs[at].fd \notin Fds
  <2>1. devs[at].kind /= "client" /\ ~IsOpen(devs[at])
    BY <1>1 DEF DevInv, DevicesOK, IsOpen
  <2> QED BY <1>1, <1>2, <2>1, HeldOK DEF Device, Kinds
<1>4. what \in {"tty", "listener"} /\ Fits(devs[at].kind, what) /\ what \in Names
  BY <1>3 DEF Fits, Names
<1>5. "tty" \notin Conns /\ "listener" \notin Conns /\ "none" \notin Conns
  BY SelectorAssumption
<1>6. \A g \in Fds : file[g] /= what
  <2> SUFFICES ASSUME NEW g \in Fds, file[g] = what PROVE FALSE
    OBVIOUS
  <2>1. file[g] /= "none"
    BY <1>4
  <2>2. PICK i \in Indices : devs[i].fd = g
    BY <2>1 DEF DevInv, DescriptorsHeld
  <2>3. Fits(devs[i].kind, what)
    BY <2>2, OwnFile
  <2>4. devs[i].kind = devs[at].kind
    BY <1>3, <1>4, <1>5, <2>3 DEF Fits
  <2>5. i = at
    BY <1>1, <1>3, <2>4, KindOK
  <2> QED BY <1>3, <2>2, <2>5
<1>7. Free \in Fds /\ file[Free] = "none"
  BY <1>4, <1>6, FreeOK
<1>8. ASSUME devs' = [devs EXCEPT ![at].state = "connected", ![at].fd = Free],
             file' = [file EXCEPT ![Free] = what]
      PROVE  DevInv' /\ Len(devs') = Len(devs) /\ Indices' = Indices
  <2> DEFINE dev == [devs[at] EXCEPT !.state = "connected", !.fd = Free]
  <2>1. devs' = [devs EXCEPT ![at] = dev]
    BY <1>2, <1>8
  <2>2. /\ dev \in Device /\ dev.fd = Free /\ dev.state = "connected"
        /\ dev.kind = devs[at].kind
    BY <1>2, <1>7 DEF Device, States
  <2> HIDE DEF dev
  <2>3. devs' \in Seq(Device) /\ Len(devs') = Len(devs) /\ Indices' = Indices
    BY <1>2, <2>1, <2>2, ExceptSeq DEF Indices
  <2>4. devs'[at] = dev /\ \A j \in Indices \ {at} : devs'[j] = devs[j]
    BY <1>2, <2>1 DEF Indices
  <2> HIDE DEF what
  <2>5. /\ DevicesOK' /\ DescriptorsHeld' /\ SerialFirst'
        /\ file' \in [Fds -> Names \cup {"none"}]
        /\ \A g \in Fds : file'[g] = IF g = Free THEN what ELSE file[g]
        /\ \A g, h \in Fds : file'[g] = file'[h] /\ file'[g] /= "none" => g = h
    <3>1. Indices' = Indices \cup {at} /\ devs'[at].fd = Free /\ devs'[at].state = "connected"
      BY <1>1, <2>2, <2>3, <2>4
    <3>2. Fits(devs'[at].kind, what) /\ devs'[at].kind = devs[at].kind
      BY <1>4, <2>2, <2>4
    <3>3. \/ at \in Indices /\ ~IsOpen(devs[at]) /\ devs'[at].kind = devs[at].kind
          \/ at \notin Indices /\ at > 2 /\ devs'[at].kind = "client"
      BY <1>1, <1>3, <3>2
    <3>4. \A j \in Indices \ {at} : devs'[j] = devs[j]
      BY <2>4
    <3> HIDE DEF Free
    <3> QED BY <1>4, <1>6, <1>7, <1>8, <2>3, <3>1, <3>2, <3>3, <3>4, OpenedOK
  <2>6. Alone'
    <3>1. \A j \in 1 .. Len(backlog) : backlog[j] /= what
      BY <1>4, <1>5 DEF DevInv, FilesOK
    <3> QED BY <1>1, <2>5, <3>1 DEF DevInv, Alone
  <2> QED BY <1>1, <2>3, <2>5, <2>6 DEF DevInv, FilesOK
<1>9. ASSUME NEW state \in {"closed", "inactive"}, devs' = [devs EXCEPT ![at].state = state],
             UNCHANGED file
      PROVE  DevInv' /\ Len(devs') = Len(devs) /\ Indices' = Indices
  <2> DEFINE dev == [devs[at] EXCEPT !.state = state]
  <2>1. devs' = [devs EXCEPT ![at] = dev]
    BY <1>2, <1>9
  <2>2. /\ dev \in Device /\ dev.fd = devs[at].fd /\ dev.state = state
        /\ dev.kind = devs[at].kind
    BY <1>2, <1>9 DEF Device, States
  <2> HIDE DEF dev
  <2>3. devs' \in Seq(Device) /\ Len(devs') = Len(devs) /\ Indices' = Indices
    BY <1>2, <2>1, <2>2, ExceptSeq DEF Indices
  <2>4. devs'[at] = dev /\ \A j \in Indices \ {at} : devs'[j] = devs[j]
    BY <1>2, <2>1 DEF Indices
  <2>5. \A j \in Indices : devs'[j].fd = devs[j].fd /\ devs'[j].kind = devs[j].kind
    BY <2>2, <2>4
  <2>6. DescriptorsHeld'
    <3>1. \A j \in Indices' : IsOpen(devs'[j]) <=> devs'[j].fd \in Fds
      <4> TAKE j \in Indices'
      <4>1. CASE j = at
        BY <1>3, <2>2, <2>4, <4>1 DEF IsOpen
      <4>2. CASE j /= at
        BY <2>3, <2>4, <4>2, HeldOK
      <4> QED BY <4>1, <4>2
    <3>2. \A j \in Indices' : devs'[j].fd \in Fds => Fits(devs'[j].kind, file'[devs'[j].fd])
      BY <1>9, <2>3, <2>5, OwnFile
    <3>3. \A j, k \in Indices' : devs'[j].fd = devs'[k].fd /\ devs'[j].fd \in Fds => j = k
      <4>1. \A j, k \in Indices : devs[j].fd = devs[k].fd /\ devs[j].fd \in Fds => j = k
        BY SelectorAssumption DEF DevInv, DescriptorsHeld
      <4> QED BY <2>3, <2>5, <4>1
    <3>4. \A g \in Fds : file'[g] /= "none" => \E j \in Indices' : devs'[j].fd = g
      BY <1>9, <2>3, <2>5 DEF DevInv, DescriptorsHeld
    <3> QED BY <2>3, <3>1, <3>2, <3>3, <3>4, HeldNext
  <2>7. SerialFirst'
    <3>1. \A j \in Indices' \ {at} : j \in Indices /\ devs'[j].kind = devs[j].kind
      BY <2>3, <2>5
    <3>2. /\ at \in Indices'
          /\ (at \in Indices /\ devs'[at].kind = devs[at].kind) \/ (at > 2 /\ devs'[at].kind = "client")
      BY <1>1, <2>3, <2>5
    <3> QED BY <3>1, <3>2, KindNext
  <2>8. DevicesOK'
    <3>1. \A j \in Indices' : devs'[j].kind = "client" => devs'[j].state \in {"connected", "inactive"}
      <4> SUFFICES ASSUME NEW j \in Indices, devs'[j].kind = "client"
                   PROVE  devs'[j].state \in {"connected", "inactive"}
        BY <2>3
      <4>1. j /= at /\ devs'[j] = devs[j]
        BY <1>3, <2>2, <2>4
      <4> QED BY <4>1 DEF DevInv, DevicesOK
    <3> QED BY <2>3, <3>1 DEF DevInv, DevicesOK
  <2>9. FilesOK' /\ Alone'
    BY <1>1, <1>9 DEF DevInv, FilesOK, Alone
  <2> QED BY <2>3, <2>6, <2>7, <2>8, <2>9 DEF DevInv
<1> QED BY <1>7, <1>8, <1>9 DEF MasksReopen

(* A client's descriptor is a free one, its element a slot whose client is *)
(* gone, which the serial device's and the listener's never are, or new.   *)
LEMMA DevAccept ==
  ASSUME DevInv, LoopInv, Accept
  PROVE  /\ DevInv' /\ Len(devs') >= Len(devs) /\ Indices \subseteq Indices'
         /\ Free \in Fds /\ file[Free] = "none"
         /\ \A g \in Fds : file'[g] = IF g = Free THEN Head(backlog) ELSE file[g]
         /\ \E i \in Indices' : /\ i > 2 /\ Indices' = Indices \cup {i} /\ devs'[i] = NewClient(Free)
                                /\ \A j \in Indices \ {i} : devs'[j] = devs[j]
                                /\ i \in Indices => devs[i].fd \notin Fds
<1> DEFINE c == Head(backlog)
           fd == Free
<1>1. Coming /= {} /\ devs[Dev].kind = "listen" /\ backlog /= <<>>
  BY DEF Accept, Runs
<1>2. Dev \in Indices /\ IsOpen(devs[Dev])
  BY <1>1, PlaceOK
<1>3. /\ backlog \in Seq(Conns) /\ c \in Conns /\ Tail(backlog) \in Seq(Conns)
      /\ Len(Tail(backlog)) = Len(backlog) - 1 /\ Len(backlog) >= 1 /\ c = backlog[1]
      /\ \A j \in 1 .. Len(backlog) - 1 : Tail(backlog)[j] = backlog[j + 1]
  BY <1>1 DEF DevInv, FilesOK
<1>4. \A g \in Fds : file[g] /= c
  BY <1>3 DEF DevInv, Alone
<1>5. c \in Names
  BY <1>3 DEF Names
<1>6. fd \in Fds /\ file[fd] = "none"
  BY <1>4, <1>5, FreeOK
<1>7. file' = [file EXCEPT ![fd] = c] /\ backlog' = Tail(backlog)
  BY DEF Accept
<1> HIDE DEF c, fd
<1>8. /\ NewClient(fd) \in Device /\ NewClient(fd).fd = fd /\ NewClient(fd).state = "connected"
      /\ NewClient(fd).kind = "client"
  BY <1>6 DEF NewClient, Device, Kinds, States
<1>9. PICK i \in Indices' :
        /\ i > 2 /\ Indices' = Indices \cup {i} /\ devs'[i] = NewClient(fd)
        /\ \A j \in Indices \ {i} : devs'[j] = devs[j]
        /\ (i \in Indices /\ ~IsOpen(devs[i]) /\ devs[i].kind = "client") \/ i \notin Indices
        /\ devs' \in Seq(Device) /\ Len(devs') >= Len(devs)
  <2>1. devs \in Seq(Device) /\ Len(devs) >= 2
    BY DEF DevInv, DevicesOK
  <2>2. CASE Inactive = {}
    <3>1. devs' = Append(devs, NewClient(fd))
      BY <2>2 DEF Accept, fd
    <3> DEFINE i == Len(devs) + 1
    <3>2. devs' \in Seq(Device) /\ Len(devs') = i /\ i \in Nat /\ i > 2
      BY <1>8, <2>1, <3>1
    <3>3. devs'[i] = NewClient(fd) /\ \A j \in 1 .. Len(devs) : devs'[j] = devs[j]
      BY <2>1, <3>1
    <3>4. Indices = 1 .. Len(devs) /\ Indices' = 1 .. i
      BY <2>1, <3>2 DEF Indices
    <3>5. i \in Indices' /\ Indices' = Indices \cup {i} /\ i \notin Indices
      BY <2>1, <3>4
    <3> HIDE DEF i
    <3> QED BY <2>1, <3>2, <3>3, <3>4, <3>5
  <2>3. CASE Inactive /= {}
    <3> DEFINE slot == CHOOSE i \in Inactive : \A j \in Inactive : i <= j
    <3>1. devs' = [devs EXCEPT ![slot] = NewClient(fd)]
      BY <2>3 DEF Accept, fd
    <3>2. Inactive \in SUBSET Nat
      BY <2>1 DEF Inactive, Indices
    <3>3. \E i \in Inactive : \A j \in Inactive : i <= j
      BY <2>3, <3>2, LeastNumber
    <3>4. slot \in Inactive
      BY <3>3
    <3> HIDE DEF slot
    <3>5. slot \in Indices /\ slot /= 1 /\ devs[slot].state = "inactive"
      BY <3>4 DEF Inactive
    <3>6. slot /= 2
      BY <1>1, <1>2, <3>5, KindOK DEF IsOpen
    <3>7. slot \in 1 .. Len(devs) /\ slot > 2
      BY <2>1, <3>5, <3>6 DEF Indices
    <3>8. devs' \in Seq(Device) /\ Len(devs') = Len(devs) /\ Indices' = Indices
      BY <1>8, <2>1, <3>1, <3>7, ExceptSeq DEF Indices
    <3>9. devs'[slot] = NewClient(fd) /\ \A j \in Indices \ {slot} : devs'[j] = devs[j]
      BY <2>1, <3>1, <3>7 DEF Indices
    <3>10. ~IsOpen(devs[slot]) /\ devs[slot].kind = "client"
      BY <3>5, <3>7, KindOK DEF IsOpen
    <3> QED BY <2>1, <3>5, <3>7, <3>8, <3>9, <3>10
  <2> QED BY <2>2, <2>3
<1>10. /\ DevicesOK' /\ DescriptorsHeld' /\ SerialFirst'
       /\ file' \in [Fds -> Names \cup {"none"}]
       /\ \A g \in Fds : file'[g] = IF g = fd THEN c ELSE file[g]
       /\ \A g, h \in Fds : file'[g] = file'[h] /\ file'[g] /= "none" => g = h
  <2>1. devs'[i].fd = fd /\ devs'[i].state = "connected" /\ devs'[i].kind = "client"
    BY <1>8, <1>9
  <2>2. Fits(devs'[i].kind, c)
    BY <1>3, <2>1 DEF Fits
  <2>3. \/ i \in Indices /\ ~IsOpen(devs[i]) /\ devs'[i].kind = devs[i].kind
        \/ i \notin Indices /\ i > 2 /\ devs'[i].kind = "client"
    BY <1>9, <2>1
  <2>4. devs' \in Seq(Device) /\ Indices' = Indices \cup {i}
    BY <1>9
  <2>5. \A j \in Indices \ {i} : devs'[j] = devs[j]
    BY <1>9
  <2> QED BY <1>4, <1>5, <1>6, <1>7, <2>1, <2>2, <2>3, <2>4, <2>5, OpenedOK
<1>11. Alone'
  <2>1. Len(backlog') = Len(backlog) - 1 /\ \A j \in 1 .. Len(backlog') : backlog'[j] = backlog[j + 1]
    BY <1>3, <1>7
  <2>2. \A j, k \in 1 .. Len(backlog') : backlog'[j] = backlog'[k] => j = k
    <3> SUFFICES ASSUME NEW j \in 1 .. Len(backlog'), NEW k \in 1 .. Len(backlog'),
                        backlog'[j] = backlog'[k]
                 PROVE  j = k
      OBVIOUS
    <3>1. j + 1 \in 1 .. Len(backlog) /\ k + 1 \in 1 .. Len(backlog)
      BY <1>3, <2>1
    <3>2. j + 1 = k + 1
      BY <2>1, <3>1 DEF DevInv, Alone
    <3> QED BY <3>2
  <2>3. \A j \in 1 .. Len(backlog'), g \in Fds : file'[g] /= backlog'[j]
    <3> SUFFICES ASSUME NEW j \in 1 .. Len(backlog'), NEW g \in Fds PROVE file'[g] /= backlog'[j]
      OBVIOUS
    <3>1. j + 1 \in 1 .. Len(backlog) /\ 1 \in 1 .. Len(backlog) /\ j + 1 /= 1
      BY <1>3, <2>1
    <3>2. backlog[j + 1] /= c
      BY <1>3, <3>1 DEF DevInv, Alone
    <3>3. file[g] /= backlog[j + 1]
      BY <3>1 DEF DevInv, Alone
    <3> QED BY <1>10, <2>1, <3>2, <3>3
  <2> QED BY <1>10, <2>2, <2>3 DEF Alone
<1>12. DevInv'
  BY <1>3, <1>7, <1>10, <1>11 DEF DevInv, FilesOK
<1>13. i \in Indices => devs[i].fd \notin Fds
  BY <1>9, HeldOK
<1> QED BY <1>6, <1>9, <1>10, <1>12, <1>13 DEF c, fd

(* The handlers that close the device they run on.                         *)
Closes == ReadCloses \/ WriteCloses \/ ExceptCloses

(* A device that closes gives its descriptor back, and stays in the array. *)
LEMMA DevCloses ==
  ASSUME DevInv, LoopInv, Closes
  PROVE  DevInv' /\ Len(devs') = Len(devs) /\ Indices' = Indices
<1>1. Dev \in Indices /\ devs[Dev].fd \in Fds
  BY PlaceOK DEF Closes, ReadCloses, WriteCloses, ExceptCloses, Runs
<1>2. Close(Dev) /\ UNCHANGED backlog
  BY DEF Closes, ReadCloses, WriteCloses, ExceptCloses
<1> HIDE DEF Dev
<1> QED BY <1>1, <1>2, DevClose, ClosedOK

(* The steps that leave devices, descriptors and backlog as they are.      *)
Quiet == \/ Enter \/ MasksOpen \/ MasksInactive \/ Select \/ ReadBytes \/ Writes \/ DispatchEnd
         \/ Outside \/ TtyData \/ TtyHangs \/ \E c \in Conns : Sends(c) \/ Urges(c) \/ Ends(c)

(* The steps that leave the devices and the open files alone.              *)
LEMMA QuietOK == Quiet => UNCHANGED <<devs, file, backlog>>
<1> SUFFICES ASSUME Quiet PROVE UNCHANGED <<devs, file, backlog>>
  OBVIOUS
<1>1. CASE Enter \/ MasksOpen \/ MasksInactive
  BY <1>1 DEF Enter, MasksOpen, MasksInactive, kernel
<1>2. CASE Select
  BY <1>2 DEF Select, SelectNothing, SelectError, SelectReady, kernel
<1>3. CASE ReadBytes \/ Writes \/ DispatchEnd \/ Outside
  BY <1>3 DEF ReadBytes, Writes, DispatchEnd, Outside, kernel
<1>4. CASE TtyData \/ TtyHangs \/ \E c \in Conns : Sends(c) \/ Urges(c) \/ Ends(c)
  BY <1>4 DEF TtyData, TtyHangs, Sends, Urges, Ends, World
<1> QED BY <1>1, <1>2, <1>3, <1>4 DEF Quiet

(* The steps, by what they do to descriptors.                              *)
LEMMA NextCases ==
  Next <=> \/ Quiet \/ (\E c \in Conns : Connect(c)) \/ MasksReopen \/ Closes \/ Accept
BY DEF Next, Daemon, IoSet, Dispatch, Handlers, Closes, Quiet

(* A step keeps every descriptor that of one device.                       *)
LEMMA DevNext == DevInv /\ LoopInv /\ [Next]_vars => DevInv'
<1> SUFFICES ASSUME DevInv, LoopInv, [Next]_vars PROVE DevInv'
  OBVIOUS
<1>1. CASE Quiet
  BY <1>1, QuietOK, DevSame
<1>2. CASE \E c \in Conns : Connect(c)
  BY <1>2, DevConnect
<1>3. CASE MasksReopen
  BY <1>3, DevReopen DEF LoopInv
<1>4. CASE Closes
  BY <1>4, DevCloses
<1>5. CASE Accept
  BY <1>5, DevAccept
<1>6. CASE UNCHANGED vars
  BY <1>6, DevSame DEF vars, kernel
<1> QED BY <1>1, <1>2, <1>3, <1>4, <1>5, <1>6, NextCases

------------------------------------------------------------------------------
(* The loop: its sets and counters, and the capacity of the array, which   *)
(* is always a number of chunks and more than the devices.                 *)

(* The pass before it starts.                                              *)
LEMMA LoopInit == Init => LoopInv
<1> SUFFICES ASSUME Init PROVE LoopInv
  OBVIOUS
<1>1. Chunk \in Nat \ {0}
  BY SelectorAssumption
<1> DEFINE q == 2 \div Chunk
           r == 2 % Chunk
<1>2. q \in Nat /\ r \in 0 .. Chunk - 1 /\ 2 = Chunk * q + r
  BY <1>1, Remainder
<1>3. alloced = Chunk * (q + 1) /\ Len(devs) = 2 /\ rset = {} /\ wset = {} /\ xset = {} /\ out = {}
  BY DEF Init, Allocated
<1>4. pc = "enter" /\ at = 1 /\ rdy = 0 /\ highest = 0 /\ active = 0
  BY DEF Init
<1> HIDE DEF q, r
<1>5. q + 1 \in Nat /\ Chunk * (q + 1) = Chunk * q + Chunk
  BY <1>1, <1>2
<1>6. Chunk * (q + 1) \in Nat /\ Chunk * (q + 1) > 2
  BY <1>1, <1>2, <1>5
<1>7. (Chunk * (q + 1)) % Chunk = 0
  BY <1>1, <1>5, Multiples
<1> QED BY <1>3, <1>4, <1>6, <1>7 DEF LoopInv

(* The capacity is enough after one chunk more.                            *)
LEMMA GrownOK ==
  ASSUME LoopInv, NEW count \in Nat, alloced > count
  PROVE  Grown(count) \in Nat /\ Grown(count) > count + 1 /\ Grown(count) % Chunk = 0
<1>1. Chunk \in Nat \ {0} /\ alloced \in Nat /\ alloced % Chunk = 0
  BY SelectorAssumption DEF LoopInv
<1>2. (alloced + Chunk) % Chunk = 0
  BY <1>1, NextMultiple
<1>3. CASE alloced <= count + 1
  <2>1. Grown(count) = alloced + Chunk
    BY <1>3 DEF Grown
  <2> QED BY <1>1, <1>2, <2>1
<1>4. CASE alloced > count + 1
  <2>1. Grown(count) = alloced
    BY <1>1, <1>4 DEF Grown
  <2> QED BY <1>1, <1>4, <2>1
<1> QED BY <1>1, <1>3, <1>4

(* What select leaves of the sets are descriptors still, and countable.    *)
LEMMA Countable ==
  ASSUME NEW S \in SUBSET Fds
  PROVE  Cardinality(S) \in Nat
BY SelectorAssumption, FS_Subset, FS_CardinalityType

(* A step of the pass over the array: its position stays in the array,     *)
(* which may grow behind it.                                               *)
LEMMA LoopNext ==
  ASSUME DevInv, LoopInv, Next
  PROVE  LoopInv'
<1>1. Fds \subseteq Nat
  BY SelectorAssumption
<1>2. at \in Nat /\ at > 0 /\ rdy \in Int /\ Len(devs) \in Nat
  BY DEF LoopInv, DevInv, DevicesOK
<1>3. CASE Enter
  BY <1>3 DEF Enter, LoopInv, Indices, kernel
<1>4. CASE MasksOpen
  <2>1. devs[at].fd \in Fds /\ UNCHANGED <<devs, alloced, pc, rdy, out>> /\ at' = at + 1
    BY <1>4, HeldOK DEF MasksOpen
  <2>2. rset' \subseteq Fds /\ wset' \subseteq Fds /\ xset' \subseteq Fds
    BY <1>4, <2>1 DEF MasksOpen, LoopInv
  <2>3. active' \in Nat /\ highest' \in Nat
    <3>1. devs[at].fd \in Nat /\ active \in Nat /\ highest \in Nat
      BY <1>1, <2>1 DEF LoopInv
    <3>2. active' = active + 1 /\ highest' \in {devs[at].fd, highest}
      BY <1>4 DEF MasksOpen
    <3> QED BY <3>1, <3>2
  <2> QED BY <2>1, <2>2, <2>3 DEF LoopInv, Indices
<1>5. CASE MasksReopen
  <2>1. Len(devs') = Len(devs) /\ Indices' = Indices
    BY <1>2, <1>5, DevReopen
  <2>2. at' = at + 1 /\ UNCHANGED <<alloced, pc, rset, wset, xset, highest, active, rdy, out>>
    BY <1>5 DEF MasksReopen
  <2> QED BY <2>1, <2>2 DEF LoopInv
<1>6. CASE MasksInactive
  BY <1>6 DEF MasksInactive, LoopInv, Indices
<1>7. CASE SelectNothing \/ SelectError
  BY <1>7 DEF SelectNothing, SelectError, LoopInv, Indices
<1>8. CASE SelectReady
  <2>1. PICK writes \in SUBSET Watched(wset) :
          /\ rset' = {f \in Watched(rset) : CanRead(f)} /\ wset' = writes
          /\ xset' = {f \in Watched(xset) : file[f] \in urgent}
          /\ rdy' = Cardinality({f \in Watched(rset) : CanRead(f)}) + Cardinality(writes)
                      + Cardinality({f \in Watched(xset) : file[f] \in urgent})
    BY <1>8 DEF SelectReady
  <2>2. rset' \subseteq Fds /\ wset' \subseteq Fds /\ xset' \subseteq Fds
    BY <2>1 DEF Watched, LoopInv
  <2>3. rdy' = Cardinality(rset') + Cardinality(wset') + Cardinality(xset')
    BY <2>1
  <2>4. rdy' \in Int
    <3>1. Cardinality(rset') \in Nat /\ Cardinality(wset') \in Nat /\ Cardinality(xset') \in Nat
      BY <2>2, Countable
    <3> QED BY <2>3, <3>1
  <2>5. /\ UNCHANGED <<devs, alloced, out>> /\ at' = 1 /\ highest' = 0 /\ active' = 0
        /\ pc' \in {"outside", "dispatch"}
    BY <1>8 DEF SelectReady
  <2> QED BY <2>2, <2>4, <2>5 DEF LoopInv, Indices
<1>9. ASSUME NEW part, Runs(part)
      PROVE  /\ at' \in Nat \ {0} /\ rdy' \in Int
             /\ UNCHANGED <<pc, highest, active, rset, wset, xset>>
  <2>1. Place \in Nat
    BY <1>9, PlaceOK DEF Runs
  <2> QED BY <1>2, <1>9, <2>1 DEF Runs
<1>10. CASE ReadBytes \/ Writes
  <2>1. (\E part : Runs(part)) /\ UNCHANGED <<devs, alloced>> /\ out' \subseteq out
    BY <1>10 DEF ReadBytes, Writes
  <2> QED BY <1>9, <2>1 DEF LoopInv, Indices
<1>11. CASE Closes
  <2>1. (\E part : Runs(part)) /\ UNCHANGED alloced /\ out' \subseteq out
    BY <1>11 DEF Closes, ReadCloses, WriteCloses, ExceptCloses
  <2>2. Len(devs') = Len(devs) /\ Indices' = Indices
    BY <1>11, DevCloses
  <2> QED BY <1>9, <2>1, <2>2 DEF LoopInv
<1>12. CASE Accept
  <2>1. Runs("r") /\ out' \subseteq out
    BY <1>12 DEF Accept
  <2>2. Indices \subseteq Indices'
    BY <1>12, DevAccept
  <2>3. alloced' \in Nat /\ alloced' > Len(devs') /\ alloced' % Chunk = 0
    <3>1. devs \in Seq(Device) /\ Len(devs) \in Nat /\ alloced > Len(devs)
      BY DEF DevInv, DevicesOK, LoopInv
    <3>2. CASE Inactive = {}
      <4>1. Len(devs') = Len(devs) + 1 /\ alloced' = Grown(Len(devs))
        BY <1>12, <3>1, <3>2 DEF Accept
      <4> QED BY <3>1, <4>1, GrownOK
    <3>3. CASE Inactive /= {}
      <4>1. UNCHANGED alloced /\ \E i : devs' = [devs EXCEPT ![i] = NewClient(Free)]
        BY <1>12, <3>3 DEF Accept
      <4>2. Len(devs') = Len(devs)
        BY <3>1, <4>1
      <4> QED BY <4>1, <4>2 DEF LoopInv
    <3> QED BY <3>2, <3>3
  <2> QED BY <1>9, <2>1, <2>2, <2>3 DEF LoopInv
<1>13. CASE DispatchEnd
  BY <1>13 DEF DispatchEnd, LoopInv, Indices
<1>14. CASE Outside
  <2>1. out' \subseteq Indices
    <3>1. 1 \in Indices /\ Accepted \subseteq Indices
      BY DEF DevInv, DevicesOK, Indices, Accepted
    <3> QED BY <1>14, <3>1 DEF Outside, LoopInv
  <2>2. pc' \in {"enter", "exit"} /\ UNCHANGED <<devs, alloced, at, rset, wset, xset, highest, active, rdy>>
    BY <1>14 DEF Outside
  <2> QED BY <2>1, <2>2 DEF LoopInv, Indices
<1>15. CASE TtyData \/ TtyHangs \/ \E c \in Conns : Connect(c) \/ Sends(c) \/ Urges(c) \/ Ends(c)
  <2>1. UNCHANGED <<devs, alloced, loop, out>>
    BY <1>15 DEF TtyData, TtyHangs, Connect, Sends, Urges, Ends, World
  <2> QED BY <2>1 DEF loop, LoopInv, Indices
<1> QED BY <1>3, <1>4, <1>5, <1>6, <1>7, <1>8, <1>10, <1>11, <1>12, <1>13, <1>14, <1>15
        DEF Next, Daemon, IoSet, Select, Dispatch, Handlers, Closes

(* Both hold in every state.                                               *)
LEMMA Invariants == Spec => [](DevInv /\ LoopInv)
<1>1. Init => DevInv /\ LoopInv
  BY DevInit, LoopInit
<1>2. DevInv /\ LoopInv /\ [Next]_vars => (DevInv /\ LoopInv)'
  <2>1. DevInv /\ LoopInv /\ UNCHANGED vars => LoopInv'
    BY DEF vars, loop, LoopInv, Indices
  <2> QED BY <2>1, DevNext, LoopNext
<1> QED BY <1>1, <1>2, PTL DEF Spec

(* The type invariant: for every number of connections and descriptors,    *)
(* the device array, the fd_sets and the counters of selector_loop stay in *)
(* their ranges, and the capacity of the array, in whole chunks, stays     *)
(* above the number of its elements.                                       *)
THEOREM TypeCorrect == Spec => []TypeOK
<1>1. DevInv /\ LoopInv => TypeOK
  BY DEF DevInv, DevicesOK, FilesOK, LoopInv, TypeOK, Device, Names
<1> QED BY <1>1, Invariants, PTL

(* A device is open exactly when it holds a descriptor, which is of its    *)
(* own kind and no other device's, and every open descriptor is some       *)
(* device's: none leaks and none is closed twice, whatever the order of    *)
(* opens, accepts, reuse of slots and closes in the handlers.              *)
THEOREM DescriptorsCorrect == Spec => []DescriptorsHeld
<1>1. DevInv => DescriptorsHeld
  BY DEF DevInv
<1> QED BY <1>1, Invariants, PTL

(* The serial device and the listener keep their places in the array, and  *)
(* a client gets neither: reuse of an inactive element never takes one of  *)
(* the first two, and they are closed, not removed.                        *)
THEOREM SerialCorrect == Spec => []SerialFirst
<1>1. DevInv => SerialFirst
  BY DEF DevInv
<1> QED BY <1>1, Invariants, PTL

------------------------------------------------------------------------------
(* The events: until the tty hangs up nothing changes between what select  *)
(* reported and the handler that runs for it.                              *)

(* The places of a device in selector_dispatch.                            *)
LEMMA PartOK ==
  ASSUME NEW p \in Nat \ {0}
  PROVE  /\ DevAt(p) \in Nat \ {0} /\ 3 * DevAt(p) - 2 <= p /\ p <= 3 * DevAt(p)
         /\ PartAt(p) \in {"r", "w", "x"}
         /\ PartAt(p) = "r" <=> p = 3 * DevAt(p) - 2
<1>1. DevAt(p) \in Nat \ {0} /\ 3 * DevAt(p) - 2 <= p /\ p <= 3 * DevAt(p)
  BY DEF DevAt
<1> DEFINE k == p - 3 * DevAt(p) + 3
<1>2. k \in 1 .. 3 /\ (k = 1 <=> p = 3 * DevAt(p) - 2)
  BY <1>1
<1>3. PartAt(p) = <<"r", "w", "x">>[k]
  BY DEF PartAt
<1> HIDE DEF k
<1> QED BY <1>1, <1>2, <1>3

(* The device of a place that is looked at, and the file it holds.         *)
LEMMA AtOK ==
  ASSUME DevInv, LoopInv, NEW p \in at .. 3 * Len(devs), devs[DevAt(p)].fd \in Set(PartAt(p))
  PROVE  /\ p \in Nat \ {0} /\ DevAt(p) \in Indices /\ devs[DevAt(p)].fd \in Fds
         /\ IsOpen(devs[DevAt(p)]) /\ Held(devs[DevAt(p)]) = file[devs[DevAt(p)].fd]
         /\ Held(devs[DevAt(p)]) /= "none"
         /\ DevAt(p) = 1 => Held(devs[DevAt(p)]) = "tty"
         /\ DevAt(p) = 2 => Held(devs[DevAt(p)]) = "listener"
         /\ DevAt(p) > 2 => Held(devs[DevAt(p)]) \in Conns
<1>1. Len(devs) \in Nat /\ p \in Nat \ {0}
  BY DEF DevInv, DevicesOK, LoopInv
<1>2. DevAt(p) \in 1 .. Len(devs) /\ PartAt(p) \in {"r", "w", "x"}
  <2>1. DevAt(p) \in 1 .. Len(devs)
    BY <1>1 DEF DevAt
  <2> QED BY <1>1, <2>1, PartOK
<1>3. DevAt(p) \in Indices /\ devs[DevAt(p)].fd \in Fds
  BY <1>2 DEF DevInv, DevicesOK, Indices, LoopInv, Set
<1>4. Fits(devs[DevAt(p)].kind, file[devs[DevAt(p)].fd])
  BY <1>3, OwnFile
<1>5. /\ IsOpen(devs[DevAt(p)]) /\ Held(devs[DevAt(p)]) = file[devs[DevAt(p)].fd]
      /\ Held(devs[DevAt(p)]) /= "none"
  BY <1>3, HeldOK
<1>6. /\ DevAt(p) = 1 => devs[DevAt(p)].kind = "serial"
      /\ DevAt(p) = 2 => devs[DevAt(p)].kind = "listen"
      /\ DevAt(p) > 2 => devs[DevAt(p)].kind = "client"
  BY <1>3, KindOK
<1> QED BY <1>1, <1>3, <1>4, <1>5, <1>6 DEF Fits

(* Two devices of which both are open hold two files.                      *)
LEMMA Apart ==
  ASSUME DevInv, NEW i \in Indices, NEW j \in Indices, i /= j,
         devs[i].fd \in Fds, devs[j].fd \in Fds
  PROVE  devs[i].fd /= devs[j].fd /\ Held(devs[i]) /= Held(devs[j])
<1>1. devs[i].fd /= devs[j].fd
  BY SelectorAssumption DEF DevInv, DescriptorsHeld
<1>2. /\ Held(devs[i]) = file[devs[i].fd] /\ Held(devs[j]) = file[devs[j].fd]
      /\ file[devs[i].fd] /= "none"
  BY HeldOK
<1> QED BY <1>1, <1>2 DEF DevInv, Alone

(* What the world adds makes no event untrue.                              *)
LEMMA EventsKept ==
  ASSUME CalmInv, UNCHANGED <<devs, file, pc, at, rset, wset, xset, reported>>,
         tty.hangs' = tty.hangs, tty.data => tty.data',
         input \subseteq input', ended \subseteq ended', urgent \subseteq urgent'
  PROVE  EventsOK'
<1>1. \A p : EventOK(p) => EventOK(p)'
  BY DEF EventOK, Held, PartAt, DevAt
<1>2. \A part : Set(part)' = Set(part)
  BY DEF Set
<1>3. ASSUME Calm', pc' = "dispatch" PROVE Calm /\ pc = "dispatch"
  BY <1>3 DEF Calm
<1> QED BY <1>1, <1>2, <1>3 DEF CalmInv, EventsOK

(* The sets that select leaves are of files that have the event.           *)
LEMMA EventsSelect ==
  ASSUME DevInv, LoopInv, CalmInv, SelectReady
  PROVE  EventsOK'
<1> SUFFICES ASSUME Calm', pc' = "dispatch"
             PROVE  /\ \A p \in at' .. 3 * Len(devs') :
                         devs'[DevAt(p)].fd \in Set(PartAt(p))' => EventOK(p)'
                    /\ \A f \in rset' \cup wset' \cup xset' : file'[f] /= "none"
  BY DEF EventsOK, DevAt, PartAt
<1>1. PICK writes \in SUBSET Watched(wset) :
        /\ rset' = {f \in Watched(rset) : CanRead(f)} /\ wset' = writes
        /\ xset' = {f \in Watched(xset) : file[f] \in urgent}
        /\ reported' = ({file[f] : f \in rset'} \X {"r"}) \cup ({file[f] : f \in writes} \X {"w"})
                         \cup ({file[f] : f \in xset'} \X {"x"})
  BY DEF SelectReady
<1>2. /\ UNCHANGED <<devs, file, tty, input, urgent, ended>> /\ at' = 1
      /\ Watched(rset \cup wset \cup xset) \cap Closed = {}
  BY DEF SelectReady, kernel
<1>3. rset' \subseteq Fds /\ wset' \subseteq Fds /\ xset' \subseteq Fds
  BY <1>1 DEF Watched, LoopInv
<1>4. \A f \in rset' \cup wset' \cup xset' : file'[f] /= "none"
  BY <1>1, <1>2, <1>3 DEF Watched, Closed
<1>5. ASSUME NEW p \in at' .. 3 * Len(devs'), devs'[DevAt(p)].fd \in Set(PartAt(p))'
      PROVE  EventOK(p)'
  <2> DEFINE i == DevAt(p)
             f == devs[i].fd
  <2>1. p \in Nat \ {0} /\ i \in Indices /\ PartAt(p) \in {"r", "w", "x"}
    <3>1. p \in 1 .. 3 * Len(devs) /\ Len(devs) \in Nat
      BY <1>2, <1>5 DEF DevInv, DevicesOK
    <3>2. i \in 1 .. Len(devs)
      BY <3>1 DEF DevAt
    <3>3. PartAt(p) \in {"r", "w", "x"}
      BY <3>1, PartOK
    <3> QED BY <3>1, <3>2, <3>3 DEF DevInv, DevicesOK, Indices
  <2>2. /\ PartAt(p) = "r" => f \in rset'
        /\ PartAt(p) = "w" => f \in wset'
        /\ PartAt(p) = "x" => f \in xset'
        /\ f \in Fds
    BY <1>2, <1>3, <1>5, <2>1 DEF Set
  <2>3. Held(devs[i])' = file[f] /\ Held(devs[i]) = file[f]
    BY <1>2, <2>1, <2>2, HeldOK DEF Held
  <2>4. Fits(devs[i].kind, file[f])
    BY <2>1, <2>2, OwnFile
  <2>5. (i = 1 => file[f] = "tty") /\ (i > 2 => file[f] \in Conns)
    BY <2>1, <2>4, KindOK DEF Fits
  <2> HIDE DEF i, f
  <2>6. <<file[f], PartAt(p)>> \in reported'
    BY <1>1, <2>1, <2>2
  <2>7. ~tty.hung
    BY <1>2 DEF CalmInv, Calm
  <2>8. PartAt(p) = "r" => CanRead(f)
    BY <1>1, <2>2
  <2>9. PartAt(p) = "r" /\ i = 1 => tty'.data
    BY <1>2, <2>5, <2>7, <2>8 DEF CanRead
  <2>10. PartAt(p) = "r" /\ i > 2 => file[f] \in input' \cup ended'
    <3>1. "tty" \notin Conns /\ "listener" \notin Conns
      BY SelectorAssumption
    <3> QED BY <1>2, <2>5, <2>8, <3>1 DEF CanRead
  <2>11. PartAt(p) = "x" => file[f] \in urgent'
    BY <1>1, <1>2, <2>2
  <2> QED BY <2>3, <2>6, <2>9, <2>10, <2>11 DEF EventOK, i, DevAt, PartAt
<1> QED BY <1>4, <1>5

(* A handler that leaves the devices of the places to come, and their      *)
(* files, as they are.                                                     *)
LEMMA EventsRun ==
  ASSUME DevInv, LoopInv, CalmInv, NEW part, Runs(part), UNCHANGED urgent, tty'.hangs = tty.hangs,
         Calm => \A p \in Place + 1 .. 3 * Len(devs') :
                   devs'[DevAt(p)].fd \in Set(PartAt(p)) =>
                     /\ DevAt(p) \in Indices /\ devs'[DevAt(p)] = devs[DevAt(p)]
                     /\ file'[devs[DevAt(p)].fd] = file[devs[DevAt(p)].fd],
         tty'.data = tty.data \/ Dev = 1,
         input \ {Held(devs[Dev])} \subseteq input', ended \subseteq ended',
         Calm /\ Place <= 3 => UNCHANGED file
  PROVE  EventsOK'
<1>1. /\ at' = Place + 1 /\ pc = "dispatch" /\ UNCHANGED <<rset, wset, xset, reported>>
      /\ Coming /= {}
  BY DEF Runs
<1>2. /\ Place \in Nat \ {0} /\ Place >= at /\ Dev \in Indices /\ devs[Dev].fd \in Fds
      /\ at \in Nat \ {0} /\ Len(devs) \in Nat
  BY <1>1, PlaceOK DEF LoopInv, DevInv, DevicesOK
<1> SUFFICES ASSUME Calm
             PROVE  /\ \A p \in at' .. 3 * Len(devs') :
                         devs'[DevAt(p)].fd \in Set(PartAt(p))' => EventOK(p)'
                    /\ at' <= 4 => \A f \in rset' \cup wset' \cup xset' : file'[f] /= "none"
  BY <1>1 DEF EventsOK, Calm, DevAt, PartAt
<1>3. at' <= 4 => \A f \in rset' \cup wset' \cup xset' : file'[f] /= "none"
  <2>1. at' <= 4 => Place <= 3 /\ at <= 4
    BY <1>1, <1>2
  <2> QED BY <1>1, <2>1 DEF CalmInv, EventsOK
<1>4. ASSUME NEW p \in at' .. 3 * Len(devs'), devs'[DevAt(p)].fd \in Set(PartAt(p))'
      PROVE  EventOK(p)'
  <2> DEFINE i == DevAt(p)
  <2>1. devs'[i].fd \in Set(PartAt(p)) /\ p \in Place + 1 .. 3 * Len(devs')
    BY <1>1, <1>4 DEF Set, PartAt, DevAt
  <2>2. i \in Indices /\ devs'[i] = devs[i] /\ file'[devs[i].fd] = file[devs[i].fd]
    BY <2>1
  <2>3. p \in Nat \ {0} /\ p > Place
    BY <1>2, <2>1
  <2>4. /\ i \in Nat \ {0} /\ 3 * i - 2 <= p /\ p <= 3 * i /\ PartAt(p) \in {"r", "w", "x"}
        /\ PartAt(p) = "r" <=> p = 3 * i - 2
    BY <2>3, PartOK
  <2>5. /\ Dev \in Nat \ {0} /\ 3 * Dev - 2 <= Place /\ Place <= 3 * Dev
    BY <1>2, PartOK DEF Dev
  <2>6. i <= Len(devs)
    BY <2>2 DEF DevInv, DevicesOK, Indices
  <2>7. p \in at .. 3 * Len(devs)
    BY <1>2, <2>3, <2>4, <2>6
  <2>8. EventOK(p) /\ devs[i].fd \in Set(PartAt(p))
    BY <1>1, <2>1, <2>2, <2>7 DEF CalmInv, EventsOK
  <2>9. devs[i].fd \in Fds /\ Held(devs[i]) = file[devs[i].fd]
    BY <2>7, <2>8, AtOK
  <2> HIDE DEF i
  <2>10. Held(devs[i])' = Held(devs[i])
    <3>1. devs[i].fd /= -1
      BY <2>9, SelectorAssumption
    <3> QED BY <2>2, <2>9, <3>1 DEF Held
  <2>11. PartAt(p) = "r" => i > Dev
    <3> DEFINE d == Dev
               e == Place
    <3>1. d \in Nat /\ e \in Nat /\ i \in Nat /\ p \in Nat /\ 3 * d - 2 <= e /\ p > e
      BY <1>2, <2>3, <2>4, <2>5
    <3>2. PartAt(p) = "r" => p = 3 * i - 2
      BY <2>4
    <3> HIDE DEF d, e
    <3>3. p = 3 * i - 2 => i > d
      BY <3>1
    <3> QED BY <3>2, <3>3 DEF d
  <2>12. PartAt(p) = "r" => Held(devs[i]) /= Held(devs[Dev])
    <3>1. PartAt(p) = "r" => i /= Dev
      BY <2>4, <2>5, <2>11
    <3> QED BY <1>2, <2>2, <2>9, <3>1, Apart
  <2>13. PartAt(p) = "r" /\ i = 1 => tty'.data
    BY <2>5, <2>8, <2>11 DEF EventOK, i
  <2>14. PartAt(p) = "r" /\ i > 2 => Held(devs[i]) \in input' \cup ended'
    BY <2>8, <2>12 DEF EventOK, i
  <2>15. <<Held(devs[i]), PartAt(p)>> \in reported' /\ (PartAt(p) = "x" => Held(devs[i]) \in urgent')
    BY <1>1, <2>8 DEF EventOK, i
  <2> QED BY <2>10, <2>13, <2>14, <2>15 DEF EventOK, i, DevAt, PartAt
<1> QED BY <1>3, <1>4

(* The event that a handler runs for is one of those.                      *)
LEMMA RunsOK ==
  ASSUME DevInv, LoopInv, CalmInv, Calm, pc = "dispatch", Coming /= {}
  PROVE  EventOK(Place)
<1>1. Place \in at .. 3 * Len(devs) /\ devs[Dev].fd \in Set(PartAt(Place))
  BY PlaceOK DEF LoopInv, DevInv, DevicesOK
<1> QED BY <1>1 DEF CalmInv, EventsOK, Dev

(* In calm, a device is closed because the client closed its connection or *)
(* sent urgent data; the serial device stays open.                         *)
LEMMA CloseReason ==
  ASSUME DevInv, LoopInv, CalmInv, Calm, Closes
  PROVE  Dev /= 1 /\ (Held(devs[Dev]) \in Conns => Held(devs[Dev]) \in ended \cup urgent)
<1>1. Coming /= {} /\ pc = "dispatch"
  BY DEF Closes, ReadCloses, WriteCloses, ExceptCloses, Runs
<1>2. EventOK(Place)
  BY <1>1, RunsOK
<1>3. Dev \in Indices /\ devs[Dev].fd \in Fds /\ Dev \in Nat /\ Dev = DevAt(Place)
  BY <1>1, PlaceOK DEF Dev
<1>4. Held(devs[Dev]) = file[devs[Dev].fd] /\ Fits(devs[Dev].kind, Held(devs[Dev]))
  BY <1>3, HeldOK, OwnFile
<1>5. /\ devs[Dev].kind = "serial" <=> Dev = 1
      /\ devs[Dev].kind = "listen" <=> Dev = 2
      /\ devs[Dev].kind = "client" <=> Dev > 2
  BY <1>3, KindOK
<1>6. "tty" \notin Conns /\ "listener" \notin Conns
  BY SelectorAssumption
<1>7. ~tty.hung /\ urgent \subseteq Conns
  BY DEF CalmInv
<1>8. CASE ReadCloses
  <2>1. PartAt(Place) = "r" /\ ~HasBytes(devs[Dev].fd)
    BY <1>8 DEF ReadCloses, Runs
  <2>2. Dev /= 1
    BY <1>2, <1>3, <1>4, <1>5, <1>6, <1>7, <2>1 DEF HasBytes, EventOK, Fits
  <2>3. Held(devs[Dev]) \in Conns => Dev > 2 /\ Held(devs[Dev]) \notin input
    BY <1>3, <1>4, <1>5, <1>6, <2>1 DEF Fits, HasBytes
  <2> QED BY <1>2, <1>3, <2>1, <2>2, <2>3 DEF EventOK
<1>9. CASE WriteCloses
  BY <1>4, <1>5, <1>6, <1>7, <1>9 DEF WriteCloses, Fits
<1>10. CASE ExceptCloses
  <2>1. Held(devs[Dev]) \in urgent
    BY <1>2, <1>3, <1>10 DEF ExceptCloses, Runs, EventOK
  <2> QED BY <1>4, <1>5, <1>6, <1>7, <2>1 DEF Fits
<1> QED BY <1>8, <1>9, <1>10 DEF Closes

(* While the tty is there, a device that closes leaves the events of the   *)
(* others true, and it is none before the listener.                        *)
LEMMA EventsCloses ==
  ASSUME DevInv, LoopInv, CalmInv, Closes
  PROVE  EventsOK'
<1>1. PICK part : Runs(part)
  BY DEF Closes, ReadCloses, WriteCloses, ExceptCloses
<1>2. Close(Dev) /\ UNCHANGED <<tty, urgent>>
  BY DEF Closes, ReadCloses, WriteCloses, ExceptCloses
<1>3. Dev \in Indices /\ devs[Dev].fd \in Fds /\ Place \in Nat \ {0} /\ Coming /= {}
  BY <1>1, PlaceOK DEF Runs
<1> DEFINE d == Dev
<1> HIDE DEF d
<1>4. d \in Indices /\ devs[d].fd \in Fds /\ Close(d)
  BY <1>2, <1>3 DEF d
<1>5. /\ Indices' = Indices /\ Len(devs') = Len(devs) /\ devs'[d].fd = -1
      /\ \A j \in Indices \ {d} : devs'[j] = devs[j]
      /\ \A g \in Fds : file'[g] = IF g = devs[d].fd THEN "none" ELSE file[g]
  BY <1>4, ClosedOK
<1>6. input' = input \ {Held(devs[d])} /\ ended \subseteq ended'
  BY <1>4 DEF Close
<1>7. ASSUME NEW p \in Place + 1 .. 3 * Len(devs'), devs'[DevAt(p)].fd \in Set(PartAt(p))
      PROVE  /\ DevAt(p) \in Indices /\ devs'[DevAt(p)] = devs[DevAt(p)]
             /\ file'[devs[DevAt(p)].fd] = file[devs[DevAt(p)].fd]
  <2>1. p \in 1 .. 3 * Len(devs) /\ Len(devs) \in Nat
    BY <1>3, <1>5 DEF DevInv, DevicesOK
  <2>2. DevAt(p) \in 1 .. Len(devs)
    BY <2>1 DEF DevAt
  <2>3. DevAt(p) \in Indices
    BY <2>2 DEF DevInv, DevicesOK, Indices
  <2>4. PartAt(p) \in {"r", "w", "x"}
    BY <2>1, PartOK
  <2>5. devs'[DevAt(p)].fd \in Fds
    BY <1>7, <2>4 DEF Set, LoopInv
  <2>6. DevAt(p) /= d
    BY <1>5, <2>5, SelectorAssumption
  <2>7. devs'[DevAt(p)] = devs[DevAt(p)]
    BY <1>5, <2>3, <2>6
  <2>8. devs[DevAt(p)].fd /= devs[d].fd
    BY <1>4, <2>3, <2>5, <2>6, <2>7, Apart
  <2> QED BY <1>5, <2>3, <2>5, <2>7, <2>8
<1>8. Calm => ~(Place <= 3)
  <2> SUFFICES ASSUME Calm, Place <= 3 PROVE FALSE
    OBVIOUS
  <2>1. Dev = 1
    BY <1>3, <2>1 DEF Dev, DevAt
  <2> QED BY <2>1, CloseReason
<1>9. input \ {Held(devs[Dev])} \subseteq input'
  BY <1>6 DEF d
<1>10. tty'.hangs = tty.hangs /\ tty'.data = tty.data /\ UNCHANGED urgent
  BY <1>2
<1> QED BY <1>1, <1>6, <1>7, <1>8, <1>9, <1>10, EventsRun

(* While the tty is there, the listener is served before any client        *)
(* closes, so the descriptor of a new connection has no bit.               *)
LEMMA EventsAccept ==
  ASSUME DevInv, LoopInv, CalmInv, Accept
  PROVE  EventsOK'
<1>1. Runs("r") /\ UNCHANGED <<tty, urgent, input, ended>> /\ devs[Dev].kind = "listen"
  BY DEF Accept
<1>2. Place \in Nat \ {0} /\ Coming /= {} /\ pc = "dispatch" /\ PartAt(Place) = "r" /\ Dev = 2
  BY <1>1, PlaceOK, KindOK DEF Runs
<1>3. Place = 4
  BY <1>2, PartOK DEF Dev
<1> DEFINE fd == Free
<1>4. /\ fd \in Fds /\ file[fd] = "none"
      /\ \A g \in Fds : file'[g] = IF g = fd THEN Head(backlog) ELSE file[g]
  BY DevAccept
<1>5. PICK i \in Indices' : /\ Indices' = Indices \cup {i} /\ devs'[i] = NewClient(fd)
                            /\ \A j \in Indices \ {i} : devs'[j] = devs[j]
  BY DevAccept
<1>6. devs' \in Seq(Device)
  BY DevAccept DEF DevInv, DevicesOK
<1> HIDE DEF fd
<1>7. ASSUME Calm, NEW p \in Place + 1 .. 3 * Len(devs'), devs'[DevAt(p)].fd \in Set(PartAt(p))
      PROVE  /\ DevAt(p) \in Indices /\ devs'[DevAt(p)] = devs[DevAt(p)]
             /\ file'[devs[DevAt(p)].fd] = file[devs[DevAt(p)].fd]
  <2>1. p \in 1 .. 3 * Len(devs') /\ Len(devs') \in Nat
    BY <1>2, <1>6
  <2>2. DevAt(p) \in 1 .. Len(devs')
    BY <2>1 DEF DevAt
  <2>3. DevAt(p) \in Indices'
    BY <1>6, <2>2 DEF Indices
  <2>4. PartAt(p) \in {"r", "w", "x"}
    BY <2>1, PartOK
  <2>5. devs'[DevAt(p)].fd \in rset \cup wset \cup xset /\ devs'[DevAt(p)].fd \in Fds
    BY <1>7, <2>4 DEF Set, LoopInv
  <2>6. at <= 4
    BY <1>2, <1>3, PlaceOK
  <2>7. devs'[DevAt(p)].fd /= fd
    BY <1>2, <1>4, <1>7, <2>5, <2>6 DEF CalmInv, EventsOK
  <2>8. DevAt(p) /= i
    BY <1>5, <2>7 DEF NewClient
  <2> QED BY <1>4, <1>5, <2>3, <2>5, <2>7, <2>8
<1> QED BY <1>1, <1>3, <1>7, EventsRun

(* The tty is there at the start, and nothing is reported.                 *)
LEMMA CalmInit == Init => CalmInv
BY DEF Init, CalmInv, EventsOK, Calm

(* A step keeps what select reported true until its turn comes.            *)
LEMMA CalmNext ==
  ASSUME DevInv, LoopInv, CalmInv, Next
  PROVE  CalmInv'
<1> DEFINE TtyOK == (Calm => ~tty.hung) /\ tty \in [data : BOOLEAN, hung : BOOLEAN, hangs : Nat]
<1>1. TtyOK
  BY DEF CalmInv
<1>2. ASSUME UNCHANGED <<tty, urgent>>, EventsOK' PROVE CalmInv'
  BY <1>2 DEF CalmInv, Calm
<1>3. CASE Enter \/ IoSet \/ SelectNothing \/ SelectError \/ DispatchEnd \/ Outside
  <2>1. pc' /= "dispatch"
    BY <1>3 DEF Enter, IoSet, MasksOpen, MasksReopen, MasksInactive, SelectNothing, SelectError,
                DispatchEnd, Outside
  <2>2. EventsOK'
    BY <2>1 DEF EventsOK
  <2>3. CASE MasksReopen
    <3>1. (tty' = tty \/ tty' = [tty EXCEPT !.hung = FALSE]) /\ UNCHANGED urgent
      BY <2>3 DEF MasksReopen
    <3>2. TtyOK'
      BY <1>1, <3>1 DEF Calm
    <3> QED BY <2>2, <3>1, <3>2 DEF CalmInv
  <2>4. CASE ~MasksReopen
    <3>1. UNCHANGED <<tty, urgent>>
      BY <1>3, <2>4 DEF Enter, IoSet, MasksOpen, MasksInactive, SelectNothing, SelectError,
                        DispatchEnd, Outside, kernel
    <3> QED BY <1>2, <2>2, <3>1
  <2> QED BY <2>3, <2>4
<1>4. CASE SelectReady
  <2>1. UNCHANGED <<tty, urgent>>
    BY <1>4 DEF SelectReady, kernel
  <2> QED BY <1>2, <1>4, <2>1, EventsSelect
<1>5. CASE Closes
  <2>1. UNCHANGED <<tty, urgent>>
    BY <1>5 DEF Closes, ReadCloses, WriteCloses, ExceptCloses
  <2> QED BY <1>2, <1>5, <2>1, EventsCloses
<1>6. CASE Accept
  <2>1. UNCHANGED <<tty, urgent>>
    BY <1>6 DEF Accept
  <2> QED BY <1>2, <1>6, <2>1, EventsAccept
<1>7. CASE Writes
  <2>1. Runs("w") /\ UNCHANGED <<devs, kernel>>
    BY <1>7 DEF Writes
  <2>2. UNCHANGED <<devs, file, tty, urgent, input, ended>>
    BY <2>1 DEF kernel
  <2>3. \A p \in Place + 1 .. 3 * Len(devs') : devs'[DevAt(p)].fd \in Set(PartAt(p)) => DevAt(p) \in Indices
    <3> SUFFICES ASSUME NEW p \in Place + 1 .. 3 * Len(devs') PROVE DevAt(p) \in Indices
      OBVIOUS
    <3>1. Place \in Nat /\ devs \in Seq(Device) /\ devs' = devs
      BY <2>1, <2>2, PlaceOK DEF Runs, DevInv, DevicesOK
    <3>2. DevAt(p) \in 1 .. Len(devs)
      BY <3>1 DEF DevAt
    <3> QED BY <3>1, <3>2 DEF Indices
  <2>4. EventsOK'
    BY <2>1, <2>2, <2>3, EventsRun
  <2> QED BY <1>2, <2>2, <2>4
<1>8. CASE ReadBytes
  <2>1. Runs("r") /\ UNCHANGED <<devs, file, urgent, ended>>
    BY <1>8 DEF ReadBytes
  <2>2. /\ tty' = tty \/ (tty' = [tty EXCEPT !.data = FALSE] /\ devs[Dev].kind = "serial")
        /\ input' = input \/ input' = input \ {Held(devs[Dev])}
    BY <1>8 DEF ReadBytes
  <2>3. TtyOK' /\ tty'.hangs = tty.hangs
    BY <1>1, <2>2 DEF Calm
  <2>4. tty'.data = tty.data \/ Dev = 1
    <3>1. Dev \in Indices
      BY <2>1, PlaceOK DEF Runs
    <3> QED BY <2>2, <3>1, KindOK
  <2>5. \A p \in Place + 1 .. 3 * Len(devs') : devs'[DevAt(p)].fd \in Set(PartAt(p)) => DevAt(p) \in Indices
    <3> SUFFICES ASSUME NEW p \in Place + 1 .. 3 * Len(devs') PROVE DevAt(p) \in Indices
      OBVIOUS
    <3>1. Place \in Nat /\ devs \in Seq(Device) /\ devs' = devs
      BY <2>1, PlaceOK DEF Runs, DevInv, DevicesOK
    <3>2. DevAt(p) \in 1 .. Len(devs)
      BY <3>1 DEF DevAt
    <3> QED BY <3>1, <3>2 DEF Indices
  <2>6. EventsOK'
    BY <2>1, <2>2, <2>3, <2>4, <2>5, EventsRun
  <2> QED BY <2>1, <2>3, <2>6 DEF CalmInv
<1>9. CASE TtyHangs
  <2>1. tty' = [data |-> FALSE, hung |-> TRUE, hangs |-> tty.hangs + 1] /\ UNCHANGED urgent
    BY <1>9 DEF TtyHangs
  <2>2. tty.hangs \in Nat
    BY <1>1
  <2>3. ~Calm'
    BY <2>1, <2>2 DEF Calm
  <2>4. tty' \in [data : BOOLEAN, hung : BOOLEAN, hangs : Nat]
    BY <2>1, <2>2
  <2> QED BY <2>1, <2>3, <2>4 DEF CalmInv, EventsOK
<1>10. CASE TtyData \/ \E c \in Conns : Connect(c) \/ Sends(c) \/ Urges(c) \/ Ends(c)
  <2>1. UNCHANGED <<devs, file, loop, reported>>
    BY <1>10 DEF TtyData, Connect, Sends, Urges, Ends, World
  <2>2. tty' = tty \/ tty' = [tty EXCEPT !.data = TRUE]
    BY <1>10 DEF TtyData, Connect, Sends, Urges, Ends
  <2>3. input \subseteq input' /\ ended \subseteq ended' /\ urgent \subseteq urgent' /\ urgent' \subseteq Conns
    BY <1>10 DEF TtyData, Connect, Sends, Urges, Ends, CalmInv
  <2>4. TtyOK' /\ tty'.hangs = tty.hangs /\ (tty.data => tty'.data)
    BY <1>1, <2>2 DEF Calm
  <2>5. EventsOK'
    BY <2>1, <2>3, <2>4, EventsKept DEF loop
  <2> QED BY <2>3, <2>4, <2>5 DEF CalmInv
<1> QED BY <1>3, <1>4, <1>5, <1>6, <1>7, <1>8, <1>9, <1>10
        DEF Next, Daemon, Select, Dispatch, Handlers, Closes

(* All three hold in every state.                                          *)
LEMMA InCalm == Spec => [](DevInv /\ LoopInv /\ CalmInv)
<1>1. DevInv /\ LoopInv /\ CalmInv /\ [Next]_vars => CalmInv'
  <2>1. DevInv /\ LoopInv /\ CalmInv /\ UNCHANGED vars => CalmInv'
    <3> SUFFICES ASSUME CalmInv, UNCHANGED vars PROVE CalmInv'
      OBVIOUS
    <3>1. UNCHANGED <<devs, file, pc, at, rset, wset, xset, reported, tty, input, ended, urgent>>
      BY DEF vars, loop, kernel
    <3>2. EventsOK'
      BY <3>1, EventsKept
    <3> QED BY <3>1, <3>2 DEF CalmInv, Calm
  <2> QED BY <2>1, CalmNext
<1> QED BY <1>1, CalmInit, Invariants, PTL DEF Spec

(* Until the tty hangs up, every handler that selector_dispatch calls runs *)
(* for an event that the last select reported for the file the device      *)
(* holds then: no bit outlives a close, and no reuse of a slot or of a     *)
(* descriptor by a client comes between the report and the call.           *)
THEOREM EventsOwned == Spec => OwnEvents
<1>1. ASSUME DevInv, LoopInv, CalmInv, Calm, pc = "dispatch", Coming /= {}
      PROVE  <<Held(devs[Dev]), PartAt(Place)>> \in reported
  BY <1>1, RunsOK DEF EventOK, Dev
<1>2. DevInv /\ LoopInv /\ CalmInv =>
        [Calm /\ pc = "dispatch" /\ Coming /= {} /\ at' > at
           => <<Held(devs[Dev]), PartAt(Place)>> \in reported]_vars
  BY <1>1
<1> QED BY <1>2, InCalm, PTL DEF OwnEvents

(* Until the tty hangs up, a connection is closed only when its client     *)
(* closed it or sent urgent data, with every accept, reuse of a slot and   *)
(* reuse of a descriptor in between.                                       *)
THEOREM ConnectionsCalm == Spec => ConnectionsKeptCalm
<1>1. ASSUME DevInv, LoopInv, CalmInv, Calm, [Next]_vars
      PROVE  Dropped \subseteq ended \cup urgent
  <2> SUFFICES ASSUME NEW f \in Fds, file[f] \in Conns, file'[f] /= file[f]
               PROVE  file[f] \in ended \cup urgent
    BY DEF Dropped
  <2>1. "none" \notin Conns
    BY SelectorAssumption
  <2>2. CASE Quiet
    BY <2>2, QuietOK
  <2>3. CASE \E c \in Conns : Connect(c)
    BY <2>3 DEF Connect, World
  <2>4. CASE MasksReopen
    <3>1. file' = file \/ (\E what : file' = [file EXCEPT ![Free] = what])
      BY <2>4 DEF MasksReopen
    <3>2. file[Free] = "none"
      BY <1>1, <2>4, DevReopen DEF LoopInv
    <3> QED BY <1>1, <2>1, <3>1, <3>2 DEF DevInv, FilesOK
  <2>5. CASE Closes
    <3>1. Dev \in Indices /\ devs[Dev].fd \in Fds
      BY <2>5, <1>1, PlaceOK DEF Closes, ReadCloses, WriteCloses, ExceptCloses, Runs
    <3>2. Close(Dev)
      BY <2>5 DEF Closes, ReadCloses, WriteCloses, ExceptCloses
    <3>3. \A g \in Fds : file'[g] = IF g = devs[Dev].fd THEN "none" ELSE file[g]
      BY <1>1, <3>1, <3>2, ClosedOK
    <3>4. f = devs[Dev].fd /\ Held(devs[Dev]) = file[f]
      BY <1>1, <3>1, <3>3, HeldOK
    <3> QED BY <1>1, <2>5, <3>4, CloseReason
  <2>6. CASE Accept
    <3>1. /\ file[Free] = "none"
          /\ \A g \in Fds : file'[g] = IF g = Free THEN Head(backlog) ELSE file[g]
      BY <1>1, <2>6, DevAccept
    <3> QED BY <2>1, <3>1
  <2>7. CASE UNCHANGED vars
    BY <2>7 DEF vars, kernel
  <2> QED BY <1>1, <2>2, <2>3, <2>4, <2>5, <2>6, <2>7, NextCases
<1>2. DevInv /\ LoopInv /\ CalmInv /\ [Next]_vars => [Calm => Dropped \subseteq ended \cup urgent]_vars
  BY <1>1
<1> QED BY <1>2, InCalm, PTL DEF ConnectionsKeptCalm, Spec
=============================================================================
