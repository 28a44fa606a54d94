-------------------------- MODULE LifecycleProofs --------------------------
(***************************************************************************)
(* Proofs about Lifecycle, for every answer of the resolver and every set  *)
(* of addresses in use.                                                    *)
(***************************************************************************)
EXTENDS Lifecycle, SequenceTheorems, TLAPS

(* What push_sighandler and pop_sighandler leave: the stack holds, in the  *)
(* order of installation, the handlers that were there before, and the     *)
(* dispositions are those of the signals still on it.                      *)
HupEntry == [sig |-> "HUP", handler |-> "default"]
IntEntry == [sig |-> "INT", handler |-> "default"]

Entries == [sig : Signals, handler : {"default", "break"}]

Bare == /\ stack \in Seq(Entries) /\ Len(stack) = 0
        /\ disp = [s \in Signals |-> "default"]
Half == /\ stack \in Seq(Entries) /\ Len(stack) = 1 /\ stack[1] = HupEntry
        /\ disp = [s \in Signals |-> IF s = "HUP" THEN "break" ELSE "default"]
Full == /\ stack \in Seq(Entries) /\ Len(stack) = 2
        /\ stack[1] = HupEntry /\ stack[2] = IntEntry
        /\ disp = [s \in Signals |-> "break"]

Working == {"find", "resolve", "listen", "loop", "ioset", "switch"}

StackMatches == /\ pc \in {"install", "exit"} => Bare
                /\ pc = "install_int" => Half
                /\ pc \in Working => Full
                /\ pc = "pop" => Half \/ Full

(* The two entries that init pushes.                                       *)
LEMMA EntriesOK == HupEntry \in Entries /\ IntEntry \in Entries
BY DEF HupEntry, IntEntry, Entries, Signals

(* What is under the entry that push_sighandler adds stays.                *)
LEMMA Pushed ==
  ASSUME NEW S, NEW seq \in Seq(S), Len(seq) = 1, NEW elt \in S
  PROVE  /\ Append(seq, elt) \in Seq(S) /\ Len(Append(seq, elt)) = 2
         /\ Append(seq, elt)[1] = seq[1] /\ Append(seq, elt)[2] = elt
<1>1. Append(seq, elt) \in Seq(S) /\ Len(Append(seq, elt)) = 2
  OBVIOUS
<1>2. Append(seq, elt)[1] = seq[1]
  OBVIOUS
<1>3. Append(seq, elt)[2] = elt
  BY AppendProperties
<1> QED BY <1>1, <1>2, <1>3

(* The actions that touch neither the handlers nor the stack, and stay     *)
(* between initialisation and close.                                       *)
LEMMA StackKept ==
  ASSUME StackMatches, UNCHANGED <<disp, stack>>,
         pc \in Working, pc' \in Working \cup {"pop", "crashed"}
  PROVE  StackMatches'
BY DEF StackMatches, Bare, Half, Full, Working

(* Before init the stack is empty and the handlers are the default ones.   *)
LEMMA StackInit == Init => StackMatches
BY DEF Init, StackMatches, Bare, Working

(* Push and pop go in opposite orders, and all else leaves the stack.      *)
LEMMA StackStep == ASSUME StackMatches, [Next]_vars PROVE StackMatches'
<1>1. CASE Install
  <2>1. CASE pc = "install"
    <3>1. Bare
      BY <2>1 DEF StackMatches
    <3>2. disp["HUP"] = "default"
      BY <3>1 DEF Bare, Signals
    <3>3. stack' = Append(stack, HupEntry)
      BY <1>1, <2>1, <3>2 DEF Install, HupEntry
    <3>4. disp' = [s \in Signals |-> IF s = "HUP" THEN "break" ELSE "default"]
      BY <1>1, <2>1, <3>1 DEF Install, Bare, Signals
    <3>5. Half'
      BY <3>1, <3>3, <3>4, EntriesOK DEF Bare, Half
    <3> QED BY <1>1, <2>1, <3>5 DEF Install, StackMatches, Working
  <2>2. CASE pc = "install_int"
    <3>1. Half
      BY <2>2 DEF StackMatches
    <3>2. disp["INT"] = "default"
      BY <3>1 DEF Half, Signals
    <3>3. stack' = Append(stack, IntEntry)
      BY <1>1, <2>2, <3>2 DEF Install, IntEntry
    <3>4. disp' = [s \in Signals |-> "break"]
      BY <1>1, <2>2, <3>1 DEF Install, Half, Signals
    <3>5. /\ stack' \in Seq(Entries) /\ Len(stack') = 2
          /\ stack'[1] = stack[1] /\ stack'[2] = IntEntry
      <4>1. stack \in Seq(Entries) /\ Len(stack) = 1 /\ IntEntry \in Entries
        BY <3>1, EntriesOK DEF Half
      <4> QED BY <3>3, <4>1, Pushed
    <3>6. Full'
      BY <3>1, <3>4, <3>5 DEF Half, Full
    <3> QED BY <1>1, <2>2, <3>6 DEF Install, StackMatches, Working
  <2> QED BY <1>1, <2>1, <2>2 DEF Install
<1>2. CASE FindSerial \/ NoSerial
  BY <1>2, StackKept DEF FindSerial, NoSerial, SelectorInit, Working, signals
<1>3. CASE Resolve \/ ResolveFails
  BY <1>3, StackKept DEF Resolve, ResolveFails, Followed, Working, signals
<1>4. CASE NextAddress \/ LastAddress
  BY <1>4, StackKept DEF NextAddress, LastAddress, Working, signals
<1>5. CASE Loop
  BY <1>5, StackKept DEF Loop, Pass, VisitSerial, VisitListener, Visit, Idle, Busy, TakesPlace,
     Closes, Working, signals
<1>6. CASE Switch
  BY <1>6, StackKept DEF Switch, Reload, Interrupted, Process, Working, signals
<1>7. CASE Pop
  <2>1. CASE Full
    <3>1. stack' = SubSeq(stack, 1, 1) /\ pc' = "pop"
      BY <1>7, <2>1 DEF Pop, Full
    <3>2. disp' = [disp EXCEPT !["INT"] = "default"]
      BY <1>7, <2>1 DEF Pop, Handlers, Full, IntEntry
    <3>3. disp' = [s \in Signals |-> IF s = "HUP" THEN "break" ELSE "default"]
      BY <2>1, <3>2 DEF Full, Signals
    <3>4. Half'
      BY <2>1, <3>1, <3>3 DEF Full, Half
    <3> QED BY <3>1, <3>4 DEF StackMatches, Working
  <2>2. CASE Half
    <3>1. stack' = SubSeq(stack, 1, 0) /\ pc' \in {"install", "exit"}
      BY <1>7, <2>2 DEF Pop, After, Half
    <3>2. disp' = [disp EXCEPT !["HUP"] = "default"]
      BY <1>7, <2>2 DEF Pop, Handlers, Half, HupEntry
    <3>3. disp' = [s \in Signals |-> "default"]
      BY <2>2, <3>2 DEF Half, Signals
    <3>4. Bare'
      BY <2>2, <3>1, <3>3 DEF Half, Bare
    <3> QED BY <3>1, <3>4 DEF StackMatches, Working
  <2> QED BY <1>7, <2>1, <2>2 DEF Pop, StackMatches
<1>8. CASE World
  BY <1>8 DEF World, Release, TtyGoes, TtyComes, signals, StackMatches, Bare, Half, Full
<1>9. ASSUME NEW s \in Signals, Deliver(s) PROVE StackMatches'
  BY <1>9 DEF Deliver, Ended, StackMatches, Bare, Half, Full, Working
<1>10. CASE UNCHANGED vars
  BY <1>10 DEF vars, signals, StackMatches, Bare, Half, Full
<1> QED BY <1>1, <1>2, <1>3, <1>4, <1>5, <1>6, <1>7, <1>8, <1>9, <1>10
        DEF Next, Main, Initialise

(* What the stack says of the handlers.                                    *)
LEMMA StackSuffices == StackMatches => HandlersInPlace
BY DEF StackMatches, Bare, Full, HandlersInPlace, Working

(* In the loop both signals are handled, after any number of reloads and   *)
(* with signals at any point, and hdmi2usb_main returns with the handlers  *)
(* it found.                                                               *)
THEOREM HandlersCorrect == Spec => []HandlersInPlace
BY StackInit, StackStep, StackSuffices, PTL DEF Spec

------------------------------------------------------------------------------
(* The loop over the addresses: listen_ports has the bits of the addresses *)
(* that were passed, each bit is that of one listener, and the bit that    *)
(* ends the loop is not set.                                               *)
Listener == [family : Families, addr : Resolved, state : States]
FamilyBit(family) == IF family = 4 THEN 1 ELSE 2

Bits ==
  /\ 4 \notin found.ports
  /\ \A f \in Families : FamilyBit(f) \in found.ports
       => \E i \in DOMAIN listeners : listeners[i].family = f
  /\ \A i \in DOMAIN listeners :
       listeners[i].addr /= AnyAddr /\ FamilyBit(listeners[i].family) \in found.ports
Apart == \A i, j \in DOMAIN listeners : i < j /\ listeners[j].addr /= AnyAddr
           => listeners[i].family /= listeners[j].family
Passed == \A k \in DOMAIN found.list : k < found.next => Bit(found.list[k]) \in found.ports
Covered == \A k \in DOMAIN found.list : \E i \in DOMAIN listeners :
             listeners[i].family = found.list[k].family \/ listeners[i].addr = AnyAddr

ListenInv ==
  /\ listeners \in Seq(Listener)
  /\ pc = "resolve" => listeners = <<>>
  /\ pc = "listen" => /\ found.list \in AddrLists /\ found.next \in Nat \ {0}
                      /\ Bits /\ Apart /\ Passed
  /\ pc \in {"loop", "ioset", "switch"} => listeners /= <<>> /\ Apart /\ Covered

(* Before the first address.                                               *)
LEMMA ListenInit == Init => ListenInv
BY DEF Init, ListenInv

(* An address that the resolver gave, and the listener made for it.        *)
LEMMA EntryOK ==
  ASSUME NEW list \in AddrLists
  PROVE  /\ list \in Seq([family : Families, addr : Resolved]) /\ list /= <<>>
         /\ \A k \in DOMAIN list : list[k].family \in Families /\ Listen(list[k]) \in Listener
<1>1. list \in Seq([family : Families, addr : Resolved]) /\ list /= <<>>
  BY LifecycleAssumption
<1>2. ASSUME NEW k \in DOMAIN list
      PROVE  list[k].family \in Families /\ Listen(list[k]) \in Listener
  <2>1. k \in 1 .. Len(list)
    BY <1>1
  <2>2. list[k] \in [family : Families, addr : Resolved]
    BY <1>1, <2>1, ElementOfSeq
  <2> QED BY <2>2 DEF Listen, Listener, States
<1> QED BY <1>1, <1>2

(* A step over one address.                                                *)
LEMMA Extended ==
  ASSUME ListenInv, pc = "listen", NextAddress
  PROVE  ListenInv'
<1> DEFINE entry == found.list[found.next]
           ports == found.ports \cup {Bit(entry)}
<1>1. /\ found.list \in AddrLists /\ found.next \in Nat \ {0} /\ found.next <= Len(found.list)
      /\ listeners \in Seq(Listener) /\ Bits /\ Apart /\ Passed
  BY DEF ListenInv, NextAddress
<1>2. found.next \in DOMAIN found.list /\ entry.family \in Families /\ Listen(entry) \in Listener
  BY <1>1, EntryOK
<1>3. found'.list = found.list /\ found'.next = found.next + 1 /\ found'.ports = ports
  BY DEF NextAddress
<1>4. listeners' = IF ListenOn(entry) THEN Append(listeners, Listen(entry)) ELSE listeners
  BY DEF NextAddress
<1>5. pc' = IF 4 \in ports \/ ports = {1, 2} THEN "loop" ELSE pc
  BY DEF NextAddress
<1> HIDE DEF entry, ports
<1>6. listeners' \in Seq(Listener)
  BY <1>1, <1>2, <1>4
<1>7. Passed'
  <2> SUFFICES ASSUME NEW k \in DOMAIN found.list, k < found.next + 1
               PROVE  Bit(found.list[k]) \in ports
    BY <1>3 DEF Passed, Bit
  <2>1. CASE k < found.next
    BY <1>1, <2>1 DEF Passed, ports
  <2>2. CASE k = found.next
    BY <2>2 DEF ports, entry
  <2>3. k \in Nat
    BY <1>1, EntryOK
  <2> QED BY <1>1, <2>1, <2>2, <2>3
<1>8. CASE ~ListenOn(entry)
  <2>1. listeners' = listeners /\ ports = found.ports /\ Bit(entry) /= 4
    BY <1>4, <1>8 DEF ListenOn, ports
  <2>2. Bits' /\ Apart'
    BY <1>1, <1>3, <2>1 DEF Bits, Apart, FamilyBit
  <2>3. ASSUME ports = {1, 2} PROVE listeners /= <<>> /\ Covered'
    <3>1. \A f \in Families : \E i \in DOMAIN listeners : listeners[i].family = f
      BY <1>1, <2>1, <2>3 DEF Bits, FamilyBit
    <3>2. \A k \in DOMAIN found.list : found.list[k].family \in Families
      BY <1>1, EntryOK
    <3>3. Covered'
      BY <1>3, <2>1, <3>1, <3>2 DEF Covered
    <3> QED BY <1>2, <3>1, <3>3
  <2>4. 4 \notin ports
    BY <1>1, <2>1 DEF Bits
  <2> QED BY <1>1, <1>3, <1>5, <1>6, <1>7, <2>1, <2>2, <2>3, <2>4 DEF ListenInv
<1>9. CASE ListenOn(entry)
  <2> DEFINE n == Len(listeners) + 1
  <2>1. /\ listeners' = Append(listeners, Listen(entry)) /\ DOMAIN listeners' = 1 .. n
        /\ DOMAIN listeners = 1 .. n - 1 /\ n \in Nat
    BY <1>1, <1>4, <1>9
  <2>2. listeners'[n] = Listen(entry) /\ \A i \in DOMAIN listeners : listeners'[i] = listeners[i]
    BY <1>1, <1>2, <2>1
  <2> HIDE DEF n
  <2>3. Apart'
    <3> SUFFICES ASSUME NEW i \in 1 .. n, NEW j \in 1 .. n, i < j,
                        listeners'[j].addr /= AnyAddr
                 PROVE  listeners'[i].family /= listeners'[j].family
      BY <2>1 DEF Apart
    <3>1. i \in DOMAIN listeners
      BY <2>1
    <3>2. CASE j \in DOMAIN listeners
      BY <1>1, <2>2, <3>1, <3>2 DEF Apart
    <3>3. CASE j = n
      <4>1. entry.addr /= AnyAddr /\ Bit(entry) = FamilyBit(entry.family)
        BY <2>2, <3>3 DEF Listen, Bit, FamilyBit
      <4>2. FamilyBit(entry.family) \notin found.ports
        BY <1>9, <4>1 DEF ListenOn, FamilyBit
      <4> QED BY <1>1, <2>2, <3>1, <3>3, <4>2 DEF Bits, Listen
    <3> QED BY <2>1, <3>2, <3>3
  <2>4. CASE Bit(entry) = 4
    <3>1. entry.addr = AnyAddr
      BY <2>4 DEF Bit
    <3>2. listeners' /= <<>> /\ Covered'
      BY <1>3, <2>1, <2>2, <3>1 DEF Covered, Listen
    <3>3. pc' = "loop"
      BY <1>5, <2>4 DEF ports
    <3> QED BY <1>6, <2>3, <3>2, <3>3 DEF ListenInv
  <2>5. CASE Bit(entry) /= 4
    <3>1. entry.addr /= AnyAddr /\ Bit(entry) = FamilyBit(entry.family)
      BY <2>5 DEF Bit, FamilyBit
    <3>2. Bits'
      <4>1. 4 \notin ports
        BY <1>1, <2>5 DEF Bits, ports
      <4>2. ASSUME NEW f \in Families, FamilyBit(f) \in ports
            PROVE  \E i \in 1 .. n : listeners'[i].family = f
        <5>1. CASE FamilyBit(f) \in found.ports
          <6>1. PICK i \in DOMAIN listeners : listeners[i].family = f
            BY <1>1, <5>1 DEF Bits
          <6> QED BY <2>1, <2>2, <6>1
        <5>2. CASE FamilyBit(f) = Bit(entry)
          <6>1. f = entry.family
            BY <1>2, <3>1, <5>2 DEF FamilyBit, Families
          <6>2. listeners'[n].family = f
            BY <2>2, <6>1 DEF Listen
          <6> QED BY <2>1, <6>2
        <5> QED BY <4>2, <5>1, <5>2 DEF ports
      <4>3. ASSUME NEW i \in 1 .. n
            PROVE  listeners'[i].addr /= AnyAddr /\ FamilyBit(listeners'[i].family) \in ports
        <5>1. CASE i \in DOMAIN listeners
          BY <1>1, <2>2, <5>1 DEF Bits, ports
        <5>2. CASE i = n
          BY <2>2, <3>1, <5>2 DEF Listen, ports
        <5> QED BY <2>1, <5>1, <5>2
      <4> QED BY <1>3, <2>1, <4>1, <4>2, <4>3 DEF Bits
    <3>3. ASSUME ports = {1, 2} PROVE Covered'
      <4>1. \A f \in Families : \E i \in DOMAIN listeners' : listeners'[i].family = f
        BY <1>3, <3>2, <3>3 DEF Bits, FamilyBit
      <4>2. \A k \in DOMAIN found.list : found.list[k].family \in Families
        BY <1>1, EntryOK
      <4> QED BY <1>3, <4>1, <4>2 DEF Covered
    <3>4. listeners' /= <<>> /\ 4 \notin ports
      BY <1>3, <2>1, <3>2 DEF Bits
    <3> QED BY <1>1, <1>3, <1>5, <1>6, <1>7, <2>3, <3>2, <3>3, <3>4 DEF ListenInv
  <2> QED BY <2>4, <2>5
<1> QED BY <1>8, <1>9

(* The steps that leave the listeners and the addresses alone.             *)
LEMMA ListenKept ==
  ASSUME ListenInv, UNCHANGED <<listeners, found>>,
         \/ pc' = pc \/ pc' \notin {"resolve", "listen", "loop", "ioset", "switch"}
         \/ {pc, pc'} \subseteq {"loop", "ioset", "switch"}
  PROVE  ListenInv'
BY DEF ListenInv, Bits, Apart, Passed, Covered, Bit

(* What tcp_open_listen can make of the state of a listener.               *)
LEMMA BoundOK == \A addr : Bound(addr) \subseteq States
BY DEF Bound, NoSocket, States

(* A listener that changes its state keeps its family and its address.     *)
LEMMA Restated ==
  ASSUME ListenInv, pc = "ioset", pc' \in {"loop", "ioset"}, found' = found,
         NEW i \in DOMAIN listeners, NEW state \in States,
         listeners' = [listeners EXCEPT ![i].state = state]
  PROVE  ListenInv'
<1>1. listeners \in Seq(Listener) /\ listeners /= <<>> /\ Apart /\ Covered
  BY DEF ListenInv
<1>2. \A j \in DOMAIN listeners : listeners[j] \in Listener
  BY <1>1, ElementOfSeq
<1>3. /\ DOMAIN listeners' = DOMAIN listeners
      /\ \A j \in DOMAIN listeners : /\ listeners'[j] \in Listener
                                     /\ listeners'[j].family = listeners[j].family
                                     /\ listeners'[j].addr = listeners[j].addr
  BY <1>2 DEF Listener
<1>4. listeners' \in Seq(Listener) /\ listeners' /= <<>>
  BY <1>1, <1>3
<1>5. Apart' /\ Covered'
  BY <1>1, <1>3 DEF Apart, Covered
<1> QED BY <1>4, <1>5 DEF ListenInv

(* A step keeps the invariant: the loop over the addresses and             *)
(* selector_init change the listeners, what opens one or takes its place   *)
(* changes its state only.                                                 *)
LEMMA ListenStep == ASSUME ListenInv, [Next]_vars PROVE ListenInv'
<1>1. CASE Install
  BY <1>1, ListenKept DEF Install, devices
<1>2. CASE FindSerial \/ NoSerial
  <2>1. listeners' = <<>> /\ pc' \in {"resolve", "pop"}
    BY <1>2 DEF FindSerial, NoSerial, SelectorInit
  <2> QED BY <2>1 DEF ListenInv
<1>3. CASE Resolve
  <2>1. pc = "resolve" /\ pc' = "listen" /\ listeners' = listeners /\ listeners = <<>>
    BY <1>3 DEF Resolve, ListenInv
  <2>2. found'.list \in AddrLists /\ found'.next = 1 /\ found'.ports = {}
    BY <1>3 DEF Resolve
  <2>3. found'.list \in Seq([family : Families, addr : Resolved])
    BY <2>2, EntryOK
  <2>4. Bits' /\ Apart' /\ Passed'
    BY <2>1, <2>2, <2>3 DEF Bits, Apart, Passed
  <2> QED BY <2>1, <2>2, <2>4 DEF ListenInv
<1>4. CASE ResolveFails
  BY <1>4, ListenKept DEF ResolveFails, Followed, devices
<1>5. CASE NextAddress
  BY <1>5, Extended DEF NextAddress
<1>6. CASE LastAddress
  <2>1. /\ pc = "listen" /\ pc' = "loop" /\ UNCHANGED <<listeners, found>>
        /\ found.next > Len(found.list)
    BY <1>6 DEF LastAddress, devices
  <2>2. /\ found.list \in AddrLists /\ found.next \in Nat /\ listeners \in Seq(Listener)
        /\ Bits /\ Apart /\ Passed
    BY <2>1 DEF ListenInv
  <2>3. /\ found.list \in Seq([family : Families, addr : Resolved]) /\ found.list /= <<>>
        /\ \A k \in DOMAIN found.list : found.list[k].family \in Families
    BY <2>2, EntryOK
  <2>4. ASSUME NEW k \in DOMAIN found.list
        PROVE  \E i \in DOMAIN listeners : listeners[i].family = found.list[k].family
    <3>1. Bit(found.list[k]) \in found.ports /\ Bit(found.list[k]) /= 4
      BY <2>1, <2>2, <2>3 DEF Passed, Bits
    <3>2. Bit(found.list[k]) = FamilyBit(found.list[k].family)
      BY <3>1 DEF Bit, FamilyBit
    <3> QED BY <2>2, <2>3, <3>1, <3>2 DEF Bits
  <2>5. 1 \in DOMAIN found.list
    BY <2>3
  <2>6. listeners /= <<>> /\ Covered
    BY <2>4, <2>5 DEF Covered
  <2> QED BY <2>1, <2>2, <2>6 DEF ListenInv, Apart, Covered
<1>7. CASE Pass \/ Idle \/ Busy \/ Closes \/ VisitSerial
  BY <1>7, ListenKept DEF Pass, Idle, Busy, Closes, VisitSerial, Visit, devices
<1>8. ASSUME NEW i \in DOMAIN listeners, VisitListener(i) \/ TakesPlace(i) PROVE ListenInv'
  <2>1. /\ pc = "ioset" /\ pc' \in {"loop", "ioset"} /\ found' = found
        /\ listeners \in Seq(Listener)
    BY <1>8 DEF VisitListener, Visit, TakesPlace, ListenInv
  <2>2. CASE UNCHANGED listeners
    BY <2>1, <2>2, ListenKept
  <2>3. ASSUME NEW state \in States, listeners' = [listeners EXCEPT ![i].state = state]
        PROVE  ListenInv'
    BY <2>1, <2>3, Restated
  <2>4. \/ UNCHANGED listeners
        \/ \E state \in States : listeners' = [listeners EXCEPT ![i].state = state]
    BY <1>8, BoundOK DEF VisitListener, TakesPlace, States
  <2> QED BY <2>2, <2>3, <2>4
<1>9. CASE Switch \/ Pop
  BY <1>9, ListenKept DEF Switch, Reload, Interrupted, Process, Pop, After, devices
<1>10. CASE World
  BY <1>10, ListenKept DEF World, Release, TtyGoes, TtyComes, devices
<1>11. ASSUME NEW s \in Signals, Deliver(s) PROVE ListenInv'
  BY <1>11, ListenKept DEF Deliver, devices
<1>12. CASE UNCHANGED vars
  BY <1>12, ListenKept DEF vars, devices
<1> QED BY <1>1, <1>2, <1>3, <1>4, <1>5, <1>6, <1>7, <1>8, <1>9, <1>10, <1>11, <1>12
        DEF Next, Main, Initialise, Loop

(* What it says when the loop over the addresses is done.                  *)
LEMMA ListenSuffices == ListenInv => ListensOnce
BY DEF ListenInv, ListensOnce, Apart, Covered

(* After any number of reloads the loop has a listener, listens once on    *)
(* each family that was resolved, and overlaps no address but with the     *)
(* last.                                                                   *)
THEOREM ListensCorrect == Spec => []ListensOnce
BY ListenInit, ListenStep, ListenSuffices, PTL DEF Spec
------------------------------------------------------------------------------
(* Types.                                                                  *)

(* The selector's own addresses are addresses that were resolved.          *)
LEMMA HeldOK == ASSUME listeners \in Seq(Listener) PROVE Held \subseteq Resolved
<1>1. ASSUME NEW i \in DOMAIN listeners PROVE listeners[i].addr \in Resolved
  <2>1. i \in 1 .. Len(listeners)
    OBVIOUS
  <2>2. listeners[i] \in Listener
    BY <2>1, ElementOfSeq
  <2> QED BY <2>2 DEF Listener
<1> QED BY <1>1 DEF Held

(* The parts of TypeOK: what the main program keeps, its signals, the      *)
(* serial device, the addresses and the world.                             *)
Points == {"install", "install_int", "find", "resolve", "listen",
            "loop", "ioset", "switch", "pop"} \cup Ended
MainOK    == pc \in Points /\ todo \subseteq Nat /\ active \in BOOLEAN /\ rc \in Codes
SignalsOK == /\ signal \in Signals \cup {"none"} /\ disp \in [Signals -> {"default", "break"}]
             /\ stack \in Seq(Entries) /\ Len(stack) <= 2
PortOK    == portname \in Ttys \cup {"none"} /\ serial \in States /\ hung \in BOOLEAN
FoundOK   == /\ found.list \in AddrLists \cup {<<>>}
             /\ found.next \in 1 .. Len(found.list) + 1 /\ found.ports \subseteq {1, 2, 4}
WorldOK   == lost \subseteq Resolved /\ foreign \subseteq Foreign /\ ttys \subseteq Ttys
             /\ scarce \in BOOLEAN

(* The patterns apart, which in the process the settings change.           *)
RestOK == MainOK /\ SignalsOK /\ PortOK /\ FoundOK /\ WorldOK /\ listeners \in Seq(Listener)

(* TypeOK is these parts, before a step and after it.                      *)
LEMMA TypeParts == (TypeOK <=> RestOK /\ spec \in Specs) /\ (TypeOK' <=> RestOK' /\ spec' \in Specs)
BY DEF TypeOK, RestOK, MainOK, SignalsOK, PortOK, FoundOK, WorldOK, Points, Entries, Listener

(* The types, at the start.                                                *)
LEMMA TypeInit == Init => TypeOK
<1> SUFFICES ASSUME Init PROVE RestOK /\ spec \in Specs
  BY TypeParts
<1>1. MainOK
  BY DEF Init, MainOK, Points, Codes
<1>2. SignalsOK
  BY DEF Init, SignalsOK, Signals, Entries
<1>3. PortOK
  BY DEF Init, PortOK, States
<1>4. FoundOK
  BY DEF Init, FoundOK, Unresolved
<1>5. WorldOK /\ listeners \in Seq(Listener) /\ spec \in Specs
  BY DEF Init, WorldOK
<1> QED BY <1>1, <1>2, <1>3, <1>4, <1>5 DEF RestOK

(* The main program goes from one of its places to another.                *)
LEMMA MainStep == ASSUME MainOK, listeners \in Seq(Listener), [Next]_vars PROVE MainOK'
<1>1. pc' \in Points /\ rc' \in Codes
  <2>1. CASE Initialise
    BY <2>1 DEF MainOK, Points, Ended, Codes, Initialise, Install, FindSerial, NoSerial,
       SelectorInit, Resolve, ResolveFails, Followed, NextAddress, LastAddress
  <2>2. CASE Loop
    BY <2>2 DEF MainOK, Points, Ended, Codes, Loop, Pass, VisitSerial, VisitListener, Visit,
       Idle, Busy, TakesPlace, Closes
  <2>3. CASE Switch \/ Pop
    BY <2>3 DEF MainOK, Points, Ended, Codes, Switch, Reload, Interrupted, Process, Pop, After
  <2>4. CASE World \/ (\E s \in Signals : Deliver(s)) \/ UNCHANGED vars
    BY <2>4 DEF MainOK, Points, Ended, Codes, World, Release, TtyGoes, TtyComes, Deliver, vars
  <2> QED BY <2>1, <2>2, <2>3, <2>4 DEF Next, Main
<1>2. CASE Pass
  <2>1. todo' = {0} \cup DOMAIN listeners /\ active' = FALSE
    BY <1>2 DEF Pass
  <2>2. DOMAIN listeners \subseteq Nat
    OBVIOUS
  <2>3. todo' \subseteq Nat
    BY <2>1, <2>2
  <2>4. active' \in BOOLEAN
    BY <2>1
  <2> QED BY <1>1, <2>3, <2>4 DEF MainOK
<1>3. CASE VisitSerial \/ (\E i \in DOMAIN listeners : VisitListener(i))
  <2>1. PICK i, state : Visit(i, state)
    BY <1>3 DEF VisitSerial, VisitListener
  <2>2. todo' = todo \ {i}
    BY <2>1 DEF Visit
  <2>3. active' = (active \/ state = "open")
    BY <2>1 DEF Visit
  <2>4. active' \in BOOLEAN
    BY <2>3
  <2> QED BY <1>1, <2>2, <2>4 DEF MainOK
<1>4. CASE ~(Pass \/ VisitSerial \/ (\E i \in DOMAIN listeners : VisitListener(i)))
  <2>1. UNCHANGED <<todo, active>>
    BY <1>4 DEF Next, Main, Initialise, Loop, Switch, Install, FindSerial, NoSerial, Resolve,
       ResolveFails, NextAddress, LastAddress, Idle, Busy, TakesPlace, Closes, Reload, Interrupted,
       Process, Pop, World, Release, TtyGoes, TtyComes, Deliver, vars
  <2> QED BY <1>1, <2>1 DEF MainOK
<1> QED BY <1>2, <1>3, <1>4

(* push_sighandler finds at most one entry, pop_sighandler takes one off.  *)
LEMMA SignalsStep == ASSUME SignalsOK, StackMatches, [Next]_vars PROVE SignalsOK'
<1>1. CASE Install
  <2> DEFINE sig == IF pc = "install" THEN "HUP" ELSE "INT"
  <2>1. /\ stack' = Append(stack, [sig |-> sig, handler |-> disp[sig]])
        /\ disp' = [disp EXCEPT ![sig] = "break"] /\ signal' = signal
    BY <1>1 DEF Install
  <2>2. sig \in Signals
    BY DEF Signals
  <2> HIDE DEF sig
  <2>3. [sig |-> sig, handler |-> disp[sig]] \in Entries
    BY <2>2 DEF SignalsOK, Entries
  <2>4. Len(stack) <= 1
    BY <1>1 DEF Install, StackMatches, Bare, Half
  <2>5. stack' \in Seq(Entries) /\ Len(stack') <= 2
    BY <2>1, <2>3, <2>4 DEF SignalsOK
  <2>6. disp' \in [Signals -> {"default", "break"}]
    BY <2>1, <2>2 DEF SignalsOK
  <2> QED BY <2>1, <2>5, <2>6 DEF SignalsOK
<1>2. CASE Pop
  <2>1. /\ stack /= <<>> /\ stack' = SubSeq(stack, 1, Len(stack) - 1)
        /\ disp' = [disp EXCEPT ![stack[Len(stack)].sig] = stack[Len(stack)].handler]
        /\ signal' = signal
    BY <1>2 DEF Pop, Handlers
  <2>2. stack[Len(stack)] \in Entries
    BY <2>1 DEF SignalsOK
  <2>3. stack' \in Seq(Entries) /\ Len(stack') <= 2
    BY <2>1 DEF SignalsOK
  <2>4. disp' \in [Signals -> {"default", "break"}]
    BY <2>1, <2>2 DEF SignalsOK, Entries
  <2> QED BY <2>1, <2>3, <2>4 DEF SignalsOK
<1>3. ASSUME NEW s \in Signals, Deliver(s) PROVE SignalsOK'
  BY <1>3 DEF Deliver, SignalsOK
<1>4. CASE FindSerial \/ NoSerial \/ Resolve \/ ResolveFails \/ NextAddress \/ LastAddress
  BY <1>4 DEF FindSerial, NoSerial, Resolve, ResolveFails, NextAddress, LastAddress, signals,
     SignalsOK
<1>5. CASE Loop
  BY <1>5 DEF Loop, Pass, VisitSerial, VisitListener, Visit, Idle, Busy, TakesPlace,
     Closes, signals, SignalsOK
<1>6. CASE Switch \/ World \/ UNCHANGED vars
  BY <1>6 DEF Switch, Reload, Interrupted, Process, World, Release, TtyGoes, TtyComes, vars,
     signals, SignalsOK
<1> QED BY <1>1, <1>2, <1>3, <1>4, <1>5, <1>6 DEF Next, Main, Initialise

(* The name of the serial device is that of a tty that was there.          *)
LEMMA SerialStep == ASSUME PortOK, WorldOK, [Next]_vars PROVE PortOK'
<1>1. CASE FindSerial
  <2>1. serial' = "none" /\ hung' = FALSE /\ \E c \in Candidates : portname' = spec[c[1]][c[2]]
    BY <1>1 DEF FindSerial, SelectorInit
  <2>2. portname' \in Ttys
    BY <2>1 DEF Candidates, WorldOK
  <2> QED BY <2>1, <2>2 DEF PortOK, States
<1>2. CASE NoSerial
  <2>1. serial' = "none" /\ hung' = FALSE /\ portname' = portname
    BY <1>2 DEF NoSerial, SelectorInit
  <2> QED BY <2>1 DEF PortOK, States
<1>3. CASE VisitSerial
  <2>1. portname' = portname /\ hung' = hung /\ (serial' = serial \/ serial' \in Opened)
    BY <1>3 DEF VisitSerial, Visit
  <2>2. serial' \in States
    BY <2>1 DEF PortOK, Opened, States
  <2>3. hung' \in BOOLEAN
    BY <2>1 DEF PortOK
  <2> QED BY <2>1, <2>2, <2>3 DEF PortOK
<1>4. CASE Closes
  <2>1. portname' = portname /\ hung' = FALSE /\ serial' = "closed"
    BY <1>4 DEF Closes
  <2> QED BY <2>1 DEF PortOK, States
<1>5. ASSUME NEW tty \in Ttys, TtyGoes(tty) PROVE PortOK'
  <2>1. portname' = portname /\ serial' = serial
    BY <1>5 DEF TtyGoes
  <2>2. hung' = (hung \/ (serial = "open" /\ portname = tty))
    BY <1>5 DEF TtyGoes
  <2>3. hung' \in BOOLEAN
    BY <2>2
  <2> QED BY <2>1, <2>3 DEF PortOK
<1>6. CASE UNCHANGED port
  BY <1>6 DEF port, PortOK
<1>7. CASE Install \/ Resolve \/ ResolveFails \/ NextAddress \/ LastAddress
  BY <1>6, <1>7 DEF Install, Resolve, ResolveFails, NextAddress, LastAddress, devices
<1>8. CASE \/ Pass \/ Idle \/ Busy
           \/ \E i \in DOMAIN listeners : VisitListener(i) \/ TakesPlace(i)
  BY <1>6, <1>8 DEF Pass, VisitListener, Visit, TakesPlace, Idle, Busy, devices, port
<1>9. CASE Switch \/ Pop
  BY <1>6, <1>9 DEF Switch, Reload, Interrupted, Process, Pop, devices
<1>10. CASE Release \/ (\E tty \in Ttys : TtyComes(tty))
  BY <1>6, <1>10 DEF Release, TtyComes, devices
<1>11. CASE (\E s \in Signals : Deliver(s)) \/ UNCHANGED vars
  BY <1>6, <1>11 DEF Deliver, devices, vars
<1> QED BY <1>1, <1>2, <1>3, <1>4, <1>5, <1>7, <1>8, <1>9, <1>10, <1>11
        DEF Next, Main, Initialise, Loop, World

(* The iterator goes over the list and no further than its end.            *)
LEMMA FoundStep == ASSUME FoundOK, [Next]_vars PROVE FoundOK'
<1>1. CASE FindSerial \/ NoSerial
  <2>1. found' = Unresolved
    BY <1>1 DEF FindSerial, NoSerial, SelectorInit
  <2> QED BY <2>1 DEF FoundOK, Unresolved
<1>2. CASE Resolve
  <2>1. PICK list \in AddrLists : found' = [list |-> list, next |-> 1, ports |-> {}]
    BY <1>2 DEF Resolve
  <2>2. Len(list) \in Nat
    BY EntryOK
  <2> QED BY <2>1, <2>2 DEF FoundOK
<1>3. CASE NextAddress
  <2>1. /\ found'.list = found.list /\ found'.next = found.next + 1
        /\ found'.ports = found.ports \cup {Bit(found.list[found.next])}
        /\ found.next <= Len(found.list)
    BY <1>3 DEF NextAddress
  <2>2. Len(found.list) \in Nat
    BY EntryOK DEF FoundOK
  <2>3. found'.next \in 1 .. Len(found'.list) + 1
    BY <2>1, <2>2 DEF FoundOK
  <2>4. found'.ports \subseteq {1, 2, 4}
    BY <2>1 DEF FoundOK, Bit
  <2> QED BY <2>1, <2>3, <2>4 DEF FoundOK
<1>4. CASE UNCHANGED found
  BY <1>4 DEF FoundOK
<1>5. CASE Install \/ ResolveFails \/ LastAddress \/ Switch \/ Pop
  BY <1>4, <1>5 DEF Install, ResolveFails, LastAddress, Switch, Reload, Interrupted, Process,
     Pop, devices
<1>6. CASE Loop
  BY <1>4, <1>6 DEF Loop, Pass, VisitSerial, VisitListener, Visit, Idle, Busy, TakesPlace,
     Closes, devices
<1>7. CASE World \/ (\E s \in Signals : Deliver(s)) \/ UNCHANGED vars
  BY <1>4, <1>7 DEF World, Release, TtyGoes, TtyComes, Deliver, vars, devices
<1> QED BY <1>1, <1>2, <1>3, <1>5, <1>6, <1>7 DEF Next, Main, Initialise

(* What selector_init forgets are addresses that were resolved.            *)
LEMMA WorldStep == ASSUME WorldOK, listeners \in Seq(Listener), [Next]_vars PROVE WorldOK'
<1>1. CASE FindSerial \/ NoSerial
  <2>1. lost' = lost \cup Held /\ UNCHANGED <<foreign, ttys, scarce>>
    BY <1>1 DEF FindSerial, NoSerial, SelectorInit, world
  <2> QED BY <2>1, HeldOK DEF WorldOK
<1>2. CASE UNCHANGED <<lost, world>>
  BY <1>2 DEF world, WorldOK
<1>3. CASE World
  BY <1>3 DEF World, Release, TtyGoes, TtyComes, devices, WorldOK
<1>4. CASE Install \/ Resolve \/ ResolveFails \/ NextAddress \/ LastAddress \/ Switch \/ Pop
  BY <1>2, <1>4 DEF Install, Resolve, ResolveFails, NextAddress, LastAddress, Switch, Reload,
     Interrupted, Process, Pop, devices
<1>5. CASE Loop
  BY <1>2, <1>5 DEF Loop, Pass, VisitSerial, VisitListener, Visit, Idle, Busy, TakesPlace,
     Closes, devices
<1>6. CASE (\E s \in Signals : Deliver(s)) \/ UNCHANGED vars
  BY <1>2, <1>6 DEF Deliver, vars, devices
<1> QED BY <1>1, <1>3, <1>4, <1>5, <1>6 DEF Next, Main, Initialise

(* A step of Lifecycle, in whatever process it is taken.                   *)
LEMMA RestStep == ASSUME RestOK, StackMatches, ListenInv, [Next]_vars PROVE RestOK'
<1>1. MainOK' /\ SignalsOK' /\ PortOK'
  BY MainStep, SignalsStep, SerialStep DEF RestOK
<1>2. FoundOK' /\ WorldOK'
  BY FoundStep, WorldStep DEF RestOK
<1>3. (listeners \in Seq(Listener))'
  BY ListenStep DEF ListenInv
<1> QED BY <1>1, <1>2, <1>3 DEF RestOK

(* hdmi2usb_main does not change the patterns.                             *)
LEMMA SpecKept == [Next]_vars => UNCHANGED spec
BY DEF Next, Main, Initialise, Loop, Switch, Install, FindSerial, NoSerial, Resolve, ResolveFails,
   NextAddress, LastAddress, Pass, VisitSerial, VisitListener, Visit, Idle, Busy, TakesPlace,
   Closes, Reload, Interrupted, Process, Pop, World, Release, TtyGoes, TtyComes, Deliver, vars

(* hdmi2usbd_main keeps its state in order over any number of reloads: at  *)
(* most two handlers are on the stack, the iterator stays on the resolved  *)
(* list, and the addresses of sockets that no device knows are resolved    *)
(* ones.                                                                   *)
THEOREM TypeCorrect == Spec => []TypeOK
<1> DEFINE IInv == TypeOK /\ StackMatches /\ ListenInv
<1>1. Init => IInv
  BY TypeInit, StackInit, ListenInit
<1>2. IInv /\ [Next]_vars => IInv'
  <2>1. ASSUME IInv, [Next]_vars PROVE RestOK' /\ spec' \in Specs
    BY <2>1, RestStep, SpecKept, TypeParts
  <2> QED BY <2>1, TypeParts, StackStep, ListenStep
<1>3. IInv => TypeOK
  OBVIOUS
<1> QED BY <1>1, <1>2, <1>3, PTL DEF Spec
=============================================================================
