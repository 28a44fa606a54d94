------------------------------ MODULE Selector ------------------------------
(***************************************************************************)
(* The device array and selector_loop at the level of file descriptors:    *)
(* which device holds which descriptor, which bits the three fd_sets hold  *)
(* when select is called, and which handler runs on which device after it. *)
(* Buffers are in Gateway; here a device has output to send or has not.    *)
(*                                                                         *)
(* The kernel gives out the lowest free descriptor, as POSIX says; select  *)
(* fails when one of the bits below its first argument is of a closed      *)
(* descriptor, and otherwise leaves only the bits of the ready ones.       *)
(***************************************************************************)
EXTENDS Integers, Sequences, FiniteSets

CONSTANTS Conns,      \* the connections clients make, each once
          Fds,        \* the descriptors of the process
          Talkers,    \* the clients, and "tty", that send data
          Urgers,     \* the clients that send urgent data
          Leavers,    \* the clients that close their end
          Chunk,      \* e_inc of the device array
          MaxHangs    \* bound: times the tty hangs up; data only comes before
                      \* the last

ASSUME SelectorAssumption == /\ Fds \subseteq Nat /\ IsFiniteSet(Fds) /\ IsFiniteSet(Conns)
                             /\ {"tty", "listener", "none"} \cap Conns = {}
                             /\ Cardinality(Conns) + 2 <= Cardinality(Fds)
                             /\ Chunk \in Nat \ {0}
                             /\ MaxHangs \in Nat

VARIABLES devs,       \* selector->devs: the iodev_t's
          alloced,    \* its e_all
          pc, at,     \* the place in selector_loop and the device index
          rset, wset, xset,
          highest,    \* stat.highest_fd
          active,     \* stat.active_count
          rdy,        \* ready, in selector_dispatch
          moved,      \* the array moved under the pointer dev
          out,        \* the indices of the devices with output to send
          file,       \* the kernel's descriptor table
          tty,        \* [data, hung, hangs]
          backlog,    \* connections to be accepted
          input,      \* connections with bytes to read
          urgent,     \* connections with urgent data
          ended,      \* connections the client closed
          reported    \* what the last select reported: <<file, set>>

loop == <<pc, at, rset, wset, xset, highest, active, rdy, moved>>
kernel == <<file, tty, backlog, input, urgent, ended>>
vars == <<devs, alloced, loop, out, kernel, reported>>

------------------------------------------------------------------------------
Free   == CHOOSE f \in Fds : /\ file[f] = "none"
                             /\ \A g \in Fds : file[g] = "none" => f <= g
Closed == {f \in Fds : file[f] = "none"}
Indices == DOMAIN devs
IsOpen(dev) == dev.state = "connected"
Held(dev) == IF dev.fd = -1 THEN "none" ELSE file[dev.fd]

(* serial_create, tcp_create_listen and tcp_create_accepted, in the order  *)
(* hdmi2usb_init makes them.  Index 1 here is the array's index 0.         *)
NewSerial == [kind |-> "serial", state |-> "none", fd |-> -1]
NewListen == [kind |-> "listen", state |-> "none", fd |-> -1]
NewClient(fd) == [kind |-> "client", state |-> "connected", fd |-> fd]

(* array_check_alloc: the capacity for one more element, in chunks; one    *)
(* chunk is enough, as the capacity is always above the count.             *)
(* Mutated form: only when the array is full already.                      *)
GrownLate(count) == IF alloced < count + 1 THEN alloced + Chunk ELSE alloced
Grown(count) == IF alloced <= count + 1 THEN alloced + Chunk ELSE alloced

(* array_init, and the first elements added.                               *)
Allocated(count) == Chunk * (count \div Chunk + 1)

Init == /\ devs = <<NewSerial, NewListen>>
        /\ alloced = Allocated(2)
        /\ pc = "enter" /\ at = 1 /\ moved = FALSE
        /\ rset = {} /\ wset = {} /\ xset = {}
        /\ highest = 0 /\ active = 0 /\ rdy = 0 /\ out = {}
        /\ file = [f \in Fds |-> "none"]
        /\ tty = [data |-> FALSE, hung |-> FALSE, hangs |-> 0]
        /\ backlog = <<>> /\ input = {} /\ urgent = {} /\ ended = {} /\ reported = {}

------------------------------------------------------------------------------
(* The world.  set_masks looks at nothing of the world's, so its steps are *)
(* taken at the call of select and while the handlers run.                 *)

Known == {backlog[i] : i \in DOMAIN backlog} \cup ({file[f] : f \in Fds} \cap Conns)
World == /\ pc = "dispatch" \/ (pc = "ioset" /\ at \notin Indices)
         /\ UNCHANGED <<devs, alloced, loop, out, file, reported>>

TtyData == /\ "tty" \in Talkers /\ ~tty.hung /\ ~tty.data /\ tty.hangs < MaxHangs
           /\ tty' = [tty EXCEPT !.data = TRUE]
           /\ World /\ UNCHANGED <<backlog, input, urgent, ended>>

TtyHangs == /\ ~tty.hung /\ tty.hangs < MaxHangs
            /\ \E f \in Fds : file[f] = "tty"
            /\ tty' = [data |-> FALSE, hung |-> TRUE, hangs |-> tty.hangs + 1]
            /\ World /\ UNCHANGED <<backlog, input, urgent, ended>>

Connect(c) == /\ c \notin Known \cup ended /\ \E f \in Fds : file[f] = "listener"
              /\ backlog' = Append(backlog, c)
              /\ World /\ UNCHANGED <<tty, input, urgent, ended>>

Sends(c) == /\ c \in (Known \cap Talkers) \ (ended \cup input) /\ tty.hangs < MaxHangs
            /\ input' = input \cup {c}
            /\ World /\ UNCHANGED <<tty, backlog, urgent, ended>>

Urges(c) == /\ c \in (Known \cap Urgers) \ (ended \cup urgent)
            /\ urgent' = urgent \cup {c}
            /\ World /\ UNCHANGED <<tty, backlog, input, ended>>

Ends(c) == /\ c \in (Known \cap Leavers) \ ended
           /\ ended' = ended \cup {c}
           /\ World /\ UNCHANGED <<tty, backlog, input, urgent>>

------------------------------------------------------------------------------
(* selector_loop up to select.                                             *)

(* FD_ZERO of the three sets, once for each call of selector_loop.         *)
(* Mutated form: the sets of the last call are used again.                 *)
EnterUncleared == /\ pc = "enter"
                  /\ pc' = "ioset"
                  /\ UNCHANGED <<devs, alloced, at, rset, wset, xset, highest, active, rdy, moved,
                                 out, kernel, reported>>
Enter == /\ pc = "enter"
         /\ rset' = {} /\ wset' = {} /\ xset' = {}
         /\ pc' = "ioset"
         /\ UNCHANGED <<devs, alloced, at, highest, active, rdy, moved, out, kernel, reported>>

(* set_masks of an open device: a read bit (a receive buffer has room      *)
(* here), a write bit for output, an x bit.                                *)
MasksOpen ==
  LET dev == devs[at]
  IN /\ pc = "ioset" /\ at \in Indices /\ IsOpen(dev)
     /\ rset' = rset \cup {dev.fd}
     /\ wset' = IF at \in out THEN wset \cup {dev.fd} ELSE wset \ {dev.fd}
     /\ xset' = xset \cup {dev.fd}
     /\ active' = active + 1
     /\ highest' = IF dev.fd > highest THEN dev.fd ELSE highest
     /\ at' = at + 1
     /\ UNCHANGED <<devs, alloced, pc, rdy, moved, out, kernel, reported>>

(* serial_open and tcp_open_listen, called from set_masks for a device     *)
(* that is new or closed: the device is not active in this pass.  An open  *)
(* that fails makes it inactive; a device that cannot be configured, or a  *)
(* port that cannot be bound, is closed again.                             *)
MasksReopen ==
  LET dev == devs[at]
      what == IF dev.kind = "serial" THEN "tty" ELSE "listener"
  IN /\ pc = "ioset" /\ at \in Indices /\ dev.state \in {"none", "closed"}
     /\ \/ /\ devs' = [devs EXCEPT ![at].state = "connected", ![at].fd = Free]
           /\ file' = [file EXCEPT ![Free] = what]
           /\ tty' = IF what = "tty" THEN [tty EXCEPT !.hung = FALSE] ELSE tty
        \/ /\ \E state \in {"closed", "inactive"} : devs' = [devs EXCEPT ![at].state = state]
           /\ UNCHANGED <<file, tty>>
     /\ at' = at + 1
     /\ UNCHANGED <<alloced, pc, rset, wset, xset, highest, active, rdy, moved, out,
                    backlog, input, urgent, ended, reported>>

MasksInactive == /\ pc = "ioset" /\ at \in Indices /\ devs[at].state = "inactive"
                 /\ at' = at + 1
                 /\ UNCHANGED <<devs, alloced, pc, rset, wset, xset, highest, active, rdy,
                                moved, out, kernel, reported>>

(* What the kernel knows of an open file.                                  *)
CanRead(f) == CASE file[f] = "tty"      -> tty.data \/ tty.hung
                [] file[f] = "listener" -> backlog /= <<>>
                [] OTHER                -> file[f] \in input \cup ended

Watched(set) == {f \in set : f <= highest}

(* select.  A hung tty and a closed connection take output at once, others *)
(* when they have room.  Nothing to watch and an error end selector_loop.  *)
SelectNothing == /\ pc = "ioset" /\ at \notin Indices /\ active = 0
                 /\ pc' = "outside" /\ at' = 1
                 /\ UNCHANGED <<devs, alloced, rset, wset, xset, highest, active, rdy,
                                moved, out, kernel, reported>>

SelectError == /\ pc = "ioset" /\ at \notin Indices /\ active > 0
               /\ Watched(rset \cup wset \cup xset) \cap Closed /= {}
               /\ pc' = "outside"
               /\ at' = 1 /\ highest' = 0 /\ active' = 0
               /\ UNCHANGED <<devs, alloced, rset, wset, xset, rdy, moved, out, kernel, reported>>

SelectReady ==
  LET reads   == {f \in Watched(rset) : CanRead(f)}
      excepts == {f \in Watched(xset) : file[f] \in urgent}
      sure    == {f \in Watched(wset) : file[f] \in ended \/ (file[f] = "tty" /\ tty.hung)}
  IN /\ pc = "ioset" /\ at \notin Indices /\ active > 0
     /\ Watched(rset \cup wset \cup xset) \cap Closed = {}
     /\ \E writes \in SUBSET Watched(wset) :
          /\ sure \subseteq writes
          /\ rset' = reads /\ wset' = writes /\ xset' = excepts
          /\ rdy' = Cardinality(reads) + Cardinality(writes) + Cardinality(excepts)
          /\ reported' = ({file[f] : f \in reads} \X {"r"}) \cup ({file[f] : f \in writes} \X {"w"})
                           \cup ({file[f] : f \in excepts} \X {"x"})
     /\ pc' = IF rdy' = 0 THEN "outside" ELSE "dispatch"
     /\ at' = 1 /\ highest' = 0 /\ active' = 0
     /\ UNCHANGED <<devs, alloced, moved, out, kernel>>

------------------------------------------------------------------------------
(* selector_dispatch: for each device its read, write and except handler.  *)
(* Place 3 * i - 2 is the read event of device i, the two after it are its *)
(* write and its except event; at is the next place to look at.            *)

DevAt(p)  == (p + 2) \div 3
PartAt(p) == <<"r", "w", "x">>[p - 3 * DevAt(p) + 3]
(* Mutated form: the read handler runs for the write set, too.             *)
SetTwice(part) == CASE part = "r" -> rset \cup wset [] part = "w" -> wset [] part = "x" -> xset
Set(part) == CASE part = "r" -> rset [] part = "w" -> wset [] part = "x" -> xset

(* The places where is_set says yes and the loop still comes: with no more *)
(* events to expect it ends before the next device.                        *)
Coming == {p \in at .. 3 * Len(devs) :
             /\ devs[DevAt(p)].fd \in Set(PartAt(p))
             /\ rdy > 0 \/ (DevAt(p) = DevAt(at) /\ PartAt(at) /= "r")}
Place == CHOOSE p \in Coming : \A q \in Coming : p <= q
Dev   == DevAt(Place)

Runs(part) == /\ pc = "dispatch" /\ Coming /= {} /\ PartAt(Place) = part
              /\ rdy' = rdy - 1
              /\ at' = Place + 1
              /\ UNCHANGED <<pc, highest, active, rset, wset, xset, reported>>

DispatchEnd == /\ pc = "dispatch" /\ Coming = {}
               /\ pc' = "ioset" /\ at' = 1 /\ rdy' = 0 /\ moved' = FALSE /\ reported' = {}
               /\ UNCHANGED <<devs, alloced, rset, wset, xset, highest, active, out, kernel>>

(* serial_close and tcp_close, and tcp_close_accept for an accepted one.   *)
(* Mutated forms: the descriptor is not closed when the tty hung up; the   *)
(* device keeps the number of the descriptor it closed.                    *)
CloseLeaking(i) ==
  /\ devs' = [devs EXCEPT ![i].fd = -1,
                          ![i].state = IF devs[i].kind = "client" THEN "inactive" ELSE "closed"]
  /\ file' = IF tty.hung THEN file ELSE [file EXCEPT ![devs[i].fd] = "none"]
  /\ ended' = ended \cup ({Held(devs[i])} \cap Conns)
  /\ input' = input \ {Held(devs[i])}
CloseKeepsFd(i) ==
  /\ devs' = [devs EXCEPT ![i].state = IF devs[i].kind = "client" THEN "inactive" ELSE "closed"]
  /\ file' = [file EXCEPT ![devs[i].fd] = "none"]
  /\ ended' = ended \cup ({Held(devs[i])} \cap Conns)
  /\ input' = input \ {Held(devs[i])}
Close(i) ==
  /\ devs' = [devs EXCEPT ![i].fd = -1,
                          ![i].state = IF devs[i].kind = "client" THEN "inactive" ELSE "closed"]
  /\ file' = [file EXCEPT ![devs[i].fd] = "none"]
  /\ ended' = ended \cup ({Held(devs[i])} \cap Conns)
  /\ input' = input \ {Held(devs[i])}

(* iodev_read_handler: the bytes that are there; at end of file, or with   *)
(* nothing there (EAGAIN), the buffers are flushed and the device closed.  *)
HasBytes(f) == IF file[f] = "tty" THEN tty.data /\ ~tty.hung ELSE file[f] \in input

ReadBytes == /\ Runs("r") /\ devs[Dev].kind /= "listen"
             /\ HasBytes(devs[Dev].fd)
             /\ IF devs[Dev].kind = "serial"
                THEN tty' = [tty EXCEPT !.data = FALSE] /\ UNCHANGED input
                ELSE input' = input \ {Held(devs[Dev])} /\ UNCHANGED tty
             /\ moved' = FALSE
             /\ UNCHANGED <<devs, alloced, out, file, backlog, urgent, ended>>

ReadCloses == /\ Runs("r") /\ devs[Dev].kind /= "listen"
              /\ ~HasBytes(devs[Dev].fd)
              /\ Close(Dev)
              /\ out' = out \ {Dev}
              /\ moved' = FALSE
              /\ UNCHANGED <<alloced, tty, backlog, urgent>>

(* tcp_accept_handler.  The client takes the first inactive element after  *)
(* the serial one, else a new element, and then realloc may move them all. *)
(* Mutated form: the search starts at the serial device.                   *)
InactiveFrom0 == {i \in Indices : devs[i].state = "inactive"}
Inactive == {i \in Indices \ {1} : devs[i].state = "inactive"}

Accept ==
  /\ Runs("r") /\ devs[Dev].kind = "listen" /\ backlog /= <<>>
  /\ file' = [file EXCEPT ![Free] = Head(backlog)]
  /\ backlog' = Tail(backlog)
  /\ IF Inactive = {}
     THEN /\ devs' = Append(devs, NewClient(Free))
          /\ alloced' = Grown(Len(devs))
          /\ moved' \in {FALSE, alloced' /= alloced}
          /\ UNCHANGED out
     ELSE LET slot == CHOOSE i \in Inactive : \A j \in Inactive : i <= j
          IN /\ devs' = [devs EXCEPT ![slot] = NewClient(Free)]
             /\ out' = out \ {slot}
             /\ moved' = FALSE
             /\ UNCHANGED alloced
  /\ UNCHANGED <<tty, input, urgent, ended>>

(* iodev_write_handler and serial_write_handler: some of the output or all *)
(* of it goes; an error closes the device.                                 *)
Writes == /\ Runs("w")
          /\ out' \in {out, out \ {Dev}}
          /\ moved' = FALSE
          /\ UNCHANGED <<devs, alloced, kernel>>

WriteCloses == /\ Runs("w") /\ Dev \in out
               /\ IF devs[Dev].kind = "serial" THEN tty.hung ELSE Held(devs[Dev]) \in ended
               /\ Close(Dev)
               /\ out' = IF devs[Dev].kind = "serial" THEN out ELSE out \ {Dev}
               /\ moved' = FALSE
               /\ UNCHANGED <<alloced, tty, backlog, urgent>>

(* iodev_except_handler.                                                   *)
ExceptCloses == /\ Runs("x")
                /\ Close(Dev)
                /\ moved' = FALSE
                /\ UNCHANGED <<alloced, out, tty, backlog, urgent>>

(* hdmi2usb_process, for what it does to the devices: every accepted one,  *)
(* open or not, gets what the tty sent, and the serial device a command;   *)
(* an inactive serial device ends the program.                             *)
Accepted == {i \in Indices : devs[i].kind = "client"}
Outside == /\ pc = "outside"
           /\ IF devs[1].state = "inactive" THEN pc' = "exit" /\ UNCHANGED out
              ELSE /\ pc' = "enter"
                   /\ \E relayed \in {{}, Accepted}, command \in {{}, {1}} :
                        out' = out \cup relayed \cup (IF Accepted = {} THEN {} ELSE command)
           /\ UNCHANGED <<devs, alloced, at, rset, wset, xset, highest, active, rdy, moved,
                          kernel, reported>>

------------------------------------------------------------------------------
IoSet == MasksOpen \/ MasksReopen \/ MasksInactive
Select == SelectNothing \/ SelectError \/ SelectReady
Handlers == ReadBytes \/ ReadCloses \/ Accept \/ Writes \/ WriteCloses \/ ExceptCloses
Dispatch == Handlers \/ DispatchEnd
Daemon == Enter \/ IoSet \/ Select \/ Dispatch \/ Outside

Next == \/ Daemon
        \/ TtyData \/ TtyHangs
        \/ \E c \in Conns : Connect(c) \/ Sends(c) \/ Urges(c) \/ Ends(c)

Spec == Init /\ [][Next]_vars

(* The thread keeps running: WF_vars(Daemon), in terms of what every step  *)
(* of Daemon and no other changes, and of a step always being possible.    *)
FairSpec == Spec /\ ([]<>(pc = "exit") \/ []<><<TRUE>>_loop)

------------------------------------------------------------------------------
(* Correctness.                                                            *)

Kinds  == {"serial", "listen", "client"}
States == {"none", "inactive", "closed", "connected"}

TypeOK == /\ devs \in Seq([kind : Kinds, state : States, fd : Fds \cup {-1}])
          /\ alloced \in Nat /\ alloced > Len(devs) /\ alloced % Chunk = 0
          /\ pc \in {"enter", "ioset", "dispatch", "outside", "exit"}
          /\ at \in Nat \ {0} /\ rdy \in Int /\ highest \in Nat /\ active \in Nat
          /\ rset \subseteq Fds /\ wset \subseteq Fds /\ xset \subseteq Fds
          /\ out \subseteq Indices
          /\ \A f \in Fds : file[f] \in Conns \cup {"tty", "listener", "none"}

(* A device is open exactly when it holds a descriptor, of its own kind;   *)
(* no two devices hold the same one, and no open descriptor is forgotten.  *)
DescriptorsHeld ==
  /\ \A i \in Indices : IsOpen(devs[i]) <=> devs[i].fd /= -1
  /\ \A i \in Indices : IsOpen(devs[i]) =>
       CASE devs[i].kind = "serial" -> Held(devs[i]) = "tty"
         [] devs[i].kind = "listen" -> Held(devs[i]) = "listener"
         [] devs[i].kind = "client" -> Held(devs[i]) \in Conns
  /\ \A i, j \in Indices : devs[i].fd = devs[j].fd /\ devs[i].fd /= -1 => i = j
  /\ \A f \in Fds : file[f] /= "none" => \E i \in Indices : devs[i].fd = f

(* The serial device stays at index 0 of the array, where hdmi2usb_process *)
(* takes it, and nothing else gets there; the listener stays at index 1.   *)
SerialFirst == \A i \in Indices : devs[i].kind = (CASE i = 1 -> "serial" [] i = 2 -> "listen"
                                                     [] OTHER -> "client")

(* Until the tty hangs up, a handler runs on a device only for an event    *)
(* that the last select reported for the file the device holds.            *)
Calm == tty.hangs = 0
OwnEvents == [][Calm /\ pc = "dispatch" /\ Coming /= {} /\ at' > at
                  => <<Held(devs[Dev]), PartAt(Place)>> \in reported]_vars

(* A connection is closed only when the client closed it, or for urgent    *)
(* data of the client's.                                                   *)
Dropped == {file[f] : f \in {g \in Fds : file[g] \in Conns /\ file'[g] /= file[g]}}
ConnectionsKept == [][Dropped \subseteq ended \cup urgent]_vars

(* The same until the tty hangs up, with every close, reuse of a slot and  *)
(* reuse of a descriptor by the clients.                                   *)
ConnectionsKeptCalm == [][Calm => Dropped \subseteq ended \cup urgent]_vars

(* The device whose write and except events selector_dispatch looks at     *)
(* after its read handler is still where it was in the array.              *)
PointerValid == ~moved

(* The connections in the backlog of the listening socket are in the end   *)
(* accepted, all of them, whatever the devices before the listener in the  *)
(* array and the bits of closed descriptors do.                            *)
AcceptsAll == []<>(backlog = <<>> \/ pc = "exit")
==============================================================================
