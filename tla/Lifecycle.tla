----------------------------- MODULE Lifecycle -----------------------------
(***************************************************************************)
(* hdmi2usbd_main: initialisation with the search for the serial device    *)
(* and for the addresses to listen on, signals, reload and exit.  The      *)
(* devices are here only as far as these touch them: which listening       *)
(* sockets the selector has, which addresses they hold, and the state of   *)
(* the serial device.  What the devices do with data is in Gateway, what   *)
(* they do with descriptors in Selector.                                   *)
(***************************************************************************)
EXTENDS Naturals, Sequences

CONSTANTS AddrLists,  \* what getaddrinfo may answer: sequences of [family, addr]
          AnyAddr,    \* the address that stands for all interfaces
          Foreign,    \* addresses another program may hold at the start
          Ttys,       \* names of serial devices
          Specs       \* values of opts.port: sequences of patterns, each the
                      \* sequence of the names it stands for

Signals  == {"HUP", "INT"}
Families == {4, 6}
Resolved == UNION {{list[i].addr : i \in DOMAIN list} : list \in AddrLists}

ASSUME LifecycleAssumption ==
  /\ AddrLists \subseteq Seq([family : Families, addr : Resolved]) \ {<<>>}
  /\ Foreign \subseteq Resolved
  /\ Specs \subseteq Seq(Seq(Ttys))

VARIABLES pc,         \* the place in hdmi2usb_main
          todo,       \* the devices set_masks is still to be called for; 0
                      \* is the serial device
          active,     \* active_count is not 0
          rc,         \* the variable of that name
          signal,     \* signal_received
          disp,       \* what the process does on a signal
          stack,      \* signal_stack below sigvec_index
          spec,       \* opts.port
          portname,   \* of the serial device
          serial,     \* its state
          hung,       \* the device behind its open descriptor is gone
          listeners,  \* the listening devices of the selector
          found,      \* the iterator over the resolved addresses, and
                      \* listen_ports as the set of its bits
          lost,       \* addresses of open sockets no device knows of any more
          foreign,    \* addresses another program holds
          ttys,       \* the serial devices that are there and accessible
          scarce      \* socket may fail: no descriptor, or no such family

signals == <<signal, disp, stack>>
port    == <<portname, serial, hung>>
devices == <<port, listeners, found, lost>>
world   == <<foreign, ttys, scarce>>
vars    == <<pc, todo, active, rc, spec, signals, devices, world>>

Ended == {"exit", "quit", "killed", "crashed"}

Unresolved == [list |-> <<>>, next |-> 1, ports |-> {}]

Init == /\ pc = "install" /\ rc = "success" /\ todo = {} /\ active = FALSE
        /\ signal = "none" /\ disp = [s \in Signals |-> "default"] /\ stack = <<>>
        /\ spec \in Specs /\ portname = "none" /\ serial = "none" /\ hung = FALSE
        /\ listeners = <<>> /\ found = Unresolved /\ lost = {}
        /\ foreign \in {{}, Foreign} /\ ttys \in SUBSET Ttys /\ scarce \in BOOLEAN

------------------------------------------------------------------------------
(* The world: signals arrive at any point, another program gives up the    *)
(* addresses it holds, serial devices are unplugged and plugged in again   *)
(* (which does not bring an open descriptor back).                         *)

(* break_handler, or the default action.  A second interrupt ends the      *)
(* process from the handler, with a line on stderr that Daemon records.    *)
Deliver(s) ==
  /\ pc \notin Ended
  /\ \/ disp[s] = "default" /\ pc' = "killed" /\ UNCHANGED signal
     \/ /\ disp[s] = "break" /\ s = "INT" /\ signal = "INT"
        /\ pc' = "quit" /\ UNCHANGED signal
     \/ /\ disp[s] = "break" /\ ~(s = "INT" /\ signal = "INT")
        /\ signal' = s /\ UNCHANGED pc
  /\ UNCHANGED <<todo, active, rc, spec, disp, stack, devices, world>>

Release == /\ pc \notin Ended /\ foreign /= {}
           /\ foreign' = {}
           /\ UNCHANGED <<pc, todo, active, rc, spec, signals, devices, ttys, scarce>>

TtyGoes(tty) == /\ pc \notin Ended /\ tty \in ttys
                /\ ttys' = ttys \ {tty}
                /\ hung' = (hung \/ (serial = "open" /\ portname = tty))
                /\ UNCHANGED <<pc, todo, active, rc, spec, signals, portname, serial,
                               listeners, found, lost, foreign, scarce>>

TtyComes(tty) == /\ pc \notin Ended /\ tty \notin ttys
                 /\ ttys' = ttys \cup {tty}
                 /\ UNCHANGED <<pc, todo, active, rc, spec, signals, devices, foreign, scarce>>

------------------------------------------------------------------------------
(* hdmi2usb_init.                                                          *)

(* push_sighandler for SIGHUP, then for SIGINT.                            *)
Install == LET sig == IF pc = "install" THEN "HUP" ELSE "INT"
           IN /\ pc \in {"install", "install_int"}
              /\ stack' = Append(stack, [sig |-> sig, handler |-> disp[sig]])
              /\ disp' = [disp EXCEPT ![sig] = "break"]
              /\ pc' = IF pc = "install" THEN "install_int" ELSE "find"
              /\ UNCHANGED <<todo, active, rc, spec, signal, devices, world>>

(* The addresses of the selector's own open sockets.                       *)
Held == {listeners[i].addr : i \in {j \in DOMAIN listeners : listeners[j].state = "open"}}

(* selector_init clears the device array; sockets that are open stay open. *)
SelectorInit == /\ lost' = lost \cup Held /\ listeners' = <<>>
                /\ serial' = "none" /\ hung' = FALSE /\ found' = Unresolved

(* find_serial: the first name, in the order of the patterns and of what   *)
(* each stands for, that new_odev finds accessible.  find_serial_all looks *)
(* no further than a pattern that is empty.                                *)
Names == UNION {{<<i, j>> : j \in DOMAIN spec[i]} : i \in DOMAIN spec}
Candidates == {c \in Names : /\ spec[c[1]][c[2]] \in ttys
                             /\ \A i \in 1 .. c[1] : spec[i] /= <<>>}

Before(c, d) == c[1] < d[1] \/ (c[1] = d[1] /\ c[2] <= d[2])

FindSerial == /\ pc = "find" /\ SelectorInit
              /\ \E c \in Candidates :
                   /\ \A d \in Candidates : Before(c, d)
                   /\ portname' = spec[c[1]][c[2]]
              /\ pc' = "resolve"
              /\ UNCHANGED <<todo, active, rc, spec, signals, world>>

NoSerial == /\ pc = "find" /\ SelectorInit /\ Candidates = {}
            /\ pc' = "pop" /\ rc' = "startup"
            /\ UNCHANGED <<todo, active, spec, signals, portname, world>>

(* ipaddrs_resolve_stream and ipaddriter_create.  When getaddrinfo fails   *)
(* there is no list, and the iterator follows a NULL pointer.  Mutated     *)
(* form: it takes that for an empty list.                                  *)
Resolve == /\ pc = "resolve"
           /\ \E list \in AddrLists : found' = [list |-> list, next |-> 1, ports |-> {}]
           /\ pc' = "listen"
           /\ UNCHANGED <<todo, active, rc, spec, signals, port, listeners, lost, world>>

FollowedAsEmpty == "listen"
Followed == "crashed"
ResolveFails == /\ pc = "resolve"
                /\ pc' = Followed
                /\ UNCHANGED <<todo, active, rc, spec, signals, devices, world>>

(* The loop over the addresses: a listener for the first of each family,   *)
(* up to the first address that stands for all interfaces, which gets one  *)
(* in any case and ends the loop.  Mutated form: the bits of the families  *)
(* are not looked at.                                                      *)
Bit(entry) == IF entry.addr = AnyAddr THEN 4 ELSE IF entry.family = 4 THEN 1 ELSE 2
ListenOnAll(entry) == TRUE
ListenOn(entry) == Bit(entry) = 4 \/ Bit(entry) \notin found.ports

Listen(entry) == [family |-> entry.family, addr |-> entry.addr, state |-> "none"]

NextAddress ==
  /\ pc = "listen" /\ found.next <= Len(found.list)
  /\ LET entry == found.list[found.next]
         ports == found.ports \cup {Bit(entry)}
     IN /\ found' = [list |-> found.list, next |-> found.next + 1, ports |-> ports]
        /\ listeners' = IF ListenOn(entry) THEN Append(listeners, Listen(entry)) ELSE listeners
        /\ pc' = IF 4 \in ports \/ ports = {1, 2} THEN "loop" ELSE pc
  /\ UNCHANGED <<todo, active, rc, spec, signals, port, lost, world>>

LastAddress == /\ pc = "listen" /\ found.next > Len(found.list)
               /\ pc' = "loop"
               /\ UNCHANGED <<todo, active, rc, spec, signals, devices, world>>

------------------------------------------------------------------------------
(* selector_loop: set_masks of the serial device and of the listeners in   *)
(* the order of the array, then select.                                    *)

Pass == /\ pc = "loop"
        /\ todo' = {0} \cup DOMAIN listeners /\ active' = FALSE
        /\ pc' = "ioset"
        /\ UNCHANGED <<rc, spec, signals, devices, world>>

Visit(i, state) == /\ pc = "ioset" /\ i \in todo /\ \A j \in todo : i <= j
                   /\ todo' = todo \ {i}
                   /\ active' = (active \/ state = "open")
                   /\ UNCHANGED <<pc, rc, spec, signals, portname, found, lost, world>>

Reopens(state) == state \in {"none", "closed"}

(* serial_open: it fails without the tty and may fail with it, or the      *)
(* terminal cannot be set, and serial_close makes the device closed.       *)
(* Mutated form: a device that does not open is closed, to be tried again. *)
OpenedOrClosed == IF portname \in ttys THEN {"open", "closed"} ELSE {"closed"}
Opened == IF portname \in ttys THEN {"open", "closed", "inactive"} ELSE {"inactive"}

VisitSerial == /\ Visit(0, serial)
               /\ IF Reopens(serial) THEN serial' \in Opened ELSE UNCHANGED serial
               /\ UNCHANGED <<hung, listeners>>

(* tcp_open_listen.  Without a socket the device becomes inactive and is   *)
(* not tried again.  While another socket holds the address, bind fails    *)
(* and tcp_close makes the device closed, to be tried again at the next    *)
(* pass, although IOFLAG_INACTIVE is passed to it.  Mutated form: the flag *)
(* is obeyed.                                                              *)
Overlap(a, b) == a = b \/ AnyAddr \in {a, b}
InUse(addr) == \E other \in foreign \cup lost \cup Held : Overlap(addr, other)

NoSocket == IF scarce THEN {"inactive"} ELSE {}

BoundOrInactive(addr) == NoSocket \cup {IF InUse(addr) THEN "inactive" ELSE "open"}
Bound(addr) == NoSocket \cup {IF InUse(addr) THEN "closed" ELSE "open"}

VisitListener(i) ==
  /\ i \in DOMAIN listeners /\ Visit(i, listeners[i].state)
  /\ IF Reopens(listeners[i].state)
     THEN \E state \in Bound(listeners[i].addr) :
            listeners' = [listeners EXCEPT ![i].state = state]
     ELSE UNCHANGED listeners
  /\ UNCHANGED <<serial, hung>>

(* A timeout, a signal, or no device to watch, end selector_loop; an event *)
(* keeps it going.  A serial device that is gone is an event at once.      *)
Idle == /\ pc = "ioset" /\ todo = {} /\ (~hung \/ signal /= "none" \/ ~active)
        /\ pc' = "switch"
        /\ UNCHANGED <<todo, active, rc, spec, signals, devices, world>>

Busy == /\ pc = "ioset" /\ todo = {} /\ active /\ ~hung
        /\ pc' = "loop"
        /\ UNCHANGED <<todo, active, rc, spec, signals, devices, world>>

(* An accepted connection takes the place of the first inactive device:    *)
(* that listener is no more.                                               *)
IsOpen(i) == listeners[i].state = "open"
TakesPlace(i) == /\ pc = "ioset" /\ todo = {} /\ active /\ \E k \in DOMAIN listeners : IsOpen(k)
                 /\ listeners[i].state = "inactive"
                 /\ \A k \in DOMAIN listeners : listeners[k].state = "inactive" => i <= k
                 /\ listeners' = [listeners EXCEPT ![i].state = "taken"]
                 /\ pc' = "loop"
                 /\ UNCHANGED <<todo, active, rc, spec, signals, port, found, lost, world>>

(* End of file or an error of the serial device: its handler closes it.    *)
Closes == /\ pc = "ioset" /\ todo = {} /\ active /\ serial = "open"
          /\ serial' = "closed" /\ hung' = FALSE
          /\ pc' = "loop"
          /\ UNCHANGED <<todo, active, rc, spec, signals, portname, listeners, found, lost, world>>

------------------------------------------------------------------------------
(* The switch after selector_loop returned.                                *)

Reload == /\ pc = "switch" /\ signal = "HUP"
          /\ rc' = "success" /\ pc' = "pop"
          /\ UNCHANGED <<todo, active, spec, signals, devices, world>>

Interrupted == /\ pc = "switch" /\ signal = "INT"
               /\ rc' = "request" /\ pc' = "pop"
               /\ UNCHANGED <<todo, active, spec, signals, devices, world>>

(* hdmi2usb_process, for what decides whether the loop goes on: it counts  *)
(* the listeners in whatever state.                                        *)
Process == /\ pc = "switch" /\ signal = "none"
           /\ IF serial = "inactive" \/ \A i \in DOMAIN listeners : listeners[i].state = "taken"
              THEN rc' = "normal" /\ pc' = "pop"
              ELSE UNCHANGED rc /\ pc' = "loop"
           /\ UNCHANGED <<todo, active, spec, signals, devices, world>>

(* hdmi2usb_close: each pop_sighandler takes one entry of the stack; with  *)
(* none left hdmi2usb_main returns or, for a reload, starts again.         *)
(* Mutated forms: only the last entry is taken; its handler is not set; an *)
(* interrupt is taken for a reload.                                        *)
HandlersKept(entry) == disp
Handlers(entry) == [disp EXCEPT ![entry.sig] = entry.handler]
AfterReload == "install"
After == IF rc = "success" THEN "install" ELSE "exit"

PopOne == /\ pc = "pop" /\ stack /= <<>>
          /\ disp' = Handlers(stack[Len(stack)])
          /\ stack' = SubSeq(stack, 1, Len(stack) - 1)
          /\ pc' = After
          /\ UNCHANGED <<todo, active, rc, spec, signal, devices, world>>
Pop == /\ pc = "pop" /\ stack /= <<>>
       /\ disp' = Handlers(stack[Len(stack)])
       /\ stack' = SubSeq(stack, 1, Len(stack) - 1)
       /\ pc' = IF Len(stack) = 1 THEN After ELSE pc
       /\ UNCHANGED <<todo, active, rc, spec, signal, devices, world>>

------------------------------------------------------------------------------
Initialise == \/ Install \/ FindSerial \/ NoSerial \/ Resolve \/ ResolveFails
              \/ NextAddress \/ LastAddress
Loop == \/ Pass \/ VisitSerial \/ (\E i \in DOMAIN listeners : VisitListener(i) \/ TakesPlace(i))
        \/ Idle \/ Busy \/ Closes
Switch == Reload \/ Interrupted \/ Process
Main == Initialise \/ Loop \/ Switch \/ Pop

World == Release \/ \E tty \in Ttys : TtyGoes(tty) \/ TtyComes(tty)

Next == \/ Main
        \/ World
        \/ \E s \in Signals : Deliver(s)

Spec == Init /\ [][Next]_vars

(* The thread keeps running, and from time to time select has nothing to   *)
(* report for loop_time, or is interrupted.                                *)
FairSpec == Spec /\ WF_vars(Main) /\ SF_vars(Idle)

------------------------------------------------------------------------------
(* Correctness.                                                            *)

States == {"none", "inactive", "closed", "open", "taken"}
Codes  == {"success", "normal", "request", "startup"}

TypeOK ==
  /\ pc \in {"install", "install_int", "find", "resolve", "listen",
             "loop", "ioset", "switch", "pop"} \cup Ended
  /\ todo \subseteq Nat /\ active \in BOOLEAN
  /\ rc \in Codes
  /\ signal \in Signals \cup {"none"} /\ disp \in [Signals -> {"default", "break"}]
  /\ stack \in Seq([sig : Signals, handler : {"default", "break"}]) /\ Len(stack) <= 2
  /\ spec \in Specs /\ portname \in Ttys \cup {"none"} /\ serial \in States /\ hung \in BOOLEAN
  /\ listeners \in Seq([family : Families, addr : Resolved, state : States])
  /\ found.list \in AddrLists \cup {<<>>} /\ found.next \in 1 .. Len(found.list) + 1
  /\ found.ports \subseteq {1, 2, 4}
  /\ lost \subseteq Resolved /\ foreign \subseteq Foreign /\ ttys \subseteq Ttys /\ scarce \in BOOLEAN

(* In the loop a hang-up and an interrupt are handled, however often the   *)
(* daemon was reloaded, and when hdmi2usb_main returns every handler is    *)
(* what it was at the start.                                               *)
HandlersInPlace ==
  /\ pc \in {"loop", "ioset", "switch"} => \A s \in Signals : disp[s] = "break"
  /\ pc = "exit" => \A s \in Signals : disp[s] = "default"

(* When the loop runs hdmi2usb_init has made a listener for every family   *)
(* that was resolved, no address twice and none that overlaps another but  *)
(* the last.                                                               *)
ListensOnce ==
  pc \in {"loop", "ioset", "switch"} =>
    /\ listeners /= <<>>
    /\ \A i, j \in DOMAIN listeners : i < j /\ listeners[j].addr /= AnyAddr
         => listeners[i].family /= listeners[j].family
    /\ \A k \in DOMAIN found.list : \E i \in DOMAIN listeners :
         listeners[i].family = found.list[k].family \/ listeners[i].addr = AnyAddr

(* An interrupt in the end stops the daemon, wherever it arrives, unless a *)
(* hang-up comes after it and takes its place in signal_received.          *)
InterruptEnds == signal = "INT" ~> (pc \in Ended \/ signal = "HUP")

(* A listener whose address is in use is tried again until it is free:     *)
(* when the other program has given it up, and this one was not told to    *)
(* reload, every listener is open in the end, unless it got no socket or   *)
(* another open socket of the daemon overlaps its address.  (A listener    *)
(* for all interfaces next to a narrower one that is open never binds.)    *)
Blocked(i) == \E k \in DOMAIN listeners \ {i} :
                IsOpen(k) /\ Overlap(listeners[i].addr, listeners[k].addr)
Socketless(i) == scarce /\ listeners[i].state \in {"inactive", "taken"}
BindRetried ==
  [](signal = "none") /\ <>[](foreign = {}) =>
    <>[](pc \in Ended \/ \A i \in DOMAIN listeners : IsOpen(i) \/ Blocked(i) \/ Socketless(i))

(* Without an active listener the daemon ends: when none got a socket it   *)
(* does not run on, out of reach, though its serial device is open.        *)
Listenerless == /\ pc = "switch" /\ serial = "open"
                /\ \A i \in DOMAIN listeners : listeners[i].state = "inactive"
ListenerlessEnds == [](signal = "none" /\ ttys = Ttys) => (Listenerless ~> pc \in Ended)

(* After a hang-up the daemon reloads once and works again, or it ends.    *)
ReloadEnds == [](signal /= "INT") =>
                (signal = "HUP" ~> (pc \in Ended \/ (pc = "loop" /\ signal = "none")))
==============================================================================
