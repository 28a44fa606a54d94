------------------------------- MODULE Gateway -------------------------------
(***************************************************************************)
(* The data path of the daemon: the loop of hdmi2usbd_main, that is        *)
(* selector_loop with the handlers of the serial device, of the listening  *)
(* socket and of the accepted sockets, and hdmi2usb_process between its    *)
(* returns.  What the serial device sends goes to every client; the lines  *)
(* the clients send go to the serial device, one per COMMAND_PACE.         *)
(*                                                                         *)
(* A byte of the serial device is its position in what the device sent; a  *)
(* byte of a client is <<c, n>>, the n-th byte of connection c, and is a   *)
(* newline when LineLen divides n.  File descriptors and fd_sets are in    *)
(* Selector; here the bits of a closed descriptor that stay in the sets    *)
(* are the one bit stale.                                                  *)
(***************************************************************************)
EXTENDS ByteQueue, Integers, FiniteSets

CONSTANTS Conns,      \* the connections clients make, each once
          Sends,      \* how many bytes each sends
          LineLen,    \* the length of a command line, newline included
          BufSize,    \* -b: b_size of the receive and transmit buffers
          Pace,       \* COMMAND_PACE, in ticks
          CharPace,   \* CHARACTER_PACING, in ticks
          MaxEmit,    \* bound: bytes the serial device sends
          MaxFaults,  \* bound: times the serial device goes away
          Preempted,  \* whether time may pass inside hdmi2usb_process
          OpenResults,\* the states serial_open may leave the device in
          SlowPort,   \* whether the tty may refuse output for a while
          Slow,       \* the clients that may stop reading for a while, so that
                      \* their sockets take nothing or a part; others take all
          Leavers     \* the clients that may close their end

ASSUME GatewayAssumption == /\ IsFiniteSet(Conns) /\ Sends \in [Conns -> Nat]
                            /\ LineLen \in Nat \ {0}
                            /\ BufSize \in Nat \ {0, 1}
                            /\ {Pace, CharPace, MaxEmit, MaxFaults} \subseteq Nat
                            /\ OpenResults \subseteq {"connected", "inactive", "closed"}
                            /\ SlowPort \in BOOLEAN /\ Preempted \in BOOLEAN
                            /\ Slow \subseteq Conns /\ Leavers \subseteq Conns

VARIABLES phase,      \* where the thread is
          turn,       \* index of the client hdmi2usb_process looks at
          ready,      \* the events of this select still to be dispatched
          stale,      \* a closed descriptor has bits in the fd_sets
          serial,     \* the serial iodev_t
          slots,      \* the accepted iodev_t's, in device order
          copy,       \* app->copy
          cmdTimer,   \* app->last_command: ticks until it expires
          pacer,      \* the serial pacer: ticks until it expires
          port,       \* the tty: up, how much it sent, how much was read
          backlog,    \* connections not yet accepted
          sent,       \* how much each client wrote to its socket
          shut,       \* the clients that closed their end
          taken,      \* how much of that the daemon read
          joined,     \* the serial position at which a client was accepted
          got,        \* what the daemon wrote to each client
          heard,      \* what the daemon wrote to the serial device
          missed,     \* serial bytes a client lost on the way
          cut,        \* bytes of a client lost on the way
          queued      \* ticks since a command was queued for the device

daemon == <<phase, turn, ready, stale, serial, slots, copy, cmdTimer, pacer>>
world  == <<port, backlog, sent, shut>>
ghosts == <<taken, joined, got, heard, missed, cut, queued>>
vars   == <<daemon, world, ghosts>>

------------------------------------------------------------------------------
Cap     == Capacity(BufSize)        \* rbuf and tbuf
CopyCap == Capacity(2 * BufSize)    \* app->copy, twice the I/O buffers

IsOpen(dev)  == dev.state = "connected"
NewLine(b)   == b[2] % LineLen = 0
Numbers(m, n) == [i \in 1 .. n - m |-> m + i]       \* m + 1 up to n
ElementsOf(s) == {s[i] : i \in DOMAIN s}

Least(S) == CHOOSE i \in S : \A j \in S : i <= j

(* stringstore_nextstr: the length of the first complete line, 0 if none.  *)
(* Mutated forms: what is there is a line; the last byte is not looked at. *)
LineEndLoose(q) == Len(q)
LineEndShort(q) ==
  LET ends == {i \in 1 .. Len(q) - 1 : NewLine(q[i])}
  IN IF ends = {} THEN 0 ELSE Least(ends)
LineEnd(q) ==
  LET ends == {i \in DOMAIN q : NewLine(q[i])}
  IN IF ends = {} THEN 0 ELSE Least(ends)

(* hdmi2usb_process_client_commands: the length of the command to send     *)
(* now.  Mutated form: without the look at the timer.                      *)
CommandEndUntimed(lines) == LineEnd(lines)
CommandEnd(lines) == IF cmdTimer = 0 THEN LineEnd(lines) ELSE 0

(* stringstore_consume.  Mutated form: a second line in the store is lost. *)
ConsumedAll(lines, bytes) == IF bytes > 0 THEN <<>> ELSE lines
Consumed(lines, bytes) == Rest(lines, bytes)

(* The events select can report, in the order selector_dispatch takes      *)
(* them: by device index, read before write.  The serial device has index  *)
(* 0, the listener 1, the accepted sockets the indices after it.           *)
ReadOf(index)  == 2 * index
WriteOf(index) == 2 * index + 1
Serial   == 0
Listener == 1
Client(i) == i + 1

Init == /\ phase = "poll" /\ turn = 1 /\ ready = {} /\ stale = FALSE
        /\ serial = [state |-> "closed", rbuf |-> <<>>, tbuf |-> <<>>]
        /\ slots = <<>> /\ copy = <<>>
        /\ cmdTimer = 0 /\ pacer = 0
        /\ port = [up |-> TRUE, emitted |-> 0, taken |-> 0, faults |-> 0]
        /\ backlog = <<>> /\ shut = {}
        /\ sent = [c \in Conns |-> 0]   /\ taken = [c \in Conns |-> 0]
        /\ joined = [c \in Conns |-> 0] /\ got = [c \in Conns |-> <<>>]
        /\ heard = <<>>
        /\ missed = [c \in Conns |-> {}] /\ cut = [c \in Conns |-> {}]
        /\ queued = Pace

------------------------------------------------------------------------------
(* The world: the serial device, the clients and the clock.                *)

Emit == /\ port.up /\ port.emitted < MaxEmit
        /\ port' = [port EXCEPT !.emitted = @ + 1]
        /\ UNCHANGED <<daemon, backlog, sent, shut, ghosts>>

(* The tty goes away; what it had not delivered is gone with it.           *)
Unplug == /\ port.up /\ port.faults < MaxFaults /\ IsOpen(serial)
          /\ port' = [port EXCEPT !.up = FALSE, !.faults = @ + 1, !.taken = port.emitted]
          /\ missed' = [c \in Conns |-> missed[c] \cup (port.taken + 1 .. port.emitted)]
          /\ UNCHANGED <<daemon, backlog, sent, shut, taken, joined, got, heard, cut, queued>>

Known == {slots[i].conn : i \in DOMAIN slots} \cup ElementsOf(backlog)

Connect(c) == /\ c \notin Known \cup shut
              /\ backlog' = Append(backlog, c)
              /\ UNCHANGED <<daemon, port, sent, shut, ghosts>>

Send(c) == /\ c \in Known \ shut /\ sent[c] < Sends[c]
           /\ \E n \in sent[c] + 1 .. Sends[c] : sent' = [sent EXCEPT ![c] = n]
           /\ UNCHANGED <<daemon, port, backlog, shut, ghosts>>

Shut(c) == /\ c \in (Known \cap Leavers) \ shut
           /\ shut' = shut \cup {c}
           /\ UNCHANGED <<daemon, port, backlog, sent, ghosts>>

(* A tick of the clock.  Ticks are counted only while a timer runs or the   *)
(* count of ticks is below the pace.                                       *)
Tick == /\ cmdTimer > 0 \/ pacer > 0 \/ queued < Pace
        /\ phase \in {"process", "clients"} => Preempted
        /\ cmdTimer' = IF cmdTimer > 0 THEN cmdTimer - 1 ELSE 0
        /\ pacer' = IF pacer > 0 THEN pacer - 1 ELSE 0
        /\ queued' = Lesser(queued + 1, Pace)
        /\ UNCHANGED <<phase, turn, ready, stale, serial, slots, copy, world,
                       taken, joined, got, heard, missed, cut>>

------------------------------------------------------------------------------
(* selector_loop: set_masks on every device, then select.                  *)

SerialReadable    == /\ IsOpen(serial) /\ Len(serial.rbuf) < Cap
                     /\ ~port.up \/ port.taken < port.emitted
ClientReadable(i) == /\ IsOpen(slots[i]) /\ Len(slots[i].rbuf) < Cap
                     /\ \/ taken[slots[i].conn] < sent[slots[i].conn]
                        \/ slots[i].conn \in shut

(* What select finds ready to read among the descriptors with a read bit.  *)
Readable == (IF SerialReadable THEN {ReadOf(Serial)} ELSE {})
              \cup (IF backlog /= <<>> THEN {ReadOf(Listener)} ELSE {})
              \cup {ReadOf(Client(i)) : i \in {j \in DOMAIN slots : ClientReadable(j)}}

(* The write bits, and those select must report: a slow port or client may *)
(* leave the kernel without room for the bytes.                            *)
(* Mutated form: the write bit is set only for a full buffer.              *)
PendingWhenFull == {i \in DOMAIN slots : IsOpen(slots[i]) /\ Len(slots[i].tbuf) = Cap}
Pending == {i \in DOMAIN slots : IsOpen(slots[i]) /\ slots[i].tbuf /= <<>>}
WantsWrite == (IF IsOpen(serial) /\ serial.tbuf /= <<>> THEN {WriteOf(Serial)} ELSE {})
                \cup {WriteOf(Client(i)) : i \in Pending}
MayStall == (IF SlowPort THEN {WriteOf(Serial)} ELSE {})
              \cup {WriteOf(Client(i)) : i \in {j \in Pending : slots[j].conn \in Slow}}

(* serial_open, called from set_masks: it fails (inactive), or the tty     *)
(* cannot be configured and is closed again, or it is open from the next   *)
(* pass on.                                                                *)
Reopen == IF serial.state = "closed"
          THEN \E outcome \in OpenResults :
                 /\ serial' = [serial EXCEPT !.state = outcome]
                 /\ port' = [port EXCEPT !.up = @ \/ outcome = "connected"]
          ELSE UNCHANGED <<serial, port>>

Select == \/ \E W \in SUBSET (WantsWrite \cap MayStall) : ready' = Readable \cup (WantsWrite \ W)
          \/ stale /\ ready' = {}

(* A timeout, and an error, end selector_loop.                             *)
Poll == /\ phase = "poll"
        /\ Reopen
        /\ Select
        /\ phase' = IF ready' = {} THEN "process" ELSE "dispatch"
        /\ UNCHANGED <<turn, stale, slots, copy, cmdTimer, pacer, backlog, sent, shut, ghosts>>

------------------------------------------------------------------------------
(* selector_dispatch: the handler of the first event not yet dispatched.   *)

Dispatch(event) == /\ phase = "dispatch" /\ event \in ready
                   /\ \A other \in ready : event <= other
                   /\ ready' = ready \ {event}
                   /\ phase' = IF ready = {event} THEN "poll" ELSE "dispatch"
                   /\ UNCHANGED <<turn, copy, cmdTimer>>

(* Mutated form: asks for a whole buffer whatever is in it.                *)
SerialRoomAlways == Cap
SerialRoom == Cap - Len(serial.rbuf)

(* iodev_read_handler of the serial device.                                *)
SerialRead ==
  LET n == Lesser(SerialRoom, port.emitted - port.taken)
  IN /\ Dispatch(ReadOf(Serial))
     /\ port.up /\ n > 0
     /\ serial' = [serial EXCEPT !.rbuf = @ \o Numbers(port.taken, port.taken + n)]
     /\ port' = [port EXCEPT !.taken = @ + n]
     /\ UNCHANGED <<stale, slots, pacer, backlog, sent, shut, ghosts>>

(* The same at end of file or error: both buffers are flushed.             *)
SerialEof ==
  /\ Dispatch(ReadOf(Serial))
  /\ ~port.up
  /\ serial' = [state |-> "closed", rbuf |-> <<>>, tbuf |-> <<>>]
  /\ stale' = TRUE
  /\ missed' = [c \in Conns |-> missed[c] \cup ElementsOf(serial.rbuf)]
  /\ cut' = [c \in Conns |-> cut[c] \cup {b[2] : b \in {x \in ElementsOf(serial.tbuf) : x[1] = c}}]
  /\ UNCHANGED <<slots, pacer, world, taken, joined, got, heard, queued>>

(* serial_write_handler: one character when the pacer has expired.  The    *)
(* read handler may have closed the device in this pass.                   *)
SerialWrite ==
  /\ Dispatch(WriteOf(Serial))
  /\ IF ~IsOpen(serial) \/ serial.tbuf = <<>> \/ pacer > 0
     THEN UNCHANGED <<stale, serial, pacer, heard>>
     ELSE IF port.up
     THEN /\ heard' = Append(heard, Head(serial.tbuf))
          /\ serial' = [serial EXCEPT !.tbuf = Tail(@)]
          /\ pacer' = CharPace
          /\ UNCHANGED stale
     ELSE /\ serial' = [serial EXCEPT !.state = "closed"]
          /\ stale' = TRUE
          /\ UNCHANGED <<heard, pacer>>
  /\ UNCHANGED <<slots, world, taken, joined, got, missed, cut, queued>>

(* tcp_accept_handler: accept, then selector_new_device takes the first    *)
(* inactive slot or appends one, and iodev_init clears it.                 *)
Fresh(c) == [conn |-> c, state |-> "connected", rbuf |-> <<>>, tbuf |-> <<>>, linebuf |-> <<>>]

FreeSlots == {i \in DOMAIN slots : slots[i].state = "inactive"}

(* Mutated form: the slot keeps the transmit buffer of its last client.    *)
AcceptUncleared ==
  LET c == Head(backlog)
  IN /\ Dispatch(ReadOf(Listener))
     /\ backlog' = Tail(backlog)
     /\ IF FreeSlots = {} THEN slots' = Append(slots, Fresh(c)) /\ UNCHANGED cut
        ELSE /\ slots' = [slots EXCEPT ![Least(FreeSlots)].conn = c,
                                       ![Least(FreeSlots)].state = "connected"]
             /\ UNCHANGED cut
     /\ joined' = [joined EXCEPT ![c] = IF serial.rbuf = <<>> THEN port.taken
                                         ELSE Head(serial.rbuf) - 1]
     /\ UNCHANGED <<stale, serial, pacer, port, sent, shut, taken, got, heard, missed, queued>>
Accept ==
  LET c == Head(backlog)
  IN /\ Dispatch(ReadOf(Listener))
     /\ backlog' = Tail(backlog)
     /\ IF FreeSlots = {} THEN slots' = Append(slots, Fresh(c)) /\ UNCHANGED cut
        ELSE LET old == slots[Least(FreeSlots)]
             IN /\ slots' = [slots EXCEPT ![Least(FreeSlots)] = Fresh(c)]
                /\ cut' = [cut EXCEPT ![old.conn] = @ \cup {b[2] : b \in ElementsOf(old.linebuf)}]
     /\ joined' = [joined EXCEPT ![c] = IF serial.rbuf = <<>> THEN port.taken
                                         ELSE Head(serial.rbuf) - 1]
     /\ UNCHANGED <<stale, serial, pacer, port, sent, shut, taken, got, heard, missed, queued>>

(* iodev_read_handler of an accepted socket.                               *)
ClientRead(i) ==
  LET c == slots[i].conn
      n == Lesser(Cap - Len(slots[i].rbuf), sent[c] - taken[c])
  IN /\ Dispatch(ReadOf(Client(i)))
     /\ n > 0
     /\ slots' = [slots EXCEPT ![i].rbuf = @ \o [k \in 1 .. n |-> <<c, taken[c] + k>>]]
     /\ taken' = [taken EXCEPT ![c] = @ + n]
     /\ UNCHANGED <<stale, serial, pacer, world, joined, got, heard, missed, cut, queued>>

(* The same at end of file: both buffers are flushed, tcp_close_accept     *)
(* leaves the slot inactive; its line buffer stays.                        *)
ClientEof(i) ==
  LET c == slots[i].conn
  IN /\ Dispatch(ReadOf(Client(i)))
     /\ c \in shut /\ taken[c] = sent[c]
     /\ slots' = [slots EXCEPT ![i].state = "inactive", ![i].rbuf = <<>>, ![i].tbuf = <<>>]
     /\ stale' = TRUE
     /\ missed' = [missed EXCEPT ![c] = @ \cup ElementsOf(slots[i].tbuf)]
     /\ cut' = [cut EXCEPT ![c] = @ \cup {b[2] : b \in ElementsOf(slots[i].rbuf)}]
     /\ UNCHANGED <<serial, pacer, world, taken, joined, got, heard, queued>>

(* iodev_write_handler of an accepted socket: one write of all that is     *)
(* there, of which the kernel takes as much as it has room for.            *)
ClientWrite(i) ==
  LET c == slots[i].conn
  IN /\ Dispatch(WriteOf(Client(i)))
     /\ IF ~IsOpen(slots[i]) THEN UNCHANGED <<slots, got>>
        ELSE \E n \in 1 .. Len(slots[i].tbuf) :
               /\ c \notin Slow => n = Len(slots[i].tbuf)
               /\ got' = [got EXCEPT ![c] = @ \o First(slots[i].tbuf, n)]
               /\ slots' = [slots EXCEPT ![i].tbuf = Rest(@, n)]
     /\ UNCHANGED <<stale, serial, pacer, world, taken, joined, heard, missed, cut, queued>>

(* The peer has reset the connection: the handler's error branch (ECONN-   *)
(* RESET) or, for EPIPE, the default action of SIGPIPE.                    *)
ClientWriteFails(i) ==
  LET c == slots[i].conn
  IN /\ Dispatch(WriteOf(Client(i)))
     /\ IsOpen(slots[i]) /\ c \in shut
     /\ slots' = [slots EXCEPT ![i].state = "inactive", ![i].rbuf = <<>>, ![i].tbuf = <<>>]
     /\ stale' = TRUE
     /\ missed' = [missed EXCEPT ![c] = @ \cup ElementsOf(slots[i].tbuf)]
     /\ cut' = [cut EXCEPT ![c] = @ \cup {b[2] : b \in ElementsOf(slots[i].rbuf)}]
     /\ UNCHANGED <<serial, pacer, world, taken, joined, got, heard, queued>>

SigPipe(i) ==
  /\ phase = "dispatch" /\ WriteOf(Client(i)) \in ready
  /\ \A other \in ready : WriteOf(Client(i)) <= other
  /\ IsOpen(slots[i]) /\ slots[i].conn \in shut
  /\ phase' = "killed"
  /\ UNCHANGED <<turn, ready, stale, serial, slots, copy, cmdTimer, pacer, world, ghosts>>

------------------------------------------------------------------------------
(* hdmi2usb_process, after selector_loop returned.                         *)

(* hdmi2usb_process_serial_data, or the end when the device is inactive.   *)
ProcessSerial ==
  /\ phase = "process"
  /\ IF serial.state = "inactive"
     THEN phase' = "exit" /\ UNCHANGED <<serial, copy, turn>>
     ELSE LET n == IF IsOpen(serial) THEN Fitting(copy, CopyCap, serial.rbuf) ELSE 0
          IN /\ copy' = copy \o First(serial.rbuf, n)
             /\ serial' = [serial EXCEPT !.rbuf = Rest(@, n)]
             /\ turn' = 1
             /\ phase' = "clients"
  /\ UNCHANGED <<ready, stale, slots, cmdTimer, pacer, world, ghosts>>

(* stringstore_append, of all the bytes in the receive buffer.             *)
Buffered(slot) == slot.linebuf \o slot.rbuf

(* iodev_write: how much of the line the serial device takes.              *)
Queued(line) == IF IsOpen(serial) THEN Fitting(serial.tbuf, Cap, line) ELSE 0

(* The body of the loop for one accepted device, open or not: the copy of  *)
(* the serial data, hdmi2usb_process_client_data, and, with the timer      *)
(* expired and a whole line there, hdmi2usb_process_client_commands.       *)
ProcessClient ==
  LET slot  == slots[turn]
      c     == slot.conn
      lines == Buffered(slot)
      end   == CommandEnd(lines)
      line  == First(lines, end)
      n     == Queued(line)
  IN /\ phase = "clients" /\ turn \in DOMAIN slots
     /\ slots' = [slots EXCEPT ![turn] =
                    [slot EXCEPT !.tbuf = Added(@, Cap, copy),
                                 !.rbuf = <<>>,
                                 !.linebuf = Consumed(lines, end)]]
     /\ serial' = [serial EXCEPT !.tbuf = @ \o First(line, n)]
     /\ cmdTimer' = IF end > 0 THEN Pace ELSE cmdTimer
     /\ queued' = IF end > 0 THEN 0 ELSE queued
     /\ missed' = [missed EXCEPT ![c] = @ \cup
                     ElementsOf(Rest(copy, Fitting(slot.tbuf, Cap, copy)))]
     /\ cut' = [cut EXCEPT ![c] = @ \cup {b[2] : b \in ElementsOf(Rest(line, n))}]
     /\ turn' = turn + 1
     /\ UNCHANGED <<phase, ready, stale, copy, pacer, world, taken, joined, got, heard>>

(* The copy buffer is reset; the listener keeps the loop going, and        *)
(* selector_loop starts with empty fd_sets.                                *)
ProcessEnd == /\ phase = "clients" /\ turn > Len(slots)
              /\ copy' = <<>>
              /\ stale' = FALSE
              /\ turn' = 1
              /\ phase' = "poll"
              /\ UNCHANGED <<ready, serial, slots, cmdTimer, pacer, world, ghosts>>

------------------------------------------------------------------------------
Handler(i) == ClientRead(i) \/ ClientEof(i) \/ ClientWrite(i) \/ ClientWriteFails(i) \/ SigPipe(i)
Handle == SerialRead \/ SerialEof \/ SerialWrite \/ Accept \/ \E i \in DOMAIN slots : Handler(i)
Process == ProcessSerial \/ ProcessClient \/ ProcessEnd
ClientSide(c) == Connect(c) \/ Send(c) \/ Shut(c)

Next == \/ Poll \/ Handle \/ Process
        \/ Emit \/ Unplug \/ Tick
        \/ \E c \in Conns : ClientSide(c)

Spec == Init /\ [][Next]_vars

(* The thread keeps running and time passes; a tty or a client that may    *)
(* stall for a while takes output again and again.                         *)
PollsWrite(index) == Poll /\ WriteOf(index) \in ready'
Fairness == /\ WF_vars(Poll) /\ WF_vars(Handle) /\ WF_vars(Process) /\ SF_vars(Tick)
            /\ SF_vars(PollsWrite(Serial))
            /\ \A i \in 1 .. Cardinality(Conns) : SF_vars(PollsWrite(Client(i)))

FairSpec == Spec /\ Fairness

------------------------------------------------------------------------------
(* Correctness.                                                            *)

States == {"connected", "closed", "inactive"}
Positions == Seq(1 .. MaxEmit)
BytesOf(c) == Seq({c} \X (1 .. Sends[c]))

TypeOK ==
  /\ phase \in {"poll", "dispatch", "process", "clients", "exit", "killed"}
  /\ ready \subseteq 0 .. 2 * Cardinality(Conns) + 3 /\ stale \in BOOLEAN
  /\ serial.state \in States
  /\ serial.rbuf \in Positions /\ Len(serial.rbuf) <= Cap
  /\ serial.tbuf \in Seq(Conns \X Nat) /\ Len(serial.tbuf) <= Cap
  /\ copy \in Positions /\ Len(copy) <= CopyCap
  /\ turn \in 1 .. Len(slots) + 1
  /\ \A i \in DOMAIN slots : LET slot == slots[i] IN
       /\ slot.conn \in Conns /\ slot.state \in {"connected", "inactive"}
       /\ slot.rbuf \in BytesOf(slot.conn) /\ Len(slot.rbuf) <= Cap
       /\ slot.tbuf \in Positions /\ Len(slot.tbuf) <= Cap
       /\ slot.linebuf \in BytesOf(slot.conn)
  /\ cmdTimer \in 0 .. Pace /\ pacer \in 0 .. CharPace
  /\ \A c \in Conns : taken[c] <= sent[c] /\ sent[c] <= Sends[c]

Increasing(s) == \A i, j \in DOMAIN s : i < j => s[i] < s[j]

(* The serial bytes on their way to the client in slot i, oldest first.    *)
Downlink(i) == got[slots[i].conn] \o slots[i].tbuf
                 \o (IF phase = "clients" /\ i >= turn THEN copy ELSE <<>>)
                 \o serial.rbuf

(* An open client is sent what the device sent from the moment it was      *)
(* accepted, in order, nothing twice, nothing of an earlier client of its  *)
(* slot, and without a gap but for what was dropped for want of room in    *)
(* its own transmit buffer or with the tty.                                *)
RelayExact ==
  \A i \in DOMAIN slots : IsOpen(slots[i]) =>
    LET c == slots[i].conn
    IN /\ Increasing(Downlink(i))
       /\ ElementsOf(Downlink(i)) = (joined[c] + 1 .. port.taken) \ missed[c]

(* The bytes on their way to the serial device: of all clients, in the     *)
(* order it gets them, and of connection c, in the receive buffer and the  *)
(* line buffer of its slot.                                                *)
Wire == heard \o serial.tbuf
Held(c) == LET own == {i \in DOMAIN slots : slots[i].conn = c}
           IN IF own = {} THEN <<>> ELSE Buffered(slots[CHOOSE i \in own : TRUE])
Uplink(c) == Wire \o Held(c)

InOrder(c, s) == \A j, k \in DOMAIN s : j < k /\ s[j][1] = c /\ s[k][1] = c => s[j][2] < s[k][2]
NumbersOf(c, s) == {s[k][2] : k \in {j \in DOMAIN s : s[j][1] = c}}

(* What a client sent reaches the device in order and at most once, and    *)
(* what was read from its socket is on the way unless it was dropped.      *)
UplinkExact == \A c \in Conns : /\ InOrder(c, Uplink(c))
                              /\ NumbersOf(c, Uplink(c)) = (1 .. taken[c]) \ cut[c]

(* The commands of two clients are never mixed: a byte follows the byte    *)
(* before it in the same line, or it starts a line.                        *)
Starts(b) == b[2] % LineLen = 1 % LineLen
LinesContiguous ==
  \A k \in 1 .. Len(Wire) - 1 :
    \/ Wire[k + 1][1] = Wire[k][1] /\ Wire[k + 1][2] = Wire[k][2] + 1
    \/ Starts(Wire[k + 1])

(* A new command is queued only when the last one, of whatever client, was *)
(* queued Pace ticks ago.                                                  *)
CommandsPaced == [][cmdTimer' > cmdTimer \/ Len(serial.tbuf') > Len(serial.tbuf) => queued = Pace]_vars

(* The device never receives the beginning of a line without its end: a    *)
(* line starts after a newline.                                            *)
LinesWhole ==
  \A k \in 1 .. Len(Wire) - 1 : Starts(Wire[k + 1]) => NewLine(Wire[k])

(* Until a client leaves or the tty does, with an open tty that takes its  *)
(* output: no byte is dropped once it was read from its socket, and lines  *)
(* arrive whole.  When one leaves, selector_loop ends with output unsent.  *)
Undisturbed == shut = {} /\ port.faults = 0
NothingCut == Undisturbed => LinesWhole /\ \A c \in Conns : cut[c] = {}

(* Until the tty goes away a client that stays and keeps reading misses    *)
(* nothing the device sends, whatever another client does, slow to read,   *)
(* gone or accepted in the slot of one that is gone.                       *)
FastMissNothing == port.faults = 0 => \A c \in Conns \ (Slow \cup shut) : missed[c] = {}

(* While the tty stays open: what the device sends is in the end written   *)
(* to every client that stays, or dropped in its favour of older bytes.    *)
Served == <>[]IsOpen(serial) /\ [](phase /= "killed")
Connected(c) == c \in {slots[i].conn : i \in DOMAIN slots} \ shut
RelayDelivers ==
  Served => <>[](\A c \in Conns, n \in 1 .. port.emitted :
                   Connected(c) /\ joined[c] < n => n \in ElementsOf(got[c]) \cup missed[c])

(* While the tty stays open: a complete line of a client that stays is in  *)
(* the end sent to the device, or what did not fit of it dropped.          *)
CommandsDelivered ==
  Served => <>[](\A c \in Conns \ shut : \A n \in 1 .. sent[c] - (sent[c] % LineLen) :
                   <<c, n>> \in ElementsOf(heard) \/ n \in cut[c])
==============================================================================
