# hdmi2usbd in TLA+

`hdmi2usbd` is a single-threaded daemon between one serial device (an HDMI2USB
board on a tty) and any number of TCP clients.  What the device sends goes to
every client; the lines the clients send go to the device, one line per
`COMMAND_PACE`, one character per `CHARACTER_PACING`.  This directory holds
TLA+ models of it, the TLC configurations that check them and proofs for TLAPS.
Paths below are relative to the repository (`src/buffer.c`, `include/buffer.h`).

## 1. Inventory

| Component | State | Operations | Talks to |
|---|---|---|---|
| `buffer.c` ring buffer | `b_size`, `b_lo`, `b_hi`, `b_data` | put, peek, get, copy, move, flush, used, available | every device, `app->copy` |
| `array.c` | `e_end`, `e_all`, `data` | new, growth by `realloc` | the selector, netutils |
| `selector.c` | the array of `iodev_t`, three `fd_set`s on the stack | `selector_loop`: set_masks on every device, `select`, dispatch; `selector_new_device` | devices through function pointers |
| `iodev.c` | `fd`, `state`, `rbuf`, `tbuf`, `linebuf` | set_masks, read/write/except handlers, `iodev_write`, open, close | buffers, the kernel |
| `serial.c` | `iodev` + pacer timer, termios | open, close, paced write | the tty |
| `nettcp.c` | `iodev` + addresses | listen, accept, close | sockets, the selector (accept makes a device *inside* a dispatch) |
| `stringstore.c` | `ss_buff`, `ss_size`, `ss_used`, `ss_inc` | append with growth, next line, consume | the client devices |
| `timer.c` | start and end, values of the wall clock | reset, remaining, expired | command pace, character pace |
| `hdmi2usbd.c` loop | `copy`, `last_command` | relay serial data, collect client data, queue one command | all of the above |
| `hdmi2usbd.c` life cycle | `signal_received`, stack of handlers | init, signals, reload, close | selector, netutils |
| `netutils.c` | address list, iterator | resolve, iterate | life cycle |
| `device.c` | the list of candidates | `find_serial`: patterns, names, access | life cycle |
| `logging.c` | flags, verbosity, log file | init, open the file, log a message | everything that fails |
| `main.c` | options, `optind` of getopt | `parse_args`, start, exit code | all of the above |

How they interact: `hdmi2usb_main` alternates between `selector_loop`, which
returns only when `select` times out, fails or has nothing to watch, and either
`hdmi2usb_process` or the action for a signal.  Inside `selector_loop` the
devices' handlers run in the order of the array, and they change what the rest
of the same dispatch works on: they close descriptors, open new ones with the
same number, append devices to the array.

What is hard:

- **ordering within a dispatch**: result sets of `select` that are older than
  the descriptors they are used for; the array moving under a pointer;
- **reuse**: slots of the array and descriptor numbers are used again, and the
  buffers of a slot with them;
- **limits**: full transmit buffers, of slow clients and of the slow device;
- **pace**: one timer for the commands of all clients;
- **failures**: a tty that goes away with half a command, clients that go away
  with input pending, addresses in use, a failed resolution;
- **signals** at any point of initialisation, loop, reload and exit;
- **time**: the timers run on a clock that may be set;
- **options** that take more words than their argument, share bits with other
  flags, or undo one another.

What makes each component correct: a ring is a bounded FIFO; a device is open
exactly when it holds a descriptor, and nobody else holds it; a handler runs only
for an event of its own file; a client receives the serial stream from its
accept on, in order, without gaps but for what did not fit; a line of a client
reaches the device whole, once, in order, unmixed and paced; an interrupt ends
the daemon, a hang-up reloads it once, and an address in use is retried; every
family that was resolved gets a listener; a daemon without a serial device, or
without a listener, ends; every option of an accepted command line counts; no
log message that was asked for is lost, and none that was not appears.

## 2. Modules

| Module | Models | Abstraction |
|---|---|---|
| `ByteQueue` | what buffer users rely on: `Fitting`, `Added`, `First`, `Rest` on bounded sequences | a queue of `b_size - 1` bytes |
| `Fifo` | the contract in `include/buffer.h` as a state machine of two queues | |
| `Buffer` | `src/buffer.c`: indices, wrap, partial copies | implements `Fifo` |
| `QueueProofs` | lemmas about the operators of `ByteQueue`, sequences and remainders | |
| `BufferProofs`, `SelectorProofs`, `GatewayProofs`, `CommandsProofs`, `LifecycleProofs`, `DaemonProofs` | theorems about the module each is named after | |
| `Gateway` | the data path: `selector_loop` by events, the handlers, `hdmi2usb_process` | rings are the queues of `ByteQueue`; a byte is its position |
| `Selector` | `selector_loop` by descriptors and `fd_set`s, the device array | a device has output or has not |
| `StringStore` | `src/stringstore.c` as far as it is called: the allocation, its growth, the bytes in use and those left behind | a byte is a newline, a NUL or another |
| `Timer` | `src/timer.c`: a start and an end on a clock | |
| `PacedLines` | what a line buffer and the pause promise: a text that is cut into commands, a pause apart | |
| `Commands` | one connection in time: line buffer, both timers, serial output, a clock that is set | implements `PacedLines` |
| `Lifecycle` | `hdmi2usb_main`, `_init`, `_close`: search for the tty, resolution, the loop over the addresses, signals, reload | devices without data |
| `Options` | `parse_args` and what getopt does for it | a word is an option with or without a text, or plain text |
| `Logging` | levels, flags, the log file and where a message goes | no texts |
| `Daemon` | `main`: `Options`, then `Lifecycle`, with its messages through `Logging` | |
| `MCBuffer`, `MCGateway`, `MCSelector`, `MCLifecycle`, `MCDaemon` | constants for TLC | |

`Gateway` and `Selector` are two views of one loop.  They share the order of
dispatch (device by device, read before write), the states of a device and the
rules for slots.  The except handler, which runs after the write handler and
closes a connection that has urgent data, is in `Selector` only; the clients of
`Gateway` send none.  `Gateway` has the contents of buffers and one
bit, `stale`, for what descriptors can do to it: `select` fails with EBADF,
which ends `selector_loop` and lets `hdmi2usb_process` run although the devices
still have output.
`Selector` has the descriptors and one bit per device for the contents (is
there output).  `Lifecycle` adds what surrounds the loop.  `Buffer` justifies
the queues of `Gateway`: `ImplementsFifo` says that each call on a ring is the
call of the same name on a queue, and both `Fifo` and `Gateway` take these
calls from `ByteQueue`.  `Gateway` has several connections and no clock but
ticks; `Commands` has one connection, the bytes of its line buffer and the
clock, and is where `StringStore` and `Timer` are composed.  `Daemon` is
`Lifecycle` inside the process: its variables are those of `Lifecycle`,
`Options` and `Logging` together, and every step of `hdmi2usb_main` logs what
the code logs there.

### Correspondence

*Buffer.*  `src` and `dst` are two `buffer_t` as records `[size, lo, hi,
data]`; `PutBytes`, `PeekBytes`, `Advanced`, `Transferred` and `Flushed` are
`buffer_put`, `buffer_peek`, the index update of `buffer_get`,
`buffer_copymove` and `buffer_flush`.  `reply` is what the call gives back.
A fresh ring has arbitrary bytes (`malloc`).  `buffer_get` with a NULL address
is `Discard`.

*Gateway.*  `serial` and `slots` are the serial `iodev_t` and the accepted
ones, in array order; the listener, between them, has no buffers.  `phase` and
`turn` are the program counter: `poll` (set_masks and select), `dispatch` (one
action per handler call, in order, by the set `ready`), `process` and
`clients` (`hdmi2usb_process_serial_data`, then one action per client device).
`cmdTimer` and `pacer` are the two timers in ticks.  `Emit`, `Unplug`,
`Connect`, `Send`, `Shut` and `Tick` are the environment.  The ghost variables
(`taken`, `joined`, `got`, `heard`, `missed`, `cut`, `queued`) only record.
A write to a socket that the peer has closed may fail, with two outcomes, `ClientWriteFails`
(ECONNRESET) and `SigPipe` (EPIPE under the default action, which no code
changes).  A client in `Slow` may have a full socket, which then takes a part of
what is written or is not reported as writable; the others take all of it.
`SlowPort` says the same of the tty.  `OpenResults` are the states `serial_open`
may end in, and `Preempted` lets time pass inside `hdmi2usb_process`.

*Selector.*  `devs` is the device array (index 1 here is index 0 there),
`alloced` its capacity, `rset`, `wset`, `xset` the sets, `file` the kernel's
table of descriptors, from which `open`, `socket` and `accept` take the lowest
free one.  `pc` and `at` walk set_masks device by device, and dispatch handler
by handler; a device appended in a dispatch is visited by it, as in the code.
`moved` says that `realloc` moved the array in the read handler that just ran.
`Outside` is the part of `hdmi2usb_process` that concerns devices.

*StringStore, Timer.*  A store is a record of the allocated bytes by offset,
`size`, `used` and `inc`, so that growth copies what is in use, and consuming
leaves the old bytes behind.  `Increment` is the loop that adds blocks, in
closed form.  `NextLength` is `stringstore_nextstr` from offset 0.  A timer is
`[started, ending]`; `NEVER` is 0, which is also what `memset` leaves.

*Commands.*  `pc` is `select` inside `selector_loop`, or the next of the two
functions that `hdmi2usb_process` calls for a connection.  `SerialWrite` is all
of `serial_write_handler`; `select` calls for it as long as the transmit buffer
has output and the tty is `ready`, whether the pacer is done or not, and each
call starts the wait anew.  `hdmi2usb_process` is reached only by `Timeout`,
when `waited` has come to `loop_time` without an event, and by `SelectFails`
(EBADF after a client left).  `Stall` and `Resume` are the tty; `Faults` says
which of the two faults may happen and `faults` which did.  An event of a
client, which also starts the wait anew, is a wait that lasts longer.  `Tick`
is time, `ClockSet` someone setting the clock.  `since`, `ahead`, `behind`,
`quiet`, `given`, `heard` only record.

*Lifecycle.*  `pc` is the place in `hdmi2usb_main`; `signal`, `disp`, `stack`
are `signal_received`, the process's dispositions and `signal_stack`;
`found` is the iterator over the resolved addresses with the bits of
`listen_ports`, and `NextAddress` one turn of the loop over them;
`listeners` are the listening devices, `lost` the addresses of sockets that a
reload left open without a device, `foreign` those of another program; `ttys`
are the serial devices that are there, and `hung` says that the one behind the
open descriptor is not.  `todo` walks `set_masks` over the devices.
`scarce` says that `socket()` may fail (no descriptor left, or no such address
family): the listener is then inactive and not tried again, unlike one whose
`bind` fails.  `TakesPlace` is an accepted connection that gets the slot of an
inactive listener, which is `taken` then and no listener any more.  (`Selector`
has one listener, which is always open, so that there only connections give up
their slots.)  `Deliver` is possible in every state, also between two steps of a reload.
The states `killed` (default action), `quit` (`exit(31)` in the handler, which
writes a line to stderr before; that line is in `Daemon`) and
`crashed` (NULL address list) are ends of the process.

*Options.*  `args` is the command line, `optind` getopt's, `seen` the words
that getopt returned as options.  Each case of the `switch` is an action.
`Port(k)` has the loop that takes words from the one before `optind`, and
what it leaves in `optind`.  The log flags are a set of the names of the bits,
and `INET` and `INET6` are the bits that `-4` and `-6` really toggle: those of
`LOG_STDERR` and of both `LOG_STDERR` and `LOG_UTC`.

*Logging, Daemon.*  `Logs` is `log_log`: when the file is wanted and not open,
it is opened, which may fail.  `told` and `silent` record where messages went
and whether one went nowhere.  `told` has what is written past the log too
(`Printed`): the reason why `parse_args` refuses a command line, and "Keyboard
Quit" of the second interrupt (`src/hdmi2usbd.c:64`), both on stderr.  `stage` is the place in `main`, `code` the exit
code; `Run` pairs each step of `hdmi2usb_main` with the level of its message.

## 3. Runs

| Run | Checks | Bounds | Shows |
|---|---|---|---|
| `buffer` | `TypeOK`, `ImplementsFifo` | sizes 0..3, strings and lengths up to 4, two bytes | the ring arithmetic, wrap in source and destination, sizes 0 and 1 |
| `gateway_relay` | `TypeOK`, `RelayExact`, `FastMissNothing` | 2 clients, both leaving, one slow, 4 serial bytes, one unplug, capacity 2 | downlink exactness through slow clients, reuse of slots, replugging; a slow client costs the others nothing |
| `gateway_command` | `UplinkExact`, `LinesContiguous`, `CommandsPaced` | 2 clients, 3 lines of 2 bytes, capacity 2, pace 2 ticks, time inside the processing | uplink exactness, no mixing, the pace across clients |
| `gateway_live` | `NothingCut`, `RelayDelivers`, `CommandsDelivered` | 2 clients with a line each, one slow and leaving; one serial byte; capacity 3 | with a tty that takes its output nothing is cut, and lines are whole, until a client leaves; delivery under fairness |
| `selector` | `TypeOK`, `DescriptorsHeld`, `SerialFirst`, `OwnEvents`, `ConnectionsKeptCalm`, `AcceptsAll` | 2 clients: one sends and leaves, one has urgent data; 4 descriptors, one hang-up, growth by 4 | ownership of descriptors, slots and events; recovery from EBADF, no lost connection |
| `commands` | `TypeOK`, `HeldLimited`, `ImplementsPacedLines`, `PauseKept`, `LoopTimeHeard`, `CommandsGoOut` | 3 bytes of three kinds in reads of up to 2, a store that grows by 1, pause and `loop_time` 2, one tick between characters, one setting of the clock by 1, any number of stalls and failures of `select` | the line buffer and the pauses, whatever the clock, the tty and `select` do |
| `daemon` | `DaemonTypeOK`, `HandlersInPlace`, `ListensOnce`, `NothingSkipped`, `QuietHonoured`, `NothingSilent`, `InterruptEnds`, `BindRetried`, `GoneEnds` | 9 command lines, 2 answers of the resolver, 2 ttys that go and come, `socket()` refused or not, `MaxSerialSpecs` 6 | the process from its arguments to its exit code |
| `truncation`, `stale_event`, `stale_pointer`, `reload`, `listenerless` | one property each | | see Disagreements |

The bounds: a capacity of two (`BufSize = 3`, as a ring holds one byte less
than its size) with lines of two bytes lets a buffer be empty, partly full and
full, and a line arrive in parts (in `gateway_live` it is three, so that a line and a
serial byte fit together); two clients are a fast and a slow one, or a
leaver and its successor in the same slot; four descriptors are all that two
devices and two clients need, so that every close makes the next open take a
number that was used; `Chunk = 4` makes the second client grow the array.  In
`selector` data comes only before the last hang-up: after it a read that finds
bytes changes nothing that a property sees.  A store of size and step 1 grows
with almost every append, by one block and by several, and three bytes are
enough for two commands, one of two bytes, and stale bytes behind the second.
A pause as short as `loop_time` ends before `select` does while the tty takes
its output, and not when `select` fails, so that a command is queued at once
or has to wait.  Two of the command
lines of `daemon` run to the end (one with `-q`, a log file and a level, one
with two ports, `-4` and a log file), the others are refused at a different
option each or read for ever; between them every case of `parse_args` is
taken.  The two answers of the resolver are a family twice, and an address
before the one for all interfaces.  `MaxSerialSpecs` is 6 so that `-p` can
reach it.
`MaxEmit`, `MaxFaults`, `MaxHangs` bound the environment, never the daemon;
`Sends` bounds the lines.  Ticks stop when both timers have expired and the
last command is `Pace` ticks old.  Deadlock is not checked where the system
really stops: the world is bounded, and the daemon may exit.

Fairness.  `Gateway!FairSpec` assumes that the
thread runs (weak fairness of each of its steps), that time passes (strong
fairness of `Tick`, since a step of the thread may disable and enable it), and
that `select` reports again and again each descriptor which has output: kernel
and peer take bytes in the end.  `Selector!FairSpec` says that the thread runs
until it ends, as infinitely many changes of its own variables; a step of the
daemon is possible in every other state, so this is weak fairness of it.
`Commands!FairSpec` assumes that the thread goes on and time does (`WF` of
`Timeout`, `ClientData`, `ClientCommands` and `Tick`), and that the write
handler runs again and again if the tty could be written to again and again
(`SF` of `SerialWrite`): `select` does not fail each time before it is looked
at, since it fails only when a client left.  That the tty does not stall for
ever is the premise of `CommandsGoOut` (`<>[]ready`), not assumed.
`Lifecycle!FairSpec` and `DaemonSpec` assume that the thread runs (`WF`), and
that `select` is from time to time without an event or is interrupted
(`SF` of `Idle`): `loop_time` is 20 ms by default, and the loop
returns to `hdmi2usb_main` only then, also for a signal (select ends with
EINTR).  A peer that always has an event would keep it from that; this is
listed as a hazard and is outside what the liveness properties claim.  The tty
may hang up for good, as may the clients; nothing assumes that they act.

### Disagreements

Five runs show the code at variance with what its comments or logs say.

- `truncation` (`LinesWhole`): `iodev_write` queues the part of a command that
  fits and the caller removes all of it from the line buffer; the next command
  follows a line without its newline.
- `stale_event` (`ConnectionsKept`): within one dispatch the serial device
  closes, an accepted socket gets its descriptor number, and the old ready bit
  makes the new client read, get EAGAIN, and be closed.  `ConnectionsKeptCalm`
  and `OwnEvents`, checked by the run `selector` and proved for any number of
  clients, say that clients alone do not cause it, because the listener
  precedes every client in the array and the search for a slot takes the first.
- `stale_pointer` (`PointerValid`): `selector_dispatch` goes on through `dev`
  after the accept in its read handler may have moved the array.
- `reload` (`ReloadEnds`): `signal_received` is never reset.  After one SIGHUP
  every return of `selector_loop` reloads again, `hdmi2usb_process` is not
  called any more, and the sockets of before hold the addresses.
- `listenerless` (`ListenerlessEnds`): `src/hdmi2usbd.c:260` and `:282` say
  that the daemon ends when no listener is open or active, but listeners are
  counted in whatever state.  When `socket()` fails for all of them they are
  inactive for good, and the daemon runs on without anybody being able to
  connect.

Seen while modelling and in no run:

- end of file discards input that `hdmi2usb_process` has not seen
  (`src/iodev.c:198`; `UplinkExact` accounts for it in `cut`); the failing
  `select` after a client left ends `selector_loop` with output unsent, so that
  a second command may be queued behind the rest of the first and lose its end
  though the tty takes everything (`NothingCut` ends there); a slot taken
  again drops the lines that wait in it (`src/selector.c:75`); a reset
  connection raises SIGPIPE (`src/iodev.c:221`; `SigPipe` in `Gateway`);
- the pause counts from queueing a command, not from its last character
  (`src/hdmi2usbd.c:242`).  While the tty takes its output this does little
  harm, however long the commands: the bytes in the transmit buffer are an
  event for `select`, so `hdmi2usb_process` runs only after all of them are out
  and `loop_time` has passed.  That much, 20 ms, the device then has between
  two commands (`LoopTimeHeard`), where the pause is 500 ms between two
  queueings (`PauseKept`).  With a tty that takes no output for longer than the
  pause, before the end of a command is out, `select` times out and the next
  command is queued behind it: the device then hears it right after the newline,
  at the distance of two characters, although commands are paced because it may
  not accept input for a while (`src/hdmi2usbd.c:221-223`);
- `-c` sets `command_time`, which nothing reads: the pause is `COMMAND_PACE`,
  half a second, where `src/main.c:51` says 2000 ms by default;
- `-4` and `-6` do not choose a family (`listen_flags` is never set, against
  `src/main.c:56`): they toggle `AF_INET` and `AF_INET6` in the log flags,
  where these are the bits of `LOG_STDERR` and `LOG_UTC`, and
  `src/main.c:273` then clears both bits.  So `-e -e` does not log to stderr
  (against `src/main.c:52`) and `-6` changes the dates.  The bits are in
  `Options`, but no property catches these harms: `QuietHonoured` and
  `NothingSilent` only say that the collision does not undo `-q` and silences
  nothing;
- the first `-V` counts from 0, which stands for the default level: it lowers
  the verbosity, against `src/main.c:59`; with an invalid level the process
  prints the usage and exits with 0;
- `-pX`, `--port=X`, and `-p` from word `MAX_SERIAL_SPECS` on, are read again
  for ever (`src/main.c:223`; `ReadsOnce` excludes them from `GoneEnds`);
- with a name that stands for one address and for all interfaces, the listener
  for all never binds, because the daemon's own socket holds the port; it is
  tried, and the failure logged, at every pass of the loop (`Blocked` in
  `BindRetried`);
- `-b 0` makes every connection count as a listener (`src/iodev.c:279`);
- `buffer_compact` (`src/buffer.c:79-97`) has the branches for wrapped and
  unwrapped rings exchanged, but no caller.

## 4. Proofs

`BufferProofs!TypeCorrect` proves `Spec => []TypeOK` of `Buffer` for every set
of bytes, sizes, inputs and lengths (`BufferAssumption`: natural numbers and
sequences of bytes).  `TypeOK` is inductive as it stands: `RingOK` keeps both
indices below `b_size` (and at 0 for a ring without data), so every access to
`b_data` is inside the allocation.  The lemmas follow the functions: `UsedBound`
(used and available add up to `b_size - 1`), `IncIndex` (an index advanced by
`buffer_inc` is an index), `PutRing`, `TopBound` and `PeekSeq` (the part above
the wrap and the part below it), `AdvancedRing`, `MoveCountBound`,
`TransferredRing` (up to two puts in the destination), `FlushedRing`; the
theorem has one step for each operation.

`FifoCorrect` proves `Spec => ImplementsFifo`: with `Contents` as the refinement
mapping each call on the rings is a step of `Fifo` with the same reply.
`PutShape` and `AdvancedShape` say where the bytes are in the array after a put
and after an advance, in one piece or two, and `PutContents`,
`AdvancedContents`, `PeekContents` and `TransferredContents` (up to two puts of
the two pieces of the source) what that makes of the contents.  The lemmas about `First`, `Rest` and
concatenation are in `QueueProofs`, which `GatewayProofs` and `SelectorProofs`
use too.

`SelectorProofs` proves the safety properties of `Selector` for every number of
descriptors and connections and every chunk.  `SelectorAssumption` says what the
model leaves out: that the process does not run out of descriptors
(`Cardinality(Conns) + 2 <= Cardinality(Fds)`; the code closes nothing to make
room).  `DevInv` is inductive: the elements are devices, each file of the kernel
belongs to one descriptor or one connection that waits, and a device is open
exactly when it holds a descriptor of its kind.  That a descriptor is free
whenever one is wanted is counting (`FreeOK`): the open descriptors are at most
the files there can be.  From it follow `DescriptorsCorrect`, `SerialCorrect`
and, with `LoopInv` for the counters and sets, `TypeCorrect`.  `EventsOwned`
and `ConnectionsCalm` need `CalmInv`: in the middle of a dispatch, a place that
is still to be looked at and has its bit has it for the file its device still
holds; and none of the bits is of a closed descriptor before the listener has
accepted.  It holds until the tty hangs up, because the serial device is the
only one before the listener.

`GatewayProofs` proves the safety properties of `Gateway` for every number of
clients, bytes and faults, every size of the buffers, length of lines and pace
(`GatewayAssumption`: natural numbers, and rings that hold a byte at least).
Six invariants build on one another:

- `TypeInv` (`TypeCorrect`): types and capacities, that a connection is in one
  slot or in one place of the backlog, that a slot is given up only by a client
  that left, and that the listener is reported only when somebody waits;
- `PaceInv` (`PaceCorrect`): the timer and the age of the last command add up
  to the pause, whoever queued it;
- `UpInv` (`UplinkCorrect`): what a slot holds of its client are the bytes after
  the m-th, m a number of whole lines, without a gap, and the bytes up to m are
  on the wire or lost (`Follows`).  `LinesCorrect` follows: what is put on the
  wire is the front of such a run, which starts a line, or a part of it.
  `ReadersOpen` is needed on the way: a slot that select reported as readable
  is open when its read handler runs, because only its own handlers close it;
- `SerialInv` and `RelayInv` (`RelayCorrect`): the way of the serial bytes to a
  client in four parts, what it got, its transmit buffer, the copy while its
  turn is to come, the receive buffer, each increasing and below the next, and
  together all bytes since it was accepted but for those lost to it (`Way`);
- `FastInv` (`FastCorrect`): while the tty stays, a transmit buffer of a client
  that stays and keeps reading has data only from its turn in
  `hdmi2usb_process` until its write handler runs (`Waits`, `Due`).  So it is
  empty when the next copy comes, which fits;
- `QuietInv` (`NothingCutCorrect`): under `QuietPort`, until somebody leaves,
  the serial buffer is empty when a command comes and the wire ends with a
  newline.  `QuietPort` is what the constants have to say for that: the tty
  takes its output and opens or becomes inactive, nobody else has the processor
  inside `hdmi2usb_process`, the pause is not 0 and a line fits.  The constants
  of `gateway_live` meet it; without it `truncation` is the counterexample.

The steps are proved handler by handler: what a handler does to its slot and to
the ghosts is a lemma of its own (`ReadEffect`, `WriteEffect`, `LeaveEffect`,
`ServeEffect`), from which the step of each invariant follows.

`LifecycleProofs!HandlersCorrect` proves `Spec => []HandlersInPlace` of
`Lifecycle` for every set of resolver answers and of addresses in use.
`HandlersInPlace` speaks of two places of the program and is not inductive: that
the loop starts with both handlers installed, and that the exit restores the
old ones, depends on the stack matching the dispositions in between.  The
strengthening `StackMatches` says so: the stack is empty, holds SIGHUP's entry
or both, in step with the place in `hdmi2usb_main`, and the dispositions are
"default" but for the signals on the stack.  The actions between
initialisation and close are one lemma (`StackKept`); `Install` and `Pop` are
proved by the height of the stack.

`LifecycleProofs!ListensCorrect` proves `Spec => []ListensOnce` for every list
of addresses (`LifecycleAssumption`: none is empty, as getaddrinfo promises).
`ListenInv` describes the loop in the middle: the bits are those of the
addresses passed, each bit of a family belongs to one listener, and the bit
for all interfaces is not set while the loop goes on.  `Extended` is one turn.
`LifecycleProofs!TypeCorrect` proves `TypeOK` with both: that the stack of
handlers never has more than two entries follows from `StackMatches`, that the
listeners keep resolved addresses from `ListenInv`.

`DaemonProofs` carries both to the process (`DaemonHandlers`,
`DaemonListens`): each step of `DaemonSpec` is one of `Lifecycle` or sets the
patterns.  `OptionsRead` (`[]NothingSkipped`), `QuietCorrect`
(`[]QuietHonoured`) and `NothingLost` (`[]NothingSilent`) hold for every
command line of any length (`OptionsAssumption`).  `ParserInv`: every word
before `optind` is plain, was read or is an argument, no `-e` or `-q` was read
beyond `optind`, and the flags are what the last of them left.  `LogInv`: while
`-q` is in force the log does not echo, otherwise it has a file or echoes, and
so does each state of the log after a failed opening; and what the terminal got
all the same is in `PastTheLog`, the line of a refused command line or of the
second interrupt.  That what is there stays there (`PastKept`) needs that a
process which quit does nothing more (`QuitEnds`).
`DaemonTypesCorrect` proves `DaemonTypeOK`.  It needs that the patterns the
parser leaves are ones `Lifecycle` is for (`DaemonAssumption`: `Specs` has the
pattern of `auto_devices` and every run of words after a `-p`), and that
`optind` stays within one word of the end however `-p` sets it (`PortFine`).

`CommandsProofs` proves every safety property of `Commands`, for all sizes,
paces and chunks (`CommandsAssumption`).  `TypeCorrect` needs that the growth
is enough (`IncrementEnough`, from `Quotient`), that what was in use survives
it (`GrownOK`), and that the clock, though it is set back, stays positive.  That last fact,
and the pause, are in `TimeInv`: the end of the pause is `CommandPace` after
its start, corrected by the time since and by what the clock was set; from it follow
`PauseCorrect` and `HeldCorrect`.  `LoopTimeCorrect` needs `CalmInv`: while the
tty takes its output and `select` has not failed, the transmit buffer is empty
in `hdmi2usb_process`, which is reached `loop_time` after the last character at
the earliest, and later holds the rest of one command at most (`OneCommand`); if
that is all of it, the end of the command before is `loop_time` ago.
`PacedCorrect` is the refinement: `AppendedOK`
and `ConsumedOK` say what append and consume do to the contents, `NextLengthOK`
that the first end of a command is found (`Least`), and each action of
`Commands` is then an action of `PacedLines` or leaves its variables alone
(`ReceiveStep`, `SendStep`, `TickStep`, `ClockSetStep`).

Only model-checked: liveness (`RelayDelivers`, `CommandsDelivered`,
`AcceptsAll`, `CommandsGoOut`, `InterruptEnds`, `BindRetried`, `GoneEnds`), which stays with TLC for good, since the prover does not treat
ENABLED.  Every invariant and every action property of the passing runs is
proved, and so are both refinements.  `NothingCut` is proved under `QuietPort`
only, which the run that checks it meets.

## 5. Not modelled

- Functions without a caller in the daemon: `buffer_compact`, `array_insert`,
  `array_delete`, `tcp_create_connect`, insertion, splitting and
  compaction of a string store, `timer_since`, `timer_elapsed`,
  `timer_trigger`, `ipaddrs_delete`, `ipaddriter_prev`, the flush on close.
- The termios settings, the texts of messages and of the usage, dates and the
  name of the log file; `log_init` doubling `%` in it.
- `daemon()` and its fork; that a reload after it is not forked again.
- `wordexp` failing for a pattern: `find_serial_all` has a static list head
  and would return the list that its caller freed at the last call.
- `-h` and `-v`, which print and exit; letters bundled in a word, `--`, and
  getopt moving plain words behind the options, but for passing over them.
- Failures of `malloc`; `realloc` failing in `array_check_alloc`; buffers of
  size 0 in devices.
- Peers that always have an event, which keep `hdmi2usb_process` and signals
  waiting: the senders of `Gateway` are bounded, and the fairness of the others
  excludes it.
- Failures of `bind` other than an address in use, of `listen` and of
  `setsockopt`; that a descriptor is missing for `accept` or for the tty.
- What `parse_args` prints but the fact that it does when it refuses a line.
- The width of the clock: 64 bits of microseconds do not wrap.
- Several connections with a clock: `Gateway` has ticks, `Commands` one
  connection.

## 6. Plan

1. *Done*: `Buffer` with `Fifo`, `Gateway`, `Selector`, `Lifecycle`, their runs,
   the type theorem of `Buffer`, the handlers of `Lifecycle`.
2. *Done*: `StringStore` and `Timer` in `Commands` with `PacedLines`; the search
   for the tty and the addresses in `Lifecycle`; `Options`, `Logging` and
   `Daemon`; all safety theorems of `Commands`, `ListensOnce`, and what the
   process promises of options and messages.
3. *Done*: the refinement of `Fifo` by `Buffer`; the safety properties of
   `Selector` and of `Gateway`; the types of `Lifecycle` and `Daemon`; the wait
   of `select` and a tty that stalls in `Commands`, sockets that are refused in
   `Lifecycle`, and what is written past the log in `Daemon`.
4. Proofs: which of the findings go away with which repair, stated as theorems
   under a constant that stands for it; more of what liveness rests on, such as
   that no step but a handler's own takes its event away.
