------------------------------ MODULE Commands ------------------------------
(***************************************************************************)
(* The way of a command in time: the line buffer of a connection, the      *)
(* timer between commands (last_command), the output buffer of the serial  *)
(* device and the timer between characters (pacer), with the wait of       *)
(* select between them.  One connection; how several share the serial      *)
(* device is in Gateway, which has no clock.                               *)
(***************************************************************************)
EXTENDS StringStore, Timer

CONSTANTS StoreSize,    \* STRSTORE_SIZE
          CommandPace,  \* COMMAND_PACE
          CharPace,     \* CHARACTER_PACING
          LoopTime,     \* loop_time, the timeout of select
          MaxChunk,     \* the most bytes of one read
          MaxBytes,     \* bound on what the client sends
          Jump,         \* by how much the clock is set at most
          MaxSets,      \* bound on how often it is set
          Faults        \* what may go wrong: the tty may stall, select may fail

ASSUME CommandsAssumption ==
  /\ StoreSize \in Nat \ {0} /\ CommandPace \in Nat \ {0} /\ CharPace \in Nat \ {0}
  /\ MaxChunk \in Nat /\ MaxBytes \in Nat /\ Jump \in Nat /\ MaxSets \in Nat
  /\ LoopTime \in 1 .. CommandPace /\ Faults \subseteq {"stall", "select"}

VARIABLES pc,            \* in select, or the function hdmi2usb_process comes to
          waited,        \* how long select has waited, up to loop_time
          ready,         \* the tty can be written to
          faults,        \* what went wrong so far
          store,         \* linebuf of the connection
          last_command,  \* the timer of that name
          tbuf,          \* the output buffer of the serial device
          pacer,         \* the timer of that name
          wall,          \* the clock gettimeofday reads
          sets,          \* how often the clock was set
          received,      \* how many bytes the client has sent
          given,         \* the command last written to tbuf
          since,         \* the time passed since then, up to a pause
          ahead,         \* by how much the clock was advanced since then
          behind,        \* by how much it was set back since then
          heard,         \* the last character the device was sent
          quiet          \* the time passed since then, up to a pause

ghosts == <<given, since, ahead, behind>>
device == <<tbuf, pacer, heard, quiet>>
tty    == <<ready, faults>>
vars   == <<pc, waited, tty, store, last_command, wall, sets, received, ghosts, device>>

Init == /\ pc = "select" /\ waited = 0 /\ ready = TRUE /\ faults = {}
        /\ store = Fresh(StoreSize) /\ last_command = Zeroed
        /\ tbuf = <<>> /\ wall = Jump * MaxSets + 1 /\ pacer = TimerReset(0, wall)
        /\ sets = 0 /\ received = 0
        /\ given = <<>> /\ since = CommandPace /\ ahead = 0 /\ behind = 0
        /\ heard = "none" /\ quiet = CommandPace

------------------------------------------------------------------------------
(* selector_loop: a tty that can be written to is an event as long as it   *)
(* has output, whether the pacer is done or not.  hdmi2usb_process runs    *)
(* only when select has waited for loop_time without an event, or fails    *)
(* because a client left.  An event of a client starts the wait again:     *)
(* that is a wait which lasts longer.  Mutated form: select does not wait. *)
Event == ready /\ tbuf /= <<>>
TimedOutAtOnce == TRUE
TimedOut == waited = LoopTime

Timeout == /\ pc = "select" /\ ~Event /\ TimedOut
           /\ pc' = "data"
           /\ UNCHANGED <<waited, tty, store, last_command, wall, sets, received, ghosts, device>>

SelectFails == /\ pc = "select" /\ "select" \in Faults
               /\ faults' = faults \cup {"select"} /\ pc' = "data"
               /\ UNCHANGED <<waited, ready, store, last_command, wall, sets, received, ghosts,
                              device>>

(* The tty stalls, and takes output again.                                 *)
Stall == /\ ready /\ "stall" \in Faults
         /\ ready' = FALSE /\ faults' = faults \cup {"stall"}
         /\ UNCHANGED <<pc, waited, store, last_command, wall, sets, received, ghosts, device>>

Resume == /\ ~ready /\ ready' = TRUE
          /\ UNCHANGED <<pc, waited, faults, store, last_command, wall, sets, received, ghosts,
                         device>>

------------------------------------------------------------------------------
(* hdmi2usb_process, for the connection.                                   *)

(* hdmi2usb_process_client_data, whatever the last read left in rbuf.      *)
Chunks == UNION {[1 .. n -> Bytes] : n \in 0 .. MaxChunk}

ClientData == /\ pc = "data" /\ pc' = "commands"
              /\ \E data \in Chunks :
                   /\ received + Len(data) <= MaxBytes
                   /\ received' = received + Len(data)
                   /\ store' = IF data = <<>> THEN store ELSE Appended(store, data)
              /\ UNCHANGED <<waited, tty, last_command, wall, sets, ghosts, device>>

(* hdmi2usb_process_client_commands: with no pause to keep, the first      *)
(* command goes to tbuf (which takes all of it) and the pause begins.      *)
Command == /\ Expired(last_command, wall) /\ NextLength(store) > 0
           /\ tbuf' = tbuf \o First(store, NextLength(store))
           /\ store' = Consumed(store, NextLength(store))
           /\ last_command' = TimerReset(CommandPace, wall)
           /\ given' = First(store, NextLength(store))
           /\ since' = 0 /\ ahead' = 0 /\ behind' = 0

NoCommand == /\ ~(Expired(last_command, wall) /\ NextLength(store) > 0)
             /\ UNCHANGED <<tbuf, store, last_command, ghosts>>

ClientCommands == /\ pc = "commands" /\ pc' = "select" /\ waited' = 0
                  /\ Command \/ NoCommand
                  /\ UNCHANGED <<tty, wall, sets, received, pacer, heard, quiet>>

------------------------------------------------------------------------------
(* serial_write_handler, when select reports the tty: one character, once  *)
(* the pacer is done, else nothing; and select begins to wait again.       *)
Write == /\ heard' = Head(tbuf) /\ tbuf' = Tail(tbuf)
         /\ pacer' = TimerReset(CharPace, wall)
         /\ quiet' = 0

SerialWrite == /\ pc = "select" /\ Event /\ waited' = 0
               /\ IF Expired(pacer, wall) THEN Write ELSE UNCHANGED device
               /\ UNCHANGED <<pc, tty, store, last_command, wall, sets, received, ghosts>>

------------------------------------------------------------------------------
(* Time passes, in select or elsewhere, and the clock with it as long as   *)
(* something can tell; or the clock is set.                                *)

Telling == \/ Remaining(last_command, wall) > 0 \/ Remaining(pacer, wall) > 0
           \/ since < CommandPace \/ quiet < CommandPace
Waiting == pc = "select" /\ ~Event /\ waited < LoopTime

Capped(time) == IF time < CommandPace THEN time + 1 ELSE time

Tick == /\ Telling \/ Waiting
        /\ wall' = IF Telling THEN wall + 1 ELSE wall
        /\ waited' = IF Waiting THEN waited + 1 ELSE waited
        /\ since' = Capped(since) /\ quiet' = Capped(quiet)
        /\ UNCHANGED <<pc, tty, store, last_command, sets, received, given, ahead, behind,
                       tbuf, pacer, heard>>

ClockSet == /\ sets < MaxSets /\ sets' = sets + 1
            /\ \E by \in 1 .. Jump :
                 \/ wall' = wall + by /\ ahead' = ahead + by /\ UNCHANGED behind
                 \/ wall' = wall - by /\ behind' = behind + by /\ UNCHANGED ahead
            /\ UNCHANGED <<pc, waited, tty, store, last_command, received, given, since, device>>

Next == \/ Timeout \/ SelectFails \/ ClientData \/ ClientCommands \/ SerialWrite
        \/ Stall \/ Resume \/ Tick \/ ClockSet

Spec == Init /\ [][Next]_vars

(* The loop goes on and time goes on; select does not fail every time the  *)
(* tty could be written to; and the events of clients leave select without *)
(* one for loop_time from time to time.                                    *)
FairSpec == /\ Spec
            /\ WF_vars(Timeout) /\ WF_vars(ClientData) /\ WF_vars(ClientCommands)
            /\ SF_vars(SerialWrite) /\ WF_vars(Tick)

------------------------------------------------------------------------------
(* Correctness.                                                            *)

Times == 0 .. CommandPace
Timers == [started : Nat, ending : Nat]

TypeOK ==
  /\ pc \in {"select", "data", "commands"} /\ IsStore(store)
  /\ waited \in 0 .. LoopTime /\ ready \in BOOLEAN /\ faults \subseteq Faults
  /\ last_command \in Timers /\ pacer \in Timers
  /\ tbuf \in Seq(Bytes) /\ heard \in Bytes \cup {"none"}
  /\ wall \in Nat /\ sets \in 0 .. MaxSets /\ received \in 0 .. MaxBytes
  /\ given \in Seq(Bytes)
  /\ since \in Times /\ quiet \in Times /\ ahead \in Nat /\ behind \in Nat

(* The line buffer, its growth and what it keeps of consumed bytes, the    *)
(* timer that compares values of the wall clock and the pass over the      *)
(* connection do what PacedLines says.                                     *)
Paced == INSTANCE PacedLines WITH
           Text <- Bytes, Pace <- CommandPace,
           text <- Contents(store), wait <- Remaining(last_command, wall)
ImplementsPacedLines == Paced!Spec

(* Between two commands a pause passes, less at most what the clock was    *)
(* advanced meanwhile.                                                     *)
PauseKept == [][Len(tbuf') > Len(tbuf) => since + ahead >= CommandPace]_vars

(* A command is held back for the rest of the pause and no longer, but for *)
(* what the clock was set back meanwhile, even when the pause was over.    *)
HeldLimited == Remaining(last_command, wall) <= CommandPace - since + behind

(* Every complete command in the end goes to the device, though the clock  *)
(* is set in between, select fails and the tty stalls, as long as it does  *)
(* not do so for ever.                                                     *)
CommandsGoOut ==
  <>[]ready =>
    <>[](tbuf = <<>> /\ \A i \in DOMAIN Contents(store) : Contents(store)[i] \notin Ends)

(* As long as the tty takes its output and select does not fail, the       *)
(* device gets loop_time at least between the end of a command and the     *)
(* next one, however long the command was: nothing is queued behind it     *)
(* while it goes out, and then select waits in vain.                       *)
LoopTimeHeard ==
  [][faults = {} /\ Len(tbuf') < Len(tbuf) /\ heard \in Ends => quiet >= LoopTime]_vars
=============================================================================
