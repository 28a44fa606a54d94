------------------------------- MODULE Daemon -------------------------------
(***************************************************************************)
(* main: the command line, the log, and hdmi2usb_main with the messages it *)
(* logs.  Lifecycle runs with the serial ports that Options found, and     *)
(* every message of it goes where Logging sends it.                        *)
(***************************************************************************)
EXTENDS Lifecycle, Options, Logging

(* The lists of patterns that Lifecycle is for are those opts.port can     *)
(* have: that of auto_devices, and any run of the words after a -p.        *)
Follow(line, k, l) == /\ k < l /\ line[k].opt = "p" /\ line[k].text = "none"
                      /\ \A i \in k + 1 .. l : IsPlain(line[i])
ASSUME DaemonAssumption ==
  /\ AutoPort \in Specs
  /\ \A line \in CommandLines : \A k, l \in DOMAIN line :
       Follow(line, k, l) => [i \in 1 .. l - k |-> <<line[k + i].text>>] \in Specs

VARIABLES stage,   \* of main
          code     \* the exit code of the process, -1 while it runs

main   == <<stage, code>>
states == <<vars, parser, logging, main>>

DaemonInit == Init /\ spec = AutoPort /\ ParseInit /\ LoggingInit /\ stage = "parse" /\ code = -1

------------------------------------------------------------------------------
Alive == pc \notin Ended

(* EX_SUCCESS, EX_NORMAL, EX_REQUEST and the 2 of parse_args are less than *)
(* EX_STARTUP, and are 0 for the shell.                                    *)
Shell(rcode) == IF rcode = "startup" THEN 3 ELSE 0

(* parse_args says on stderr why it refuses a command line.                *)
Refusal == {"startup", "invalid"}

ParseArgs == /\ stage = "parse" /\ Alive /\ Parse
             /\ IF parsed' \in Refusal THEN Printed("err") ELSE NoMessage
             /\ UNCHANGED <<vars, main>>

(* A command line that was refused: nothing was logged.                    *)
Refused == /\ stage = "parse" /\ Alive /\ parsed \in Refusal
           /\ stage' = "done" /\ code' = Shell(parsed)
           /\ UNCHANGED <<vars, parser, logging>>

(* log_init and the first message, and then the settings.                  *)
Start == /\ stage = "parse" /\ Alive /\ parsed = "success"
         /\ Logs(LogInit(opts.logflags, opts.verbose, opts.logfile), Level["critical"])
         /\ stage' = "settings"
         /\ UNCHANGED <<vars, parser, code>>

Settings == /\ stage = "settings" /\ Alive
            /\ Message("debug")
            /\ spec' = opts.port
            /\ stage' = "run"
            /\ UNCHANGED <<pc, todo, active, rc, signals, devices, world, parser, code>>

(* hdmi2usb_main.  The messages of each step: a port or an address that    *)
(* was found is a detail, one that cannot be opened or bound an error, the *)
(* reload, the interrupt and a missing port are critical, and an           *)
(* interrupted select is a warning.  Of a connection it is told when it    *)
(* comes, ends or fails.                                                   *)
Silent   == Install \/ Resolve \/ LastAddress \/ Pass \/ Process \/ Pop
Detailed == FindSerial \/ NextAddress
Critical == NoSerial \/ Reload \/ Interrupted
Failed   == ResolveFails
Visits   == VisitSerial \/ \E i \in DOMAIN listeners : VisitListener(i)
Events   == Busy \/ \E i \in DOMAIN listeners : TakesPlace(i)

OpenFails == \E i \in todo \ todo' :
               IF i = 0 THEN Reopens(serial) /\ serial' /= "open"
               ELSE Reopens(listeners[i].state) /\ listeners'[i].state /= "open"

Run == /\ stage = "run"
       /\ \/ Silent /\ NoMessage
          \/ Detailed /\ Message("debug")
          \/ Critical /\ Message("critical")
          \/ Failed /\ Message("error")
          \/ Visits /\ IF OpenFails THEN Message("error") ELSE NoMessage
          \/ Idle /\ (NoMessage \/ (signal /= "none" /\ Message("warning")))
          \/ Events /\ (NoMessage \/ Message("info") \/ Message("error"))
          \/ Closes /\ (Message("info") \/ Message("error"))
       /\ UNCHANGED <<parser, main>>

End == /\ stage = "run" /\ pc = "exit"
       /\ Message("critical")
       /\ stage' = "done" /\ code' = Shell(rc)
       /\ UNCHANGED <<vars, parser>>

(* A second interrupt (exit(31)), a signal with its default action and the *)
(* NULL pointer end the process at once; the first says so on stderr.      *)
Outside == /\ stage /= "done"
           /\ \/ World /\ NoMessage
              \/ /\ \E s \in Signals : Deliver(s)
                 /\ IF pc' = "quit" THEN Printed("err") ELSE NoMessage
           /\ UNCHANGED <<parser, main>>

DaemonStep == ParseArgs \/ Refused \/ Start \/ Settings \/ Run \/ End
DaemonNext == DaemonStep \/ Outside

IdleStep == Run /\ Idle

DaemonSpec == DaemonInit /\ [][DaemonNext]_states /\ WF_states(DaemonStep) /\ SF_states(IdleStep)

------------------------------------------------------------------------------
(* Correctness.                                                            *)

DaemonTypeOK ==
  /\ TypeOK
  /\ optind \in 1 .. Len(args) + 1 /\ parsed \in {"reading", "success", "startup", "invalid"}
  /\ opts.verbose \in Nat /\ seen \subseteq DOMAIN args
  /\ told \subseteq {"file", "out", "err"} /\ log.verbosity \in Nat
  /\ stage \in {"parse", "settings", "run", "done"} /\ code \in {-1, 0, 3}

(* With -q the last option on the matter, no log message reaches the       *)
(* terminal, though the log file cannot be opened and the daemon reloads   *)
(* and fails: nothing is written there but what says why a command line is *)
(* refused, and that a second interrupt ended the process, and that on     *)
(* stderr.                                                                 *)
Speaks == {k \in seen : args[k].opt \in {"e", "q"}}
QuietAsked == \E k \in Speaks : args[k].opt = "q" /\ \A j \in Speaks : j <= k
PastTheLog == IF parsed \in Refusal \/ pc = "quit" THEN {"err"} ELSE {}
QuietHonoured == QuietAsked => told \cap {"out", "err"} \subseteq PastTheLog

(* Otherwise no message of the level asked for is lost: where the log file *)
(* cannot be opened the terminal gets it.                                  *)
NothingSilent == "noecho" \notin opts.logflags => ~silent

(* A daemon whose serial devices are all gone ends with a code, so that    *)
(* whoever supervises it can tell: it does not wait for the tty it once    *)
(* found, nor hangs before it looks for one.  (Unless the name of a port   *)
(* is attached to its option or stands too far back: then parse_args reads *)
(* the option for ever.)                                                   *)
GoneEnds == ReadsOnce /\ <>[](ttys = {}) => <>(stage = "done" \/ pc \in Ended)
=============================================================================
