------------------------------ MODULE Logging ------------------------------
(***************************************************************************)
(* logging.c: the levels, the flags, and the log file, which is opened for *)
(* the first message and, when that fails, tried again for each one after  *)
(* it.  What a message says, and its date, are left out.                   *)
(***************************************************************************)
EXTENDS Integers

Level == [critical |-> 2, error |-> 3, warning |-> 4, info |-> 5, debug |-> 6]
DefaultLevel == 5

VARIABLES log,     \* logData: the flags, the verbosity, and whether logfp is open
          told,    \* what was written to: "file", "out", "err"
          silent   \* a message that was wanted went nowhere

logging == <<log, told, silent>>

LoggingInit == /\ log = [flags |-> {"echo"}, verbosity |-> DefaultLevel, open |-> FALSE]
               /\ told = {} /\ silent = FALSE

(* log_init.                                                               *)
EchoUnlessQuiet(flags) == IF "noecho" \in flags THEN flags ELSE flags \cup {"echo"}
LogInit(flags, verbosity, path) ==
  [flags |-> IF path = "none" THEN EchoUnlessQuiet(flags) ELSE flags \cup {"file"},
   verbosity |-> IF verbosity = 0 THEN DefaultLevel ELSE verbosity,
   open |-> log.open]

(* log_rotate: without the file the messages are echoed, unless that is    *)
(* turned off.  Mutated forms: they are echoed in any case; they are not.  *)
OnFailureAlways(flags) == flags \cup {"echo"}
OnFailureNever(flags) == flags
OnFailure(flags) == EchoUnlessQuiet(flags)
Rotated(logData, opens) ==
  [flags |-> IF opens THEN logData.flags ELSE OnFailure(logData.flags),
   verbosity |-> logData.verbosity,
   open |-> opens]

(* log_log of one message, with the log data as given.                     *)
Places(logData) == (IF logData.open THEN {"file"} ELSE {})
                     \cup (IF "echo" \notin logData.flags THEN {}
                           ELSE IF "stderr" \in logData.flags THEN {"err"} ELSE {"out"})

Logs(logData, level) ==
  IF level > logData.verbosity THEN log' = logData /\ UNCHANGED <<told, silent>>
  ELSE \E opens \in BOOLEAN :
         /\ log' = IF ~logData.open /\ "file" \in logData.flags
                   THEN Rotated(logData, opens) ELSE logData
         /\ told' = told \cup Places(log')
         /\ silent' = (silent \/ Places(log') = {})

Message(level) == Logs(log, Level[level])
NoMessage == UNCHANGED logging

(* What is written past the log.                                           *)
Printed(place) == told' = told \cup {place} /\ UNCHANGED <<log, silent>>
=============================================================================
