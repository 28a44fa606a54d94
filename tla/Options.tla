------------------------------ MODULE Options ------------------------------
(***************************************************************************)
(* parse_args.  A word of the command line is an option, with or without a *)
(* text attached to it, or plain text.  Letters that are bundled, the word *)
(* --, --help and --version are left out, and -d is -V.                    *)
(***************************************************************************)
EXTENDS Integers, Sequences

CONSTANTS CommandLines,    \* sequences of words
          Numbers,         \* texts that are numbers: a function to their values
          Bauds,           \* the speeds of baudmap
          Locations,       \* texts that are addresses: a function to [host, port]
          MaxSerialSpecs,  \* MAX_SERIAL_SPECS
          AutoPort         \* the patterns of auto_devices

Required == {"p", "s", "b", "l", "L", "c"}
Optional == {"V"}
Switches == {"e", "q", "u", "F", "4", "6", "D"}
Letters  == Required \cup Optional \cup Switches

Plain(text)     == [opt |-> "plain", text |-> text]
Opt(letter)     == [opt |-> letter, text |-> "none"]
With(opt, text) == [opt |-> opt, text |-> text]
IsPlain(word)   == word.opt = "plain"

(* The bits of logflags; AF_INET is the bit of LOG_STDERR, and AF_INET6    *)
(* that and the bit of LOG_UTC.                                            *)
INET  == {"stderr"}
INET6 == {"stderr", "utc"}

Words == [opt : Letters \cup {"plain"}, text : STRING]

ASSUME OptionsAssumption == /\ CommandLines \subseteq Seq(Words)
                            /\ MaxSerialSpecs \in Nat \ {0, 1}
                            /\ \A text \in DOMAIN Numbers : Numbers[text] \in Int

VARIABLES args,    \* argv without the name of the program
          optind,  \* of getopt
          opts,    \* what main keeps of it
          parsed,  \* rc of parse_args, "reading" while it runs
          seen     \* the words that getopt returned as options

parser == <<args, optind, opts, parsed, seen>>

Defaults == [verbose |-> 0, logflags |-> {}, logfile |-> "none", port |-> AutoPort,
             baudrate |-> 115200, iobufsize |-> 2048, host |-> "localhost",
             listen_port |-> 8501, command_time |-> 2000, daemonize |-> FALSE]

ParseInit == /\ args \in CommandLines /\ optind = 1 /\ opts = Defaults
             /\ parsed = "reading" /\ seen = {}

------------------------------------------------------------------------------
(* getopt_long: the first option at or after optind is the next; plain     *)
(* words before it are passed over.                                        *)
IsNext(k) == /\ k \in optind .. Len(args) /\ ~IsPlain(args[k])
             /\ \A i \in optind .. k - 1 : IsPlain(args[i])
NoneLeft == \A i \in optind .. Len(args) : IsPlain(args[i])

Attached(k) == args[k].text /= "none"
TakesNext(k) == args[k].opt \in Required /\ ~Attached(k)
Complete(k) == args[k].opt \in Letters /\ (TakesNext(k) => k < Len(args))

(* optarg, and what optind becomes.  The argument may be an option itself. *)
OptArg(k) == IF ~TakesNext(k) THEN args[k].text
             ELSE IF Complete(k) /\ IsPlain(args[k + 1]) THEN args[k + 1].text ELSE "dash"
AfterOption(k) == IF TakesNext(k) THEN k + 2 ELSE k + 1

(* A turn of the loop of parse_args for the option at k.                   *)
Read(k, letters, new, rc, next) ==
  /\ parsed = "reading" /\ IsNext(k) /\ args[k].opt \in letters /\ Complete(k)
  /\ opts' = new /\ parsed' = rc /\ optind' = next /\ seen' = seen \cup {k}
  /\ UNCHANGED args

ReadOn(k, letters, new) == Read(k, letters, new, "reading", AfterOption(k))
Refuse(k, letters, rc)  == Read(k, letters, opts, rc, AfterOption(k))

(* An argument is missing.                                                 *)
Missing(k) == /\ parsed = "reading" /\ IsNext(k) /\ ~Complete(k)
              /\ parsed' = "startup"
              /\ UNCHANGED <<args, optind, opts, seen>>

------------------------------------------------------------------------------
(* The cases of parse_args.                                                *)

(* -V.  Each one without a level adds to the level, from none, which is    *)
(* the default level, to the lowest.  With an invalid one parse_args       *)
(* returns 2, less than EX_STARTUP.                                        *)
IsNumber(k) == OptArg(k) \in DOMAIN Numbers
Value(k) == Numbers[OptArg(k)]

Verbose(k) ==
  \/ ~Attached(k) /\ ReadOn(k, {"V"}, [opts EXCEPT !.verbose = @ + 1])
  \/ IsNumber(k) /\ ReadOn(k, {"V"}, [opts EXCEPT !.verbose = Value(k) % 8])
  \/ Attached(k) /\ ~IsNumber(k) /\ Refuse(k, {"V"}, "invalid")

Number(k) ==
  \/ IsNumber(k) /\ ReadOn(k, {"c"}, [opts EXCEPT !.command_time = Value(k)])
  \/ IsNumber(k) /\ ReadOn(k, {"b"}, [opts EXCEPT !.iobufsize = Value(k)])
  \/ IsNumber(k) /\ Value(k) \in Bauds /\ ReadOn(k, {"s"}, [opts EXCEPT !.baudrate = Value(k)])
  \/ ~IsNumber(k) /\ Refuse(k, {"c", "b", "s"}, "startup")
  \/ IsNumber(k) /\ Value(k) \notin Bauds /\ Refuse(k, {"s"}, "startup")

(* -l: with no port in it the port becomes 0.                              *)
Location(k) ==
  \/ /\ OptArg(k) \in DOMAIN Locations
     /\ LET at == Locations[OptArg(k)]
        IN ReadOn(k, {"l"}, [opts EXCEPT !.host = IF at.host = "none" THEN @ ELSE at.host,
                                         !.listen_port = at.port])
  \/ OptArg(k) \notin DOMAIN Locations /\ Refuse(k, {"l"}, "startup")

(* -p takes words from the one before optind on, up to an option, the end, *)
(* or the index MAX_SERIAL_SPECS, and leaves in optind the word that       *)
(* stopped it, or the last it took.  When it takes none it is an option    *)
(* for the log file.  With the name attached, or from that index on, it    *)
(* leaves in optind the option itself or the word before it.  Mutated      *)
(* forms: optind becomes the index, which is one past the word; optind     *)
(* goes back to the option.                                                *)
From(k) == AfterOption(k) - 1
Stops(k, j) == /\ j > Len(args) \/ j >= MaxSerialSpecs \/ ~IsPlain(args[j])
               /\ \A i \in From(k) .. j - 1 : i < MaxSerialSpecs /\ IsPlain(args[i])
AtWord(j) == j <= Len(args) /\ j < MaxSerialSpecs
Ports(k, j) == [i \in 1 .. j - From(k) |-> <<args[From(k) + i - 1].text>>]

OptindIndex(k, j)  == IF AtWord(j) THEN j + 1 ELSE j
OptindOption(k, j) == k
Optind(k, j) == IF AtWord(j) THEN j ELSE j - 1

Port(k) ==
  \E j \in {i \in From(k) .. Len(args) + 1 : Stops(k, i)} :
    Read(k, {"p"}, IF Ports(k, j) /= <<>> THEN [opts EXCEPT !.port = Ports(k, j)]
                   ELSE [opts EXCEPT !.logfile = OptArg(k)], "reading", Optind(k, j))

LogFile(k) == ReadOn(k, {"L"}, [opts EXCEPT !.logfile = OptArg(k)])

Daemonize(k) == ReadOn(k, {"D"}, [opts EXCEPT !.daemonize = TRUE])

(* -e goes from off to stdout, to stderr, to off, which is -q; -4 and -6   *)
(* toggle bits of the log flags.                                           *)
Quiet(flags) == (flags \ {"echo", "stderr"}) \cup {"noecho"}
Echo(flags)  == IF "echo" \notin flags THEN (flags \ {"noecho", "stderr"}) \cup {"echo"}
                ELSE IF "stderr" \notin flags THEN flags \cup {"stderr"} ELSE Quiet(flags)
Toggle(flags, bits) == (flags \ bits) \cup (bits \ flags)

LogFlag(k) ==
  \/ ReadOn(k, {"e"}, [opts EXCEPT !.logflags = Echo(@)])
  \/ ReadOn(k, {"q"}, [opts EXCEPT !.logflags = Quiet(@)])
  \/ ReadOn(k, {"u"}, [opts EXCEPT !.logflags = @ \cup {"utc"}])
  \/ ReadOn(k, {"F"}, [opts EXCEPT !.logflags = @ \cup {"sync"}])
  \/ ReadOn(k, {"4"}, [opts EXCEPT !.logflags = Toggle(@, INET)])
  \/ ReadOn(k, {"6"}, [opts EXCEPT !.logflags = Toggle(@, INET6)])

(* No option is left.  A set bit of both families (LOG_STDERR is one) and  *)
(* all their bits are cleared.                                             *)
Settled(flags) == IF flags \cap INET6 /= {} /\ flags \cap INET /= {}
                  THEN flags \ (INET \cup INET6) ELSE flags

ParseEnd == /\ parsed = "reading" /\ NoneLeft
            /\ opts' = [opts EXCEPT !.logflags = Settled(@)]
            /\ parsed' = "success"
            /\ UNCHANGED <<args, optind, seen>>

Option(k) == \/ Missing(k) \/ Verbose(k) \/ Number(k) \/ Location(k) \/ Port(k)
             \/ LogFile(k) \/ Daemonize(k) \/ LogFlag(k)
Parse == ParseEnd \/ \E k \in DOMAIN args : Option(k)

------------------------------------------------------------------------------
(* Correctness.                                                            *)

(* Every option of a command line that is accepted has its effect: it is   *)
(* read, or it is the argument of one that is, although -p moves optind    *)
(* over the words it takes.                                                *)
NothingSkipped ==
  parsed = "success" => \A k \in DOMAIN args :
    IsPlain(args[k]) \/ k \in seen \/ (k - 1 \in seen /\ TakesNext(k - 1))

(* With a port attached to its option, or too far back, -p takes no word.  *)
Rereads(k) == args[k].opt = "p" /\ (Attached(k) \/ k + 1 >= MaxSerialSpecs)
ReadsOnce == \A k \in DOMAIN args : ~Rereads(k)
=============================================================================
