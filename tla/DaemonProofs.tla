---------------------------- MODULE DaemonProofs ----------------------------
(***************************************************************************)
(* Proofs about Daemon, for every command line.                            *)
(***************************************************************************)
EXTENDS Daemon, LifecycleProofs

------------------------------------------------------------------------------
(* What Lifecycle promises holds in the process too: its steps are those   *)
(* of Lifecycle, and the settings change the patterns only.                *)
LEMMA Steps == [DaemonNext]_states => [Next]_vars \/ Settings
<1> SUFFICES ASSUME [DaemonNext]_states PROVE [Next]_vars \/ Settings
  OBVIOUS
<1>1. CASE ParseArgs \/ Refused \/ Start \/ End \/ UNCHANGED states
  BY <1>1 DEF ParseArgs, Refused, Start, End, states
<1>2. CASE Run
  BY <1>2 DEF Run, Silent, Detailed, Critical, Failed, Visits, Events, Next, Main, Initialise, Loop, Switch
<1>3. CASE Outside
  BY <1>3 DEF Outside, Next
<1> QED BY <1>1, <1>2, <1>3 DEF DaemonNext, DaemonStep

Within == StackMatches /\ ListenInv

(* The invariants of Lifecycle hold over a step of the process.            *)
LEMMA WithinStep == ASSUME Within, [DaemonNext]_states PROVE Within'
<1>1. CASE [Next]_vars
  BY <1>1, StackStep, ListenStep DEF Within
<1>2. CASE Settings
  <2>1. UNCHANGED <<pc, stack, disp, listeners, found>>
    BY <1>2 DEF Settings, signals, devices
  <2> QED BY <2>1, ListenKept DEF Within, StackMatches, Bare, Half, Full
<1> QED BY <1>1, <1>2, Steps

(* They hold when it starts.                                               *)
LEMMA WithinInit == DaemonInit => Within
BY StackInit, ListenInit DEF DaemonInit, Within

(* In the process, whatever its command line, the signals are handled in   *)
(* the loop and the handlers put back at the end.                          *)
THEOREM DaemonHandlers == DaemonSpec => []HandlersInPlace
<1>1. Within => HandlersInPlace
  BY StackSuffices DEF Within
<1> QED BY WithinInit, WithinStep, <1>1, PTL DEF DaemonSpec

(* In the process, whatever its command line, the loop has a listener for  *)
(* every family that was resolved, and no two that overlap but the last.   *)
THEOREM DaemonListens == DaemonSpec => []ListensOnce
<1>1. Within => ListensOnce
  BY ListenSuffices DEF Within
<1> QED BY WithinInit, WithinStep, <1>1, PTL DEF DaemonSpec
------------------------------------------------------------------------------
(* The parser: the options before optind are read or are arguments, and    *)
(* the flags are those of the last -e or -q that was read.                 *)
Hushed(flags) == "noecho" \in flags /\ "echo" \notin flags

Done(k) == IsPlain(args[k]) \/ k \in seen \/ (k - 1 \in seen /\ TakesNext(k - 1))

ParserInv ==
  /\ args \in Seq(Words) /\ optind \in Nat \ {0} /\ seen \subseteq DOMAIN args
  /\ "logflags" \in DOMAIN opts
  /\ \A k \in DOMAIN args : k < optind => Done(k)
  /\ \A k \in Speaks : k <= optind
  /\ QuietAsked => Hushed(opts.logflags)
  /\ NothingSkipped

(* The parser at the first word.                                           *)
LEMMA ParserInit == ParseInit => ParserInv
<1> SUFFICES ASSUME ParseInit PROVE ParserInv
  OBVIOUS
<1>1. args \in Seq(Words) /\ optind = 1 /\ seen = {} /\ opts = Defaults /\ parsed = "reading"
  BY OptionsAssumption DEF ParseInit
<1>2. Speaks = {}
  BY <1>1 DEF Speaks
<1>3. \A k \in DOMAIN args : ~(k < 1)
  BY <1>1
<1>4. "logflags" \in DOMAIN opts
  BY <1>1 DEF Defaults
<1> QED BY <1>1, <1>2, <1>3, <1>4 DEF ParserInv, QuietAsked, NothingSkipped

(* A turn of the loop, for what it does to the flags and to optind.        *)
LEMMA Turn ==
  ASSUME ParserInv, NEW k \in DOMAIN args, IsNext(k), Complete(k),
         args' = args, seen' = seen \cup {k}, parsed' /= "success",
         optind' \in Nat \ {0}, optind' >= k - 1, "logflags" \in DOMAIN opts',
         args[k].opt \in {"e", "q"} => optind' >= k,
         \A j \in DOMAIN args : k < j /\ j < optind'
           => IsPlain(args[j]) \/ (j = k + 1 /\ TakesNext(k)),
         \/ args[k].opt = "e"
         \/ args[k].opt = "q" /\ Hushed(opts'.logflags)
         \/ /\ args[k].opt \notin {"e", "q"}
            /\ Hushed(opts.logflags) => Hushed(opts'.logflags)
  PROVE  ParserInv'
<1>1. args \in Seq(Words) /\ optind \in Nat \ {0} /\ k \in Nat /\ optind <= k
  BY DEF ParserInv, IsNext
<1>2. ASSUME NEW j \in DOMAIN args, j < optind' PROVE Done(j)'
  <2>1. j \in Nat
    BY <1>1
  <2>2. CASE j < optind
    BY <2>2 DEF ParserInv, Done, IsPlain, TakesNext, Attached
  <2>3. CASE optind <= j /\ j < k
    BY <1>1, <2>1, <2>3 DEF IsNext, Done, IsPlain
  <2>4. CASE j = k
    BY <2>4 DEF Done
  <2>5. CASE k < j
    BY <1>1, <1>2, <2>1, <2>5 DEF Done, IsPlain, TakesNext, Attached
  <2> QED BY <1>1, <2>1, <2>2, <2>3, <2>4, <2>5
<1>3. \A j \in Speaks' : j <= k /\ j <= optind'
  BY <1>1 DEF ParserInv, Speaks
<1>4. QuietAsked' => Hushed(opts'.logflags)
  <2>1. CASE args[k].opt = "e"
    BY <1>1, <1>3, <2>1 DEF QuietAsked, Speaks, ParserInv
  <2>2. CASE args[k].opt \notin {"e", "q"}
    <3>1. Speaks' = Speaks
      BY <2>2 DEF Speaks
    <3>2. QuietAsked' = QuietAsked
      BY <3>1 DEF QuietAsked
    <3> QED BY <2>2, <3>2 DEF ParserInv
  <2> QED BY <2>1, <2>2
<1>5. NothingSkipped' /\ seen' \subseteq DOMAIN args' /\ optind' \in Nat \ {0}
  BY <1>1 DEF NothingSkipped, ParserInv
<1> QED BY <1>1, <1>2, <1>3, <1>4, <1>5 DEF ParserInv

(* A turn that goes on with the next option or ends the parser.            *)
LEMMA ReadStep ==
  ASSUME ParserInv, NEW k \in DOMAIN args, NEW letters, NEW new, NEW rcode, rcode /= "success",
         Read(k, letters, new, rcode, AfterOption(k)), "logflags" \in DOMAIN new,
         \/ letters = {"e"}
         \/ letters = {"q"} /\ Hushed(new.logflags)
         \/ letters \cap {"e", "q"} = {} /\ (Hushed(opts.logflags) => Hushed(new.logflags))
  PROVE  ParserInv'
<1>1. /\ IsNext(k) /\ Complete(k) /\ args[k].opt \in letters
      /\ opts' = new /\ parsed' = rcode /\ optind' = AfterOption(k)
      /\ seen' = seen \cup {k} /\ args' = args
  BY DEF Read
<1>2. /\ k \in Nat /\ AfterOption(k) \in Nat /\ AfterOption(k) > k
      /\ \A j \in DOMAIN args : k < j /\ j < AfterOption(k) => j = k + 1 /\ TakesNext(k)
  BY DEF ParserInv, AfterOption
<1> QED BY <1>1, <1>2, Turn

(* The changes of the options that are not -e or -q.                       *)
LEMMA Unhushed ==
  ASSUME NEW o, "logflags" \in DOMAIN o
  PROVE  \A v : /\ [o EXCEPT !.verbose = v].logflags = o.logflags
               /\ [o EXCEPT !.command_time = v].logflags = o.logflags
               /\ [o EXCEPT !.iobufsize = v].logflags = o.logflags
               /\ [o EXCEPT !.baudrate = v].logflags = o.logflags
               /\ [o EXCEPT !.port = v].logflags = o.logflags
               /\ [o EXCEPT !.logfile = v].logflags = o.logflags
               /\ [o EXCEPT !.daemonize = v].logflags = o.logflags
               /\ [o EXCEPT !.logflags = v].logflags = v
OBVIOUS

(* -p, which moves optind over the words it takes, passes over no option.  *)
LEMMA PortStep == ASSUME ParserInv, NEW k \in DOMAIN args, Port(k) PROVE ParserInv'
<1>1. PICK j \in From(k) .. Len(args) + 1 :
        /\ Stops(k, j)
        /\ Read(k, {"p"}, IF Ports(k, j) /= <<>> THEN [opts EXCEPT !.port = Ports(k, j)]
                          ELSE [opts EXCEPT !.logfile = OptArg(k)], "reading", Optind(k, j))
  BY DEF Port
<1>2. /\ IsNext(k) /\ Complete(k) /\ args[k].opt = "p"
      /\ parsed' = "reading" /\ optind' = Optind(k, j) /\ seen' = seen \cup {k} /\ args' = args
      /\ "logflags" \in DOMAIN opts' /\ opts'.logflags = opts.logflags
  BY <1>1, Unhushed DEF Read, ParserInv
<1>3. k \in Nat /\ Len(args) \in Nat /\ From(k) \in {k, k + 1} /\ (From(k) = k + 1 => TakesNext(k))
  BY DEF ParserInv, From, AfterOption
<1>4. j \in Nat /\ j >= From(k) /\ \A i \in From(k) .. j - 1 : IsPlain(args[i])
  BY <1>1, <1>3 DEF Stops
<1>5. ~IsPlain(args[k])
  BY <1>2 DEF IsNext
<1>6. Optind(k, j) \in Nat \ {0} /\ Optind(k, j) >= k - 1 /\ Optind(k, j) <= j
  BY <1>3, <1>4, <1>5, OptionsAssumption DEF Optind, AtWord
<1>7. ASSUME NEW i \in DOMAIN args, k < i, i < Optind(k, j)
      PROVE  IsPlain(args[i]) \/ (i = k + 1 /\ TakesNext(k))
  <2>1. i \in Nat
    BY <1>3 DEF ParserInv
  <2>2. i \in From(k) .. j - 1
    BY <1>3, <1>4, <1>6, <1>7, <2>1
  <2> QED BY <1>4, <2>2
<1> QED BY <1>2, <1>6, <1>7, Turn

(* A turn of the loop of parse_args.                                       *)
LEMMA ParseStep == ASSUME ParserInv, Parse PROVE ParserInv'
<1>1. "logflags" \in DOMAIN opts
  BY DEF ParserInv
<1>2. CASE ParseEnd
  <2>1. /\ opts' = [opts EXCEPT !.logflags = Settled(opts.logflags)] /\ parsed' = "success"
        /\ NoneLeft /\ UNCHANGED <<args, optind, seen>>
    BY <1>2 DEF ParseEnd
  <2>2. opts'.logflags = Settled(opts.logflags) /\ "logflags" \in DOMAIN opts'
    BY <1>1, <2>1, Unhushed
  <2>3. Hushed(opts.logflags) => Hushed(opts'.logflags)
    BY <2>2 DEF Settled, Hushed, INET, INET6
  <2>4. NothingSkipped'
    BY <2>1 DEF NoneLeft, ParserInv, Done, NothingSkipped, IsPlain, TakesNext, Attached
  <2> QED BY <2>1, <2>2, <2>3, <2>4
          DEF ParserInv, Done, Speaks, QuietAsked, IsPlain, TakesNext, Attached
<1>3. ASSUME NEW k \in DOMAIN args, Missing(k) PROVE ParserInv'
  BY <1>3 DEF Missing, ParserInv, Done, Speaks, QuietAsked, NothingSkipped, IsPlain, TakesNext,
     Attached
<1>4. ASSUME NEW k \in DOMAIN args, Verbose(k) PROVE ParserInv'
  <2>1. CASE ReadOn(k, {"V"}, [opts EXCEPT !.verbose = @ + 1])
    BY <1>1, <2>1, ReadStep, Unhushed DEF ReadOn
  <2>2. CASE ReadOn(k, {"V"}, [opts EXCEPT !.verbose = Value(k) % 8])
    BY <1>1, <2>2, ReadStep, Unhushed DEF ReadOn
  <2>3. CASE Refuse(k, {"V"}, "invalid")
    BY <1>1, <2>3, ReadStep DEF Refuse
  <2> QED BY <1>4, <2>1, <2>2, <2>3 DEF Verbose
<1>5. ASSUME NEW k \in DOMAIN args, Number(k) PROVE ParserInv'
  <2>1. CASE ReadOn(k, {"c"}, [opts EXCEPT !.command_time = Value(k)])
    BY <1>1, <2>1, ReadStep, Unhushed DEF ReadOn
  <2>2. CASE ReadOn(k, {"b"}, [opts EXCEPT !.iobufsize = Value(k)])
    BY <1>1, <2>2, ReadStep, Unhushed DEF ReadOn
  <2>3. CASE ReadOn(k, {"s"}, [opts EXCEPT !.baudrate = Value(k)])
    BY <1>1, <2>3, ReadStep, Unhushed DEF ReadOn
  <2>4. CASE Refuse(k, {"c", "b", "s"}, "startup")
    BY <1>1, <2>4, ReadStep DEF Refuse
  <2>5. CASE Refuse(k, {"s"}, "startup")
    BY <1>1, <2>5, ReadStep DEF Refuse
  <2> QED BY <1>5, <2>1, <2>2, <2>3, <2>4, <2>5 DEF Number
<1>6. ASSUME NEW k \in DOMAIN args, Location(k) PROVE ParserInv'
  <2>1. CASE Refuse(k, {"l"}, "startup")
    BY <1>1, <2>1, ReadStep DEF Refuse
  <2>2. CASE ~Refuse(k, {"l"}, "startup")
    <3> DEFINE at == Locations[OptArg(k)]
               host == IF at.host = "none" THEN opts.host ELSE at.host
    <3>1. ReadOn(k, {"l"}, [opts EXCEPT !.host = host, !.listen_port = at.port])
      BY <1>6, <2>2 DEF Location
    <3> HIDE DEF at, host
    <3> DEFINE new == [opts EXCEPT !.host = host, !.listen_port = at.port]
    <3>2. new.logflags = opts.logflags /\ "logflags" \in DOMAIN new
      BY <1>1
    <3>3. Read(k, {"l"}, new, "reading", AfterOption(k))
      BY <3>1 DEF ReadOn
    <3> HIDE DEF new
    <3> QED BY <3>2, <3>3, ReadStep
  <2> QED BY <2>1, <2>2
<1>7. ASSUME NEW k \in DOMAIN args, LogFile(k) \/ Daemonize(k) PROVE ParserInv'
  <2>1. CASE LogFile(k)
    BY <1>1, <2>1, ReadStep, Unhushed DEF LogFile, ReadOn
  <2>2. CASE Daemonize(k)
    BY <1>1, <2>2, ReadStep, Unhushed DEF Daemonize, ReadOn
  <2> QED BY <1>7, <2>1, <2>2
<1>8. ASSUME NEW k \in DOMAIN args, LogFlag(k) PROVE ParserInv'
  <2> DEFINE flags == opts.logflags
  <2>1. ASSUME NEW letters, NEW new, ReadOn(k, letters, [opts EXCEPT !.logflags = new]),
               \/ letters = {"e"}
               \/ letters = {"q"} /\ Hushed(new)
               \/ letters \cap {"e", "q"} = {} /\ (Hushed(flags) => Hushed(new))
        PROVE  ParserInv'
    BY <1>1, <2>1, ReadStep, Unhushed DEF ReadOn
  <2>2. Hushed(Quiet(flags))
    BY DEF Hushed, Quiet
  <2>3. Hushed(flags) => /\ Hushed(flags \cup {"utc"}) /\ Hushed(flags \cup {"sync"})
                         /\ Hushed(Toggle(flags, INET)) /\ Hushed(Toggle(flags, INET6))
    BY DEF Hushed, Toggle, INET, INET6
  <2>4. CASE ReadOn(k, {"e"}, [opts EXCEPT !.logflags = Echo(flags)])
    BY <2>1, <2>4
  <2>5. CASE ReadOn(k, {"q"}, [opts EXCEPT !.logflags = Quiet(flags)])
    BY <2>1, <2>2, <2>5
  <2>6. CASE ReadOn(k, {"u"}, [opts EXCEPT !.logflags = flags \cup {"utc"}])
    BY <2>1, <2>3, <2>6
  <2>7. CASE ReadOn(k, {"F"}, [opts EXCEPT !.logflags = flags \cup {"sync"}])
    BY <2>1, <2>3, <2>7
  <2>8. CASE ReadOn(k, {"4"}, [opts EXCEPT !.logflags = Toggle(flags, INET)])
    BY <2>1, <2>3, <2>8
  <2>9. CASE ReadOn(k, {"6"}, [opts EXCEPT !.logflags = Toggle(flags, INET6)])
    BY <2>1, <2>3, <2>9
  <2> QED BY <1>8, <2>4, <2>5, <2>6, <2>7, <2>8, <2>9 DEF LogFlag
<1> QED BY <1>2, <1>3, <1>4, <1>5, <1>6, <1>7, <1>8, PortStep DEF Parse, Option

(* After parse_args nothing touches the options.                           *)
LEMMA ParserOthers == ASSUME ParserInv, [DaemonNext]_states, ~ParseArgs PROVE ParserInv'
<1>1. UNCHANGED parser
  BY DEF DaemonNext, DaemonStep, Refused, Start, Settings, Run, End, Outside, states
<1> QED BY <1>1 DEF parser, ParserInv, Done, Speaks, QuietAsked, NothingSkipped, IsPlain,
            TakesNext, Attached

(* No option of a command line that is accepted is without effect, however *)
(* -p moves over the words it takes.                                       *)
THEOREM OptionsRead == DaemonSpec => []NothingSkipped
<1>1. DaemonInit => ParserInv
  BY ParserInit DEF DaemonInit
<1>2. ParserInv /\ [DaemonNext]_states => ParserInv'
  BY ParseStep, ParserOthers DEF ParseArgs
<1>3. ParserInv => NothingSkipped
  BY DEF ParserInv
<1> QED BY <1>1, <1>2, <1>3, PTL DEF DaemonSpec
------------------------------------------------------------------------------
(* The log.                                                                *)
Speaking(flags) == "noecho" \notin flags /\ ("echo" \in flags \/ "file" \in flags)

(* A message that is logged quietly says nothing on the terminal.          *)
LEMMA Hushing ==
  ASSUME NEW data, NEW level, Logs(data, level), Hushed(data.flags)
  PROVE  Hushed(log'.flags) /\ told' \cap {"out", "err"} \subseteq told
<1>1. CASE log' = data /\ UNCHANGED <<told, silent>>
  BY <1>1
<1>2. CASE told' = told \cup Places(log')
  <2>1. Hushed(log'.flags)
    <3>1. ASSUME NEW opens PROVE Hushed(Rotated(data, opens).flags)
      BY DEF Rotated, OnFailure, EchoUnlessQuiet, Hushed
    <3> QED BY <3>1 DEF Logs
  <2> QED BY <1>2, <2>1 DEF Places, Hushed
<1> QED BY <1>1, <1>2 DEF Logs

(* A message that is not goes to the file or to the terminal.              *)
LEMMA Telling ==
  ASSUME NEW data, NEW level, Logs(data, level), Speaking(data.flags)
  PROVE  Speaking(log'.flags) /\ (silent' => silent)
<1>1. CASE log' = data /\ UNCHANGED <<told, silent>>
  BY <1>1
<1>2. CASE \E opens \in BOOLEAN :
             /\ log' = IF ~data.open /\ "file" \in data.flags THEN Rotated(data, opens) ELSE data
             /\ silent' = (silent \/ Places(log') = {})
  <2>1. PICK opens \in BOOLEAN :
          /\ log' = IF ~data.open /\ "file" \in data.flags THEN Rotated(data, opens) ELSE data
          /\ silent' = (silent \/ Places(log') = {})
    BY <1>2
  <2>2. CASE ~data.open /\ "file" \in data.flags
    <3>1. log' = Rotated(data, opens)
      BY <2>1, <2>2
    <3>2. Speaking(log'.flags) /\ (log'.open \/ "echo" \in log'.flags)
      BY <2>2, <3>1 DEF Rotated, OnFailure, EchoUnlessQuiet, Speaking
    <3>3. Places(log') /= {}
      BY <3>2 DEF Places
    <3> QED BY <2>1, <3>2, <3>3
  <2>3. CASE ~(~data.open /\ "file" \in data.flags)
    <3>1. Places(log') /= {} /\ log' = data
      BY <2>1, <2>3 DEF Places, Speaking
    <3> QED BY <2>1, <3>1
  <2> QED BY <2>2, <2>3
<1> QED BY <1>1, <1>2 DEF Logs

Logged == stage \in {"settings", "run", "done"} /\ parsed = "success"

LogInv ==
  /\ stage \in {"settings", "run"} => parsed = "success"
  /\ ~Logged => told \subseteq PastTheLog /\ ~silent
  /\ Logged /\ Hushed(opts.logflags)
       => Hushed(log.flags) /\ told \cap {"out", "err"} \subseteq PastTheLog
  /\ Logged /\ "noecho" \notin opts.logflags => Speaking(log.flags) /\ ~silent

(* A process that a second interrupt ended has no main program any more.   *)
LEMMA QuitEnds == [Next]_vars /\ pc = "quit" => pc' = "quit"
BY DEF Next, Main, Initialise, Loop, Switch, Install, FindSerial, NoSerial, Resolve, ResolveFails,
   NextAddress, LastAddress, Pass, VisitSerial, VisitListener, Visit, Idle, Busy, TakesPlace,
   Closes, Reload, Interrupted, Process, Pop, World, Release, TtyGoes, TtyComes, Deliver, Ended,
   vars

(* What was written past the log may stay there.                           *)
LEMMA PastKept == [DaemonNext]_states => PastTheLog \subseteq PastTheLog'
<1> SUFFICES ASSUME [DaemonNext]_states PROVE PastTheLog \subseteq PastTheLog'
  OBVIOUS
<1>1. pc = "quit" => pc' = "quit"
  BY Steps, QuitEnds DEF Settings
<1>2. parsed \in Refusal => parsed' \in Refusal
  <2>1. CASE ParseArgs
    <3>1. parsed = "reading"
      BY <2>1 DEF ParseArgs, Parse, ParseEnd, Option, Missing, Verbose, Number, Location, Port,
         LogFile, Daemonize, LogFlag, ReadOn, Refuse, Read
    <3> QED BY <3>1 DEF Refusal
  <2>2. CASE UNCHANGED parser
    BY <2>2 DEF parser
  <2> QED BY <2>1, <2>2 DEF DaemonNext, DaemonStep, Refused, Start, Settings, Run, End, Outside,
          states
<1> QED BY <1>1, <1>2 DEF PastTheLog

(* A line that is written past the log, when there is a reason for it.     *)
LEMMA PrintedOK ==
  ASSUME LogInv, [DaemonNext]_states, Printed("err"), "err" \in PastTheLog',
         opts' = opts \/ ~Logged, Logged' <=> Logged,
         stage' \in {"settings", "run"} => parsed' = "success"
  PROVE  LogInv'
<1>1. PastTheLog \subseteq PastTheLog'
  BY PastKept
<1>2. told' = told \cup {"err"} /\ UNCHANGED <<log, silent>>
  BY DEF Printed
<1> HIDE DEF PastTheLog, Logged
<1> QED BY <1>1, <1>2 DEF LogInv

(* A step of the process keeps the flags of the log those of the options.  *)
LEMMA LogStep == ASSUME LogInv, [DaemonNext]_states PROVE LogInv'
<1>0. PastTheLog \subseteq PastTheLog'
  BY PastKept
<1>1. CASE ParseArgs
  <2>1. stage = "parse" /\ stage' = "parse"
    BY <1>1 DEF ParseArgs, main
  <2>2. ~Logged /\ ~Logged'
    BY <2>1 DEF Logged
  <2>3. CASE parsed' \in Refusal
    <3>1. Printed("err") /\ "err" \in PastTheLog'
      BY <1>1, <2>3 DEF ParseArgs, PastTheLog
    <3> QED BY <2>1, <2>2, <3>1, PrintedOK
  <2>4. CASE NoMessage
    <3>1. UNCHANGED <<told, silent>>
      BY <2>4 DEF NoMessage, logging
    <3> QED BY <1>0, <2>1, <2>2, <3>1 DEF LogInv
  <2> QED BY <1>1, <2>3, <2>4 DEF ParseArgs
<1>2. CASE Refused
  <2>1. stage' = "done" /\ parsed' = parsed /\ parsed \in Refusal /\ UNCHANGED logging
    BY <1>2 DEF Refused, parser
  <2>2. ~Logged /\ ~Logged'
    BY <2>1 DEF Logged, Refusal
  <2> QED BY <1>0, <2>1, <2>2 DEF LogInv, logging
<1>3. CASE Start
  <2> DEFINE data == LogInit(opts.logflags, opts.verbose, opts.logfile)
  <2>1. /\ Logs(data, Level["critical"]) /\ ~Logged /\ Logged' /\ parsed' = "success"
        /\ opts' = opts
    BY <1>3 DEF Start, Logged, parser
  <2>2. /\ Hushed(opts.logflags) => Hushed(data.flags)
        /\ "noecho" \notin opts.logflags => Speaking(data.flags)
    BY DEF LogInit, EchoUnlessQuiet, Hushed, Speaking
  <2> HIDE DEF data
  <2>3. Hushed(opts.logflags) => Hushed(log'.flags) /\ told' \cap {"out", "err"} \subseteq told
    BY <2>1, <2>2, Hushing
  <2>4. "noecho" \notin opts.logflags => Speaking(log'.flags) /\ (silent' => silent)
    BY <2>1, <2>2, Telling
  <2>5. stage' \in {"settings", "run"} => parsed' = "success"
    BY <2>1
  <2> HIDE DEF PastTheLog, Logged
  <2>6. told \cap {"out", "err"} \subseteq PastTheLog' /\ ~silent
    BY <1>0, <2>1 DEF LogInv
  <2> QED BY <2>1, <2>3, <2>4, <2>5, <2>6 DEF LogInv
<1>4. ASSUME UNCHANGED parser, Logged, Logged', (\E level : Message(level)) \/ NoMessage
      PROVE  LogInv'
  <2>1. opts' = opts /\ parsed' = "success"
    BY <1>4 DEF parser, Logged
  <2>2. CASE NoMessage
    BY <1>0, <1>4, <2>1, <2>2 DEF NoMessage, logging, LogInv
  <2>3. ASSUME NEW level, Message(level) PROVE LogInv'
    <3>1. Hushed(opts.logflags) => Hushed(log'.flags) /\ told' \cap {"out", "err"} \subseteq told
      BY <1>4, <2>3, Hushing DEF Message, LogInv
    <3>2. "noecho" \notin opts.logflags => Speaking(log'.flags) /\ (silent' => silent)
      BY <1>4, <2>3, Telling DEF Message, LogInv
    <3> QED BY <1>0, <1>4, <2>1, <3>1, <3>2 DEF LogInv
  <2> QED BY <1>4, <2>2, <2>3
<1>5. CASE Settings \/ Run \/ End
  <2>1. UNCHANGED parser /\ stage \in {"settings", "run"} /\ stage' \in {"run", "done"}
    BY <1>5 DEF Settings, Run, End, main
  <2>2. Logged /\ Logged'
    BY <2>1 DEF parser, LogInv, Logged
  <2>3. (\E level : Message(level)) \/ NoMessage
    BY <1>5 DEF Settings, Run, End
  <2> QED BY <1>4, <2>1, <2>2, <2>3
<1>6. CASE (Outside /\ NoMessage) \/ UNCHANGED states
  <2>1. UNCHANGED <<parser, logging, main>>
    BY <1>6 DEF Outside, NoMessage, states
  <2>2. UNCHANGED <<opts, parsed, stage, log, told, silent>> /\ (Logged' <=> Logged)
    BY <2>1 DEF parser, logging, main, Logged
  <2> HIDE DEF Logged, PastTheLog
  <2> QED BY <1>0, <2>2 DEF LogInv
<1>7. CASE Outside /\ ~NoMessage
  <2>1. Printed("err") /\ pc' = "quit" /\ UNCHANGED <<parser, main>>
    BY <1>7 DEF Outside
  <2>2. UNCHANGED <<opts, parsed, stage>> /\ (Logged' <=> Logged)
    BY <2>1 DEF parser, main, Logged
  <2>3. "err" \in PastTheLog'
    BY <2>1 DEF PastTheLog
  <2>4. stage' \in {"settings", "run"} => parsed' = "success"
    BY <2>2 DEF LogInv
  <2> QED BY <2>1, <2>2, <2>3, <2>4, PrintedOK
<1> QED BY <1>1, <1>2, <1>3, <1>5, <1>6, <1>7 DEF DaemonNext, DaemonStep

(* At the start nothing was said.                                          *)
LEMMA LogStart == DaemonInit => LogInv
BY DEF DaemonInit, LoggingInit, LogInv, Logged

(* With -q the last on the matter, no log message ever reaches the         *)
(* terminal: the flags of the parser and those of the log agree.  What is  *)
(* written past the log is on stderr, by a process that refuses its        *)
(* command line or that a second interrupt ended.                          *)
THEOREM QuietCorrect == DaemonSpec => []QuietHonoured
<1>1. DaemonInit => ParserInv
  BY ParserInit DEF DaemonInit
<1>2. ParserInv /\ [DaemonNext]_states => ParserInv'
  BY ParseStep, ParserOthers DEF ParseArgs
<1>3. ParserInv /\ LogInv => QuietHonoured
  BY DEF ParserInv, LogInv, QuietHonoured
<1> QED BY <1>1, <1>2, <1>3, LogStart, LogStep, PTL DEF DaemonSpec

(* Where the log was not turned off, every message that is wanted goes     *)
(* somewhere, whenever the log file can or cannot be opened.               *)
THEOREM NothingLost == DaemonSpec => []NothingSilent
<1>1. LogInv => NothingSilent
  BY DEF LogInv, NothingSilent
<1> QED BY <1>1, LogStart, LogStep, PTL DEF DaemonSpec
------------------------------------------------------------------------------
(* Types.                                                                  *)

(* What is kept of the options that Lifecycle and Logging rest on.         *)
Fine(o) == /\ {"verbose", "port"} \subseteq DOMAIN o
           /\ o.verbose \in Nat /\ o.port \in Specs

ParserOK == /\ optind \in 1 .. Len(args) + 1 /\ Fine(opts) /\ args \in CommandLines
            /\ parsed \in {"reading", "success", "startup", "invalid"}
            /\ seen \subseteq DOMAIN args

(* The defaults, before the first option.                                  *)
LEMMA FineStart == ParseInit => ParserOK
<1> SUFFICES ASSUME ParseInit PROVE ParserOK
  OBVIOUS
<1>1. args \in CommandLines /\ optind = 1 /\ opts = Defaults /\ parsed = "reading" /\ seen = {}
  BY DEF ParseInit
<1>2. Len(args) \in Nat
  BY <1>1, OptionsAssumption
<1>3. Fine(opts)
  BY <1>1, DaemonAssumption DEF Fine, Defaults
<1> QED BY <1>1, <1>2, <1>3 DEF ParserOK

(* The options that are not -V or -p.                                      *)
LEMMA FineKept ==
  ASSUME NEW o, Fine(o)
  PROVE  \A v : /\ Fine([o EXCEPT !.command_time = v]) /\ Fine([o EXCEPT !.iobufsize = v])
               /\ Fine([o EXCEPT !.baudrate = v]) /\ Fine([o EXCEPT !.logfile = v])
               /\ Fine([o EXCEPT !.daemonize = v]) /\ Fine([o EXCEPT !.logflags = v])
               /\ (v \in Nat => Fine([o EXCEPT !.verbose = v]))
               /\ (v \in Specs => Fine([o EXCEPT !.port = v]))
BY DEF Fine

(* A turn of the loop.                                                     *)
LEMMA FineTurn ==
  ASSUME ParserOK, NEW k \in DOMAIN args, NEW letters, NEW new, NEW rcode, NEW next,
         Read(k, letters, new, rcode, next), Fine(new),
         rcode \in {"reading", "startup", "invalid"}, next \in 1 .. Len(args) + 1
  PROVE  ParserOK'
BY DEF Read, ParserOK

(* A turn that leaves optind after the option and its argument: an option  *)
(* that lacks one is refused before.                                       *)
LEMMA FineRead ==
  ASSUME ParserOK, NEW k \in DOMAIN args, NEW letters, NEW new, NEW rcode,
         Read(k, letters, new, rcode, AfterOption(k)), Fine(new),
         rcode \in {"reading", "startup", "invalid"}
  PROVE  ParserOK'
<1>1. Complete(k)
  BY DEF Read
<1>2. args \in Seq(Words) /\ k \in 1 .. Len(args) /\ Len(args) \in Nat
  BY OptionsAssumption DEF ParserOK
<1>3. AfterOption(k) \in 1 .. Len(args) + 1
  BY <1>1, <1>2 DEF AfterOption, Complete
<1> QED BY <1>3, FineTurn

(* -p: the ports it takes are a run of words, and it goes no further than  *)
(* the word after the last.                                                *)
LEMMA PortFine == ASSUME ParserOK, NEW k \in DOMAIN args, Port(k) PROVE ParserOK'
<1>1. PICK j \in From(k) .. Len(args) + 1 :
        /\ Stops(k, j)
        /\ Read(k, {"p"}, IF Ports(k, j) /= <<>> THEN [opts EXCEPT !.port = Ports(k, j)]
                          ELSE [opts EXCEPT !.logfile = OptArg(k)], "reading", Optind(k, j))
  BY DEF Port
<1>2. args \in Seq(Words) /\ k \in 1 .. Len(args) /\ Len(args) \in Nat /\ args \in CommandLines
  BY OptionsAssumption DEF ParserOK
<1>3. IsNext(k) /\ Complete(k) /\ args[k].opt = "p"
  BY <1>1 DEF Read
<1>4. From(k) \in {k, k + 1} /\ (From(k) = k + 1 => TakesNext(k))
  BY <1>2 DEF From, AfterOption
<1>5. j \in Nat /\ j >= From(k) /\ j <= Len(args) + 1 /\ \A i \in From(k) .. j - 1 : IsPlain(args[i])
  BY <1>1, <1>2, <1>4 DEF Stops
<1>6. ~IsPlain(args[k])
  BY <1>3 DEF IsNext
<1>7. Optind(k, j) \in 1 .. Len(args) + 1
  BY <1>2, <1>4, <1>5, <1>6, OptionsAssumption DEF Optind, AtWord
<1>8. CASE Ports(k, j) = <<>>
  BY <1>1, <1>7, <1>8, FineTurn, FineKept DEF ParserOK
<1>9. CASE Ports(k, j) /= <<>>
  <2>1. j > From(k) /\ j - 1 \in DOMAIN args
    BY <1>2, <1>4, <1>5, <1>9 DEF Ports
  <2>2. From(k) = k + 1 /\ args[k].text = "none"
    BY <1>2, <1>4, <1>5, <1>6, <2>1 DEF TakesNext, Attached
  <2>3. Follow(args, k, j - 1)
    BY <1>2, <1>3, <1>5, <2>1, <2>2 DEF Follow
  <2>4. [i \in 1 .. (j - 1) - k |-> <<args[k + i].text>>] \in Specs
    BY <1>2, <2>1, <2>3, DaemonAssumption
  <2>5. Ports(k, j) = [i \in 1 .. (j - 1) - k |-> <<args[k + i].text>>]
    <3>1. j - From(k) = (j - 1) - k
      BY <1>2, <1>5, <2>2
    <3>2. \A i \in 1 .. (j - 1) - k : From(k) + i - 1 = k + i
      BY <1>2, <1>5, <2>2
    <3> QED BY <3>1, <3>2 DEF Ports
  <2>6. Fine([opts EXCEPT !.port = Ports(k, j)])
    BY <2>4, <2>5, FineKept DEF ParserOK
  <2> QED BY <1>1, <1>7, <1>9, <2>6, FineTurn
<1> QED BY <1>8, <1>9

(* A turn of the loop of parse_args, whatever the option.                  *)
LEMMA ParserTypes == ASSUME ParserOK, Parse PROVE ParserOK'
<1>1. Fine(opts)
  BY DEF ParserOK
<1>2. CASE ParseEnd
  BY <1>1, <1>2, FineKept DEF ParseEnd, ParserOK
<1>3. ASSUME NEW k \in DOMAIN args, Missing(k) PROVE ParserOK'
  BY <1>3 DEF Missing, ParserOK
<1>4. ASSUME NEW k \in DOMAIN args, Verbose(k) PROVE ParserOK'
  <2>1. CASE ReadOn(k, {"V"}, [opts EXCEPT !.verbose = @ + 1])
    <3>1. opts.verbose + 1 \in Nat
      BY <1>1 DEF Fine
    <3> QED BY <1>1, <2>1, <3>1, FineRead, FineKept DEF ReadOn
  <2>2. CASE IsNumber(k) /\ ReadOn(k, {"V"}, [opts EXCEPT !.verbose = Value(k) % 8])
    <3>1. Value(k) % 8 \in Nat
      BY <2>2, OptionsAssumption DEF IsNumber, Value
    <3> QED BY <1>1, <2>2, <3>1, FineRead, FineKept DEF ReadOn
  <2>3. CASE Refuse(k, {"V"}, "invalid")
    BY <1>1, <2>3, FineRead DEF Refuse
  <2> QED BY <1>4, <2>1, <2>2, <2>3 DEF Verbose
<1>5. ASSUME NEW k \in DOMAIN args, Number(k) PROVE ParserOK'
  <2>1. CASE \/ ReadOn(k, {"c"}, [opts EXCEPT !.command_time = Value(k)])
             \/ ReadOn(k, {"b"}, [opts EXCEPT !.iobufsize = Value(k)])
             \/ ReadOn(k, {"s"}, [opts EXCEPT !.baudrate = Value(k)])
    BY <1>1, <2>1, FineRead, FineKept DEF ReadOn
  <2>2. CASE Refuse(k, {"c", "b", "s"}, "startup") \/ Refuse(k, {"s"}, "startup")
    BY <1>1, <2>2, FineRead DEF Refuse
  <2> QED BY <1>5, <2>1, <2>2 DEF Number
<1>6. ASSUME NEW k \in DOMAIN args, Location(k) PROVE ParserOK'
  <2>1. CASE Refuse(k, {"l"}, "startup")
    BY <1>1, <2>1, FineRead DEF Refuse
  <2>2. CASE ~Refuse(k, {"l"}, "startup")
    <3> DEFINE at == Locations[OptArg(k)]
               host == IF at.host = "none" THEN opts.host ELSE at.host
    <3>1. ReadOn(k, {"l"}, [opts EXCEPT !.host = host, !.listen_port = at.port])
      BY <1>6, <2>2 DEF Location
    <3> HIDE DEF at, host
    <3> DEFINE new == [opts EXCEPT !.host = host, !.listen_port = at.port]
    <3>2. Fine(new)
      BY <1>1 DEF Fine
    <3>3. Read(k, {"l"}, new, "reading", AfterOption(k))
      BY <3>1 DEF ReadOn
    <3> HIDE DEF new
    <3> QED BY <3>2, <3>3, FineRead
  <2> QED BY <2>1, <2>2
<1>7. ASSUME NEW k \in DOMAIN args, LogFile(k) \/ Daemonize(k) PROVE ParserOK'
  BY <1>1, <1>7, FineRead, FineKept DEF LogFile, Daemonize, ReadOn
<1>8. ASSUME NEW k \in DOMAIN args, LogFlag(k) PROVE ParserOK'
  <2>1. ASSUME NEW letters, NEW new, ReadOn(k, letters, [opts EXCEPT !.logflags = new])
        PROVE  ParserOK'
    BY <1>1, <2>1, FineRead, FineKept DEF ReadOn
  <2> QED BY <1>8, <2>1 DEF LogFlag
<1> QED BY <1>2, <1>3, <1>4, <1>5, <1>6, <1>7, <1>8, PortFine DEF Parse, Option

(* The other steps leave the options alone.                                *)
LEMMA ParserSame == ASSUME ParserOK, UNCHANGED parser PROVE ParserOK'
BY DEF parser, ParserOK

(* The verbosity of the log, and the places messages went to.              *)
LogOK == log.verbosity \in Nat /\ told \subseteq {"file", "out", "err"}

(* log_log changes neither the verbosity nor the places there are.         *)
LEMMA LogsOK ==
  ASSUME NEW data, data.verbosity \in Nat, told \subseteq {"file", "out", "err"},
         NEW level, Logs(data, level)
  PROVE  LogOK'
<1>1. CASE log' = data /\ UNCHANGED <<told, silent>>
  BY <1>1 DEF LogOK
<1>2. CASE \E opens \in BOOLEAN :
             /\ log' = IF ~data.open /\ "file" \in data.flags THEN Rotated(data, opens) ELSE data
             /\ told' = told \cup Places(log')
  <2>1. PICK opens \in BOOLEAN :
          /\ log' = IF ~data.open /\ "file" \in data.flags THEN Rotated(data, opens) ELSE data
          /\ told' = told \cup Places(log')
    BY <1>2
  <2>2. log'.verbosity = data.verbosity
    BY <2>1 DEF Rotated
  <2>3. told' \subseteq {"file", "out", "err"}
    BY <2>1 DEF Places
  <2> QED BY <2>2, <2>3 DEF LogOK
<1> QED BY <1>1, <1>2 DEF Logs

(* main: it runs hdmi2usb_main and starts the log only with a command line *)
(* that was accepted, and its exit code is one of two.                     *)
StageOK == stage \in {"parse", "settings", "run", "done"} /\ code \in {-1, 0, 3}

DaemonInv == RestOK /\ spec \in Specs /\ Within /\ ParserOK /\ LogOK /\ StageOK

(* The invariant when the process starts.                                  *)
LEMMA DaemonStart == DaemonInit => DaemonInv
<1> SUFFICES ASSUME DaemonInit PROVE DaemonInv
  OBVIOUS
<1>1. RestOK /\ spec \in Specs /\ Within /\ ParserOK
  BY TypeInit, TypeParts, WithinInit, FineStart DEF DaemonInit
<1>2. LogOK /\ StageOK
  BY DEF DaemonInit, LoggingInit, DefaultLevel, LogOK, StageOK
<1> QED BY <1>1, <1>2 DEF DaemonInv

(* A step of the process keeps the invariant: one conjunct at a time.      *)
LEMMA DaemonTypes == ASSUME DaemonInv, [DaemonNext]_states PROVE DaemonInv'
<1>1. RestOK' /\ spec' \in Specs
  <2>1. CASE [Next]_vars
    BY <2>1, RestStep, SpecKept DEF DaemonInv, Within
  <2>2. CASE Settings
    <3>1. /\ spec' = opts.port
          /\ UNCHANGED <<pc, todo, active, rc, signals, devices, world>>
      BY <2>2 DEF Settings
    <3>2. RestOK'
      BY <3>1 DEF DaemonInv, RestOK, MainOK, SignalsOK, PortOK, FoundOK, WorldOK, signals,
         devices, port, world
    <3> QED BY <3>1, <3>2 DEF DaemonInv, ParserOK, Fine
  <2> QED BY <2>1, <2>2, Steps
<1>2. Within'
  BY WithinStep DEF DaemonInv
<1>3. ParserOK'
  <2>1. CASE ParseArgs
    BY <2>1, ParserTypes DEF ParseArgs, DaemonInv
  <2>2. CASE UNCHANGED parser
    BY <2>2, ParserSame DEF DaemonInv
  <2> QED BY <2>1, <2>2 DEF DaemonNext, DaemonStep, Refused, Start, Settings, Run, End, Outside,
          states
<1>4. LogOK'
  <2>1. CASE UNCHANGED logging
    BY <2>1 DEF logging, LogOK, DaemonInv
  <2>2. CASE Start
    <3> DEFINE data == LogInit(opts.logflags, opts.verbose, opts.logfile)
    <3>1. Logs(data, Level["critical"])
      BY <2>2 DEF Start
    <3>2. data.verbosity \in Nat
      BY DEF LogInit, DefaultLevel, DaemonInv, ParserOK, Fine
    <3> HIDE DEF data
    <3> QED BY <3>1, <3>2, LogsOK DEF DaemonInv, LogOK
  <2>3. ASSUME NEW level, Message(level) PROVE LogOK'
    BY <2>3, LogsOK DEF Message, DaemonInv, LogOK
  <2>4. CASE Printed("err")
    BY <2>4 DEF Printed, DaemonInv, LogOK
  <2> QED BY <2>1, <2>2, <2>3, <2>4 DEF DaemonNext, DaemonStep, ParseArgs, Refused, Settings, Run,
          End, Outside, NoMessage, states
<1>5. StageOK'
  BY DEF DaemonInv, StageOK, DaemonNext, DaemonStep, ParseArgs, Refused, Start, Settings, Run, End,
     Outside, Shell, main, states
<1> QED BY <1>1, <1>2, <1>3, <1>4, <1>5 DEF DaemonInv

(* The invariant has all that the run checks.                              *)
LEMMA DaemonSuffices == DaemonInv => DaemonTypeOK
<1> SUFFICES ASSUME DaemonInv PROVE DaemonTypeOK
  OBVIOUS
<1>1. TypeOK
  BY TypeParts DEF DaemonInv
<1> QED BY <1>1 DEF DaemonInv, DaemonTypeOK, ParserOK, Fine, LogOK, StageOK

(* The process keeps its state in order, whatever its command line: the    *)
(* parser never looks past the word after the last, the serial ports it    *)
(* leaves are ones hdmi2usb_main can search, and over any number of        *)
(* reloads the stack of handlers stays within two places.                  *)
THEOREM DaemonTypesCorrect == DaemonSpec => []DaemonTypeOK
BY DaemonStart, DaemonTypes, DaemonSuffices, PTL DEF DaemonSpec
=============================================================================
