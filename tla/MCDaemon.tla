------------------------------ MODULE MCDaemon ------------------------------
(* Daemon with a few command lines: those that are told apart by what they *)
(* do to the log, the serial ports and the parser.                         *)
EXTENDS Daemon

CONSTANTS any, lo4, lo6

V4(addr) == [family |-> 4, addr |-> addr]
V6(addr) == [family |-> 6, addr |-> addr]

MCAddrLists == {<<V4(lo4), V4(lo4)>>, <<V6(lo6), V6(any)>>}
MCForeign   == {lo4}
MCAutoPort  == <<<<"viz0">>, <<"acm0">>>>
MCSpecs     == {MCAutoPort, <<<<"acm0">>>>, <<<<"acm0">>, <<"viz0">>>>, <<<<"viz0">>, <<"acm0">>>>}
MCNumbers   == [text \in {"6", "9", "115200"} |->
                  CASE text = "6" -> 6 [] text = "9" -> 9 [] OTHER -> 115200]
MCLocations == [text \in {"host", ":80", "host:80"} |->
                  CASE text = "host"    -> [host |-> "host", port |-> 0]
                    [] text = ":80"     -> [host |-> "none", port |-> 80]
                    [] text = "host:80" -> [host |-> "host", port |-> 80]]

(* Lines the daemon runs with, and lines that only the parser sees to the  *)
(* end, because they are refused or read for ever.                         *)
Running == {<<Opt("q"), Opt("L"), Plain("file"), With("V", "6")>>,
            <<Opt("p"), Plain("acm0"), Plain("viz0"), Opt("4"), With("L", "file")>>}
Refusals == {<<Opt("e"), Opt("e"), Opt("e"), Opt("F"), Opt("V"), With("V", "high")>>,
             <<Opt("u"), Opt("s"), Plain("6"), Opt("q")>>,
             <<Opt("D"), Plain("word"), Opt("b"), Plain("9"), Opt("l"), Plain("nowhere:x")>>,
             <<With("l", "host"), Opt("c"), Plain("9"), With("s", "115200"), Opt("6"), Opt("L")>>,
             <<With("p", "acm0"), Opt("q")>>,
             <<Opt("q"), Plain("word"), Opt("q"), Plain("word"), Opt("p"), Plain("acm0")>>,
             <<Opt("L"), Opt("p"), Plain("acm0"), Opt("p"), Opt("q"), With("c", "x")>>}
MCCommandLines == Running \cup Refusals
=============================================================================
