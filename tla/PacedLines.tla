----------------------------- MODULE PacedLines -----------------------------
(***************************************************************************)
(* What the line buffer and the pause between commands promise: the text a *)
(* client sends is cut after each newline or NUL, and the strings go to    *)
(* the device one at a time, in order, each a pause after the last.  The   *)
(* pause is measured by a clock that may be set.                           *)
(***************************************************************************)
EXTENDS Naturals, Sequences

CONSTANTS Text,      \* the bytes a client may send
          Ends,      \* those that end a command
          MaxChunk,  \* how many arrive at a time at most
          Pace,      \* the pause after a command
          Jump,      \* by how much the clock is set at most
          MaxSets    \* how often

VARIABLES text,      \* what the client sent and the device has not got
          given,     \* the command the device was given last
          wait,      \* what is left of the pause
          sets       \* how often the clock was set

vars == <<text, given, wait, sets>>

Init == text = <<>> /\ given = <<>> /\ wait = 0 /\ sets = 0

Chunks == UNION {[1 .. n -> Text] : n \in 1 .. MaxChunk}

Receive == /\ \E chunk \in Chunks : text' = text \o chunk
           /\ UNCHANGED <<given, wait, sets>>

IsCommand(cut) == /\ cut \in DOMAIN text /\ text[cut] \in Ends
                  /\ \A i \in 1 .. cut - 1 : text[i] \notin Ends

Send == /\ wait = 0 /\ wait' = Pace
        /\ \E cut \in DOMAIN text :
             /\ IsCommand(cut)
             /\ given' = SubSeq(text, 1, cut)
             /\ text' = SubSeq(text, cut + 1, Len(text))
        /\ UNCHANGED sets

Tick == /\ wait > 0 /\ wait' = wait - 1
        /\ UNCHANGED <<text, given, sets>>

ClockSet == /\ sets < MaxSets /\ sets' = sets + 1
            /\ wait' \in 0 .. Pace + Jump * MaxSets
            /\ UNCHANGED <<text, given>>

Next == Receive \/ Send \/ Tick \/ ClockSet
Spec == Init /\ [][Next]_vars
=============================================================================
