----------------------------- MODULE MCSelector -----------------------------
(* Selector with a tty, a listener and one or two clients.                 *)
EXTENDS Selector

CONSTANTS c1, c2

TwoConns == {c1, c2}
JustC1   == {c1}
JustC2   == {c2}
TtyAndC1 == {"tty", c1}
MCFds    == 0 .. 3
==============================================================================
