----------------------------- MODULE MCGateway -----------------------------
(* Gateway with two clients and a serial device that sends a few bytes.    *)
EXTENDS Gateway

CONSTANTS c1, c2

MCConns  == {c1, c2}
OneLine  == [c \in MCConns |-> LineLen]
TwoLines == [c \in MCConns |-> IF c = c1 THEN 2 * LineLen ELSE LineLen]
NoLines  == [c \in MCConns |-> 0]
JustC1   == {c1}
JustC2   == {c2}
==============================================================================
