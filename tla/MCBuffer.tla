------------------------------ MODULE MCBuffer ------------------------------
(* Buffer on every pair of rings of at most 3 bytes, with strings and      *)
(* lengths up to one more than that.                                       *)
EXTENDS Buffer

CONSTANTS b1, b2

MCByte    == {b1, b2}
MCSizes   == 0 .. 3
MCInputs  == UNION {[1 .. n -> MCByte] : n \in 0 .. 4}
MCLengths == 0 .. 4
==============================================================================
