--------------------------- MODULE MCTransmemGuest ---------------------------
(* Values for the runs of TransmemGuest: one word, whose value is a byte.  *)
EXTENDS TransmemGuest

CONSTANTS c1, c2, c3, t1, t2, t3

MCCounter == [addr |-> 0, size |-> 4]
MCAccesses == {MCCounter}
MCWords == {0}
MCByte == 0 .. 6
Identity(a) == a
==============================================================================
