----------------------------- MODULE MCTelemetry -----------------------------
(* Values for the run of TransmemTelemetry: the telemetry of transactions  *)
(* over one word, whose contents do not matter.                            *)
EXTENDS TransmemTelemetry

CONSTANTS c1, c2, b1

OneWord == {0}
WordAccess == {[addr |-> 0, size |-> 4]}
Identity(a) == a
==============================================================================
