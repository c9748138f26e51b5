---------------------------- MODULE MCTelemetry ----------------------------
(* Instance of Telemetry for TLC: two processes on one journal.             *)
EXTENDS Telemetry

CONSTANTS p1, p2

TwoProcs == {p1, p2}
ProcSymmetry == Permutations(TwoProcs)
=============================================================================
