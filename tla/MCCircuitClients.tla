-------------------------- MODULE MCCircuitClients --------------------------
(* Small instances of CircuitClients for TLC.                               *)
EXTENDS CircuitClients

CONSTANTS c1, c2, c3

ThreeCallers == {c1, c2, c3}
TwoCallers == {c1, c2}
AnyOutcome == {"success", "failure", "neutral"}
=============================================================================
