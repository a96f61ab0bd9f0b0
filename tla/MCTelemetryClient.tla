-------------------------- MODULE MCTelemetryClient --------------------------
(* Model checking of TelemetryClient.                                       *)
EXTENDS TelemetryClient
=============================================================================
