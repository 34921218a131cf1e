---------------------------- MODULE MCTelemetry ----------------------------
(* Telemetry with a registry of two slots and at most one vTaskDelay in an *)
(* append or a close.                                                      *)
EXTENDS Telemetry
=============================================================================
