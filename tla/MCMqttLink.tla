----------------------------- MODULE MCMqttLink -----------------------------
(* Instances of MqttLink for TLC. *)
EXTENDS MqttLink

CONSTANTS tailer, telemetry
=============================================================================
