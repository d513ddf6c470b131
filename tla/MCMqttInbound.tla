---------------------------- MODULE MCMqttInbound ----------------------------
(* Model values for MqttInbound. *)
EXTENDS MqttInbound, TLC

\* Messages differ only in the QoS Init gives them (used where no liveness is checked).
Symmetry == Permutations(Msg)
=============================================================================
