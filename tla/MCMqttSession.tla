---------------------------- MODULE MCMqttSession ---------------------------
(* Model values for MqttSession. *)
EXTENDS MqttSession, TLC

\* Threads run the same code and messages differ only in the QoS Init gives them.
Symmetry == Permutations(Thread) \cup Permutations(Msg)
=============================================================================
