---------------------------- MODULE MCMqttService ---------------------------
(* A small instance of MqttService. *)
EXTENDS MqttService, TLC

CONSTANTS t1, t2

MCThreads == {t1, t2}

\* Two calls on the first session, so that one can meet what the other left, one on the next.
MCAsks == <<2, 1>>
=============================================================================
