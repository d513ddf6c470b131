--------------------------- MODULE DeliveryPromise --------------------------
(***************************************************************************)
(* What publishing promises for a message sent at QoS 1 or 2 over one      *)
(* connection, seen from the application: the message is handed over,      *)
(* reaches the broker at most once, is confirmed only after that and only  *)
(* while the connection is up; the call answers SUCCESS only for a         *)
(* confirmed message and reports a lost connection only when it is lost.   *)
(***************************************************************************)
CONSTANT Msg

VARIABLES
    phase,    \* how far each message has come
    outcome,  \* what the call that published it answered
    up        \* the connection has not been closed

vars == <<phase, outcome, up>>

Phase   == {"new", "accepted", "received", "confirmed"}
Outcome == {"none", "SUCCESS", "DISCONNECTED", "FAILURE", "refused"}

Init ==
    /\ phase = [m \in Msg |-> "new"]
    /\ outcome = [m \in Msg |-> "none"]
    /\ up = TRUE

Move(m, from, to) == phase[m] = from /\ phase' = [phase EXCEPT ![m] = to]

Accept(m)  == Move(m, "new", "accepted") /\ UNCHANGED <<outcome, up>>
Receive(m) == Move(m, "accepted", "received") /\ UNCHANGED <<outcome, up>>

\* The same step may find the connection dead and close it.
Confirm(m) == up /\ Move(m, "received", "confirmed") /\ up' \in BOOLEAN /\ UNCHANGED outcome

Answer(m, r) ==
    /\ phase[m] # "new" /\ outcome[m] = "none"
    /\ r = "SUCCESS" => up /\ phase[m] = "confirmed"
    /\ r \in {"DISCONNECTED", "refused"} => ~up
    /\ outcome' = [outcome EXCEPT ![m] = r]
    /\ UNCHANGED <<phase, up>>

Close == up /\ up' = FALSE /\ UNCHANGED <<phase, outcome>>

Next ==
    \/ \E m \in Msg :
          \/ Accept(m) \/ Receive(m) \/ Confirm(m)
          \/ \E r \in Outcome \ {"none"} : Answer(m, r)
    \/ Close

Spec == Init /\ [][Next]_vars
=============================================================================
