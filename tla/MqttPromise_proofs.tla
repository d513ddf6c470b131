------------------------- MODULE MqttPromise_proofs -------------------------
(* The session keeps the promise of DeliveryPromise: each of its steps is a   *)
(* step of the promise or changes nothing of it.                              *)
EXTENDS MqttHonest_proofs

\* The thread has a message that its call has not answered yet.
InCall(t) == pc[t] \notin {"done", "exited"} /\ cur[t] # NoMsg

\* What every packet of a set is about has been handed to mqtt_publish.
Called(P) == \A p \in P : result[p.msg] # "new"

\* One call per message, and nothing is under way or known to the broker that
\* was not handed over first.
CallInv ==
    /\ \A t \in Thread : pc[t] \in {"idle", "draining"} => cur[t] = NoMsg
    /\ \A t \in Thread : InCall(t) => cur[t] \in Msg /\ result[cur[t]] = "called"
    /\ \A t, u \in Thread : InCall(t) /\ InCall(u) /\ cur[t] = cur[u] => t = u
    /\ Called(PacketsOf(writing)) /\ Called(PacketsOf(toBroker)) /\ Called(PacketsOf(toClient))
    /\ \A m \in received : result[m] # "new"
    /\ socket = Fd => connected

LEMMA CallInit == Init => CallInv
  BY EmptyChannel DEF Init, CallInv, InCall, Called, Fd

\* Every packet under way is about a message that was handed over.
Known(P) == \A p \in P : p.msg \in Msg /\ result[p.msg] # "new"

LEMMA AllKnown ==
  ASSUME TypeOK, CallInv
  PROVE  /\ Known(PacketsOf(writing)) /\ Known(PacketsOf(toBroker)) /\ Known(PacketsOf(toClient))
         /\ \A m \in received : m \in Msg /\ result[m] # "new"
<1>1. /\ \A i \in 1..Len(writing) : writing[i] \in Packet
      /\ \A i \in 1..Len(toBroker) : toBroker[i] \in Packet
      /\ \A i \in 1..Len(toClient) : toClient[i] \in Packet
  BY DEF TypeOK, NetTypeOK
<1>2. \A p \in Packet : p.msg \in Msg
  BY DEF Packet
<1>3. \A p \in PacketsOf(writing) \cup PacketsOf(toBroker) \cup PacketsOf(toClient) : p.msg \in Msg
  BY <1>1, <1>2 DEF PacketsOf
<1> QED
  BY <1>3 DEF CallInv, Called, Known, TypeOK, NetTypeOK

\* A step that begins no call and makes packets only about known messages.
LEMMA CallsKeep ==
  ASSUME TypeOK, CallInv,
         \A t \in Thread : pc'[t] \in {"idle", "draining"} => cur'[t] = NoMsg,
         \A t \in Thread : InCall(t)' => InCall(t) /\ cur'[t] = cur[t] /\ result'[cur[t]] = result[cur[t]],
         \A m \in Msg : result[m] # "new" => result'[m] # "new",
         Known(PacketsOf(writing')), Known(PacketsOf(toBroker')), Known(PacketsOf(toClient')),
         \A m \in received' : m \in Msg /\ result[m] # "new",
         socket' = Fd => socket = Fd /\ connected' = connected
  PROVE  CallInv'
<1>1. Called(PacketsOf(writing))' /\ Called(PacketsOf(toBroker))' /\ Called(PacketsOf(toClient))'
  BY DEF Called, Known
<1>2. \A m \in received' : result'[m] # "new"
  OBVIOUS
<1>3. \A t \in Thread : InCall(t)' => cur'[t] \in Msg /\ result'[cur'[t]] = "called"
  BY DEF CallInv
<1>4. \A t, u \in Thread : InCall(t)' /\ InCall(u)' /\ cur'[t] = cur'[u] => t = u
  BY DEF CallInv
<1>5. socket' = Fd => connected'
  BY DEF CallInv
<1> QED
  BY <1>1, <1>2, <1>3, <1>4, <1>5 DEF CallInv

\* A step that leaves the callers alone.
LEMMA CallersStay ==
  ASSUME TypeOK, CallInv, UNCHANGED appVars,
         Known(PacketsOf(writing')), Known(PacketsOf(toBroker')), Known(PacketsOf(toClient')),
         \A m \in received' : m \in Msg /\ result[m] # "new",
         socket' = Fd => socket = Fd /\ connected' = connected
  PROVE  CallInv'
<1>1. UNCHANGED <<pc, cur, result>>
  BY DEF appVars
<1>2. /\ \A t \in Thread : pc'[t] \in {"idle", "draining"} => cur'[t] = NoMsg
      /\ \A t \in Thread : InCall(t)' => InCall(t) /\ cur'[t] = cur[t] /\ result'[cur[t]] = result[cur[t]]
      /\ \A m \in Msg : result[m] # "new" => result'[m] # "new"
  BY <1>1 DEF CallInv, InCall
<1> QED
  BY <1>2, CallsKeep

\* The end of a cycle.
LEMMA EndCycleCalls ==
  ASSUME TypeOK, CallInv, NEW out, NEW tb, NEW wr, NEW tc, NEW rc, EndCycle(out, tb, wr, tc, rc),
         Known(PacketsOf(wr)), Known(PacketsOf(tb)), Known(PacketsOf(tc))
  PROVE  CallInv'
<1>1. UNCHANGED <<appVars, received>>
  BY DEF EndCycle, brokerVars
<1>2. Known({})
  BY DEF Known
<1>3. \/ /\ writing' = wr /\ toBroker' = tb /\ toClient' = tc /\ UNCHANGED <<socket, connected>>
      \/ /\ writing' = <<>> /\ toBroker' = tb /\ toClient' = <<>> /\ socket' # Fd
  BY DEF EndCycle, LoseConnection, CloseSession, Fd
<1>4. Known(PacketsOf(writing')) /\ Known(PacketsOf(toBroker')) /\ Known(PacketsOf(toClient'))
  BY <1>2, <1>3, AllKnown, EmptyChannel
<1> QED
  BY <1>1, <1>3, <1>4, AllKnown, CallersStay

\* The background thread, the broker and the network.
LEMMA OtherStepCalls ==
  TypeOK /\ CallInv /\ (RunStep \/ BrokerStep \/ NetworkFails \/ TcpGivesUp \/ UNCHANGED vars) => CallInv'
<1> SUFFICES ASSUME TypeOK, CallInv, RunStep \/ BrokerStep \/ NetworkFails \/ TcpGivesUp \/ UNCHANGED vars
             PROVE  CallInv'
  OBVIOUS
<1>1. /\ Known(PacketsOf(writing)) /\ Known(PacketsOf(toBroker)) /\ Known(PacketsOf(toClient))
      /\ \A m \in received : m \in Msg /\ result[m] # "new"
      /\ Known(PacketsOf(<<>>))
  BY AllKnown, EmptyChannel DEF Known
<1>2. writing \in Seq(Packet) /\ toBroker \in Seq(Packet) /\ toClient \in Seq(Packet)
  BY DEF TypeOK, NetTypeOK
<1>3. toClient # <<>> => /\ Head(toClient) \in Packet /\ Head(toClient) \in PacketsOf(toClient)
                         /\ Known(PacketsOf(Tail(toClient)))
  <2>1. toClient # <<>> => Head(toClient) \in Packet
    BY <1>2, PacketSeq
  <2>2. toClient # <<>> => /\ Head(toClient) \in PacketsOf(toClient)
                           /\ PacketsOf(Tail(toClient)) \subseteq PacketsOf(toClient)
    BY <1>2, TailChannel
  <2> QED
    BY <1>1, <2>1, <2>2 DEF Known
<1>4. ASSUME NEW p \in Packet, NEW type \in {"PUBACK", "PUBREC", "PUBREL", "PUBCOMP"},
             p \in PacketsOf(toBroker) \cup PacketsOf(toClient)
      PROVE  Reply(p, type) \in Packet /\ Known({Reply(p, type)})
  <2>1. Reply(p, type) \in Packet /\ Reply(p, type).msg = p.msg
    BY ReplyType DEF Reply, Packet
  <2> QED
    BY <1>1, <1>4, <2>1 DEF Known
<1>5. \A q \in Seq(Packet), p \in Packet :
         Known(PacketsOf(q)) /\ Known({p}) => Known(PacketsOf(Append(q, p))) /\ Known(PacketsOf(<<p>>))
  BY AppendChannel, OneInChannel DEF Known
<1>6. CASE CycleIdle \/ CycleReadError
  BY <1>1, <1>6, EndCycleCalls DEF CycleIdle, CycleReadError
<1>7. CASE HandlePuback \/ HandlePubcomp
  BY <1>1, <1>3, <1>7, EndCycleCalls DEF HandlePuback, HandlePubcomp, Reading
<1>8. CASE HandlePubrec
  <2> DEFINE x == Reply(Head(toClient), "PUBREL")
  <2>1. toClient # <<>>
    BY <1>8 DEF HandlePubrec, Reading
  <2>2. x \in Packet /\ Known({x})
    BY <1>3, <1>4, <2>1
  <2>3. PICK out, tb, wr, rc :
           /\ tb \in {toBroker, Sent(x)} /\ wr \in {writing, <<x>>}
           /\ EndCycle(out, tb, wr, Tail(toClient), rc)
    BY <1>8, PubrecCycle
  <2>4. Known(PacketsOf(tb)) /\ Known(PacketsOf(wr))
    BY <1>1, <1>2, <1>5, <2>2, <2>3 DEF Sent
  <2> QED
    BY <1>3, <2>1, <2>3, <2>4, EndCycleCalls
<1>9. CASE ContinueWrite
  <2>1. Head(writing) \in Packet /\ Known({Head(writing)})
    <3>1. writing # <<>>
      BY <1>9 DEF ContinueWrite
    <3> QED
      BY <1>1, <1>2, <3>1, TailChannel DEF Known
  <2>2. Known(PacketsOf(toBroker'))
    BY <1>1, <1>2, <1>5, <1>9, <2>1 DEF ContinueWrite, Sent
  <2>3. writing' = <<>> /\ UNCHANGED <<toClient, received, appVars, socket, connected>>
    BY <1>9 DEF ContinueWrite, brokerVars, clientVars
  <2> QED
    BY <1>1, <2>2, <2>3, CallersStay
<1>10. CASE RunLosesConnection
  <2>1. /\ writing' = <<>> /\ toClient' = <<>> /\ socket' # Fd
        /\ UNCHANGED <<toBroker, received, appVars>>
    BY <1>10 DEF RunLosesConnection, LoseConnection, CloseSession, brokerVars, Fd
  <2> QED
    BY <1>1, <2>1, CallersStay
<1>11. CASE RunSelect \/ RunStops \/ RunGoesOn \/ TcpGivesUp \/ NetworkFails \/ UNCHANGED vars
  <2>1. /\ toBroker' \in {<<>>, toBroker} /\ toClient' \in {<<>>, toClient}
        /\ UNCHANGED <<writing, received, appVars, socket, connected>>
    BY <1>11 DEF RunSelect, RunStops, RunGoesOn, TcpGivesUp, NetworkFails, vars,
                 clientVars, netVars, brokerVars
  <2> QED
    BY <1>1, <2>1, CallersStay
<1>12. ASSUME NEW i \in 1..Len(toBroker), BrokerTakes(i) PROVE CallInv'
  <2>1. PICK p \in Packet : p = toBroker[i] /\ p \in PacketsOf(toBroker)
    BY <1>2 DEF PacketsOf
  <2>2. /\ UNCHANGED <<writing, appVars, socket, connected>>
        /\ received' \subseteq received \cup {p.msg}
        /\ \/ toClient' = toClient
           \/ \E type \in {"PUBACK", "PUBREC", "PUBCOMP"} : toClient' = Append(toClient, Reply(p, type))
    BY <1>12, <2>1 DEF BrokerTakes, clientVars
  <2>3. PacketsOf(toBroker') \subseteq PacketsOf(toBroker)
    <3>1. toBroker' = Without(toBroker, i)
      BY <1>12 DEF BrokerTakes, Without
    <3> QED
      BY <1>2, <3>1, WithoutChannel
  <2>4. Known(PacketsOf(toBroker')) /\ \A m \in received' : m \in Msg /\ result[m] # "new"
    BY <1>1, <2>1, <2>2, <2>3 DEF Known
  <2>5. Known(PacketsOf(toClient'))
    BY <1>1, <1>2, <1>4, <1>5, <2>1, <2>2
  <2> QED
    BY <1>1, <2>2, <2>4, <2>5, CallersStay
<1> QED
  BY <1>6, <1>7, <1>8, <1>9, <1>10, <1>11, <1>12 DEF RunStep, BrokerStep

\* The application threads.
LEMMA AppStepCalls == TypeOK /\ CallInv /\ (\E t \in Thread : AppStep(t)) => CallInv'
<1> SUFFICES ASSUME TypeOK, CallInv, NEW t \in Thread, AppStep(t) PROVE CallInv'
  OBVIOUS
<1>0. /\ pc \in [Thread -> Pc] /\ cur \in [Thread -> Msg \cup {NoMsg}] /\ NoMsg \notin Msg
      /\ result \in [Msg -> {"new", "called", "refused", "SUCCESS", "DISCONNECTED", "FAILURE"}]
      /\ writing \in Seq(Packet) /\ toBroker \in Seq(Packet)
  BY SessionAssumption DEF TypeOK, AppTypeOK, NetTypeOK
<1>1. /\ Known(PacketsOf(writing)) /\ Known(PacketsOf(toBroker)) /\ Known(PacketsOf(toClient))
      /\ \A m \in received : m \in Msg /\ result[m] # "new"
      /\ Known(PacketsOf(<<>>))
  BY AllKnown, EmptyChannel DEF Known
<1>2. pc[t] \in {"publishing", "blocked", "writing", "waiting"} =>
         InCall(t) /\ cur[t] \in Msg /\ result[cur[t]] = "called"
  BY <1>0 DEF InCall, TypeOK, CallTypeOK, CallInv
<1>3. ASSUME NEW m \in Msg, Call(t, m) PROVE CallInv'
  <2>1. /\ pc' = [pc EXCEPT ![t] = "publishing"] /\ cur' = [cur EXCEPT ![t] = m]
        /\ result' = [result EXCEPT ![m] = "called"] /\ result[m] = "new"
        /\ UNCHANGED <<writing, toBroker, toClient, received, socket, connected>>
    BY <1>3 DEF Call, Fresh, clientVars, netVars, brokerVars
  <2>2. \A u \in Thread \ {t} : InCall(u)' => InCall(u) /\ cur'[u] = cur[u] /\ cur[u] # m
    BY <1>0, <2>1 DEF InCall, CallInv
  <2>3. cur'[t] = m /\ result'[m] = "called" /\ \A n \in Msg \ {m} : result'[n] = result[n]
    BY <1>0, <2>1
  <2>4. \A u \in Thread : pc'[u] \in {"idle", "draining"} => cur'[u] = NoMsg
    BY <1>0, <2>1 DEF CallInv
  <2>5. \A u \in Thread : InCall(u)' => cur'[u] \in Msg /\ result'[cur'[u]] = "called"
    BY <2>2, <2>3 DEF CallInv
  <2>6. \A u, v \in Thread : InCall(u)' /\ InCall(v)' /\ cur'[u] = cur'[v] => u = v
    BY <2>2, <2>3 DEF CallInv
  <2>7. Called(PacketsOf(writing))' /\ Called(PacketsOf(toBroker))' /\ Called(PacketsOf(toClient))'
    BY <1>1, <2>1, <2>3 DEF Called, Known
  <2>8. \A n \in received' : result'[n] # "new"
    BY <1>1, <2>1, <2>3
  <2> QED
    BY <2>1, <2>4, <2>5, <2>6, <2>7, <2>8 DEF CallInv
<1>4. ASSUME ExitProcess(t), UNCHANGED <<writing, toBroker, toClient, received, socket, connected>>
      PROVE  CallInv'
  <2>1. \A u \in Thread : pc'[u] = "exited"
    BY <1>4 DEF ExitProcess
  <2>2. \A m \in Msg : result[m] # "new" => result'[m] # "new"
    BY <1>0, <1>4 DEF ExitProcess
  <2> QED
    BY <1>1, <1>4, <2>1, <2>2, CallsKeep DEF InCall
<1>5. ASSUME UNCHANGED <<cur, result, toClient, received>>,
             pc' = [pc EXCEPT ![t] = pc'[t]], pc'[t] # "idle",
             pc'[t] = "draining" => pc[t] = "idle", pc[t] \notin {"done", "exited"},
             Known(PacketsOf(writing')), Known(PacketsOf(toBroker')),
             socket' = Fd => socket = Fd /\ connected' = connected
      PROVE  CallInv'
  <2>1. \A u \in Thread : pc'[u] \in {"idle", "draining"} => cur'[u] = NoMsg
    BY <1>0, <1>5 DEF CallInv
  <2>2. \A u \in Thread : InCall(u)' => InCall(u) /\ cur'[u] = cur[u]
    BY <1>0, <1>5 DEF InCall
  <2> QED
    BY <1>1, <1>5, <2>1, <2>2, CallsKeep
<1>6. CASE PublishBlocks(t) \/ DisconnectStart(t)
  <2>1. /\ UNCHANGED <<cur, result, writing, toBroker, toClient, received, socket, connected>>
        /\ \/ pc' = [pc EXCEPT ![t] = "blocked"] /\ pc[t] = "publishing"
           \/ pc' = [pc EXCEPT ![t] = "draining"] /\ pc[t] = "idle"
    BY <1>6 DEF PublishBlocks, DisconnectStart, clientVars, netVars, brokerVars
  <2> QED
    BY <1>0, <1>1, <1>5, <2>1
<1>7. CASE PublishSent(t) \/ PublishInterrupted(t)
  <2>1. pc[t] \in {"publishing", "blocked"} /\ cur[t] \in Msg /\ result[cur[t]] = "called"
    BY <1>2, <1>7 DEF PublishSent, PublishInterrupted, CanStart
  <2>2. PICK id \in IdsFor(cur[t]) :
           /\ \/ pc' = [pc EXCEPT ![t] = "waiting"]
              \/ pc' = [pc EXCEPT ![t] = "writing"]
           /\ \/ toBroker' = Sent(PublishPacket(cur[t], id)) /\ UNCHANGED writing
              \/ writing' = <<PublishPacket(cur[t], id)>> /\ UNCHANGED toBroker
           /\ UNCHANGED <<cur, result, toClient, received, socket, connected>>
    BY <1>7 DEF PublishSent, PublishInterrupted, StoreMessage, brokerVars
  <2> DEFINE p == PublishPacket(cur[t], id)
  <2>3. p \in Packet /\ p.msg = cur[t]
    BY <2>1, PublishType DEF PublishPacket, TypeOK
  <2> HIDE DEF p
  <2>4. Known({p})
    BY <2>1, <2>3 DEF Known
  <2>5. Known(PacketsOf(Append(toBroker, p))) /\ Known(PacketsOf(<<p>>))
    BY <1>0, <1>1, <2>3, <2>4, AppendChannel, OneInChannel DEF Known
  <2>6. Known(PacketsOf(writing')) /\ Known(PacketsOf(toBroker'))
    BY <1>1, <2>2, <2>5 DEF Sent, p
  <2> QED
    BY <1>0, <1>5, <2>1, <2>2, <2>6
<1>8. CASE PublishError(t) \/ DisconnectDrained(t) \/ DisconnectTimedOut(t) \/ DisconnectClosed(t)
  <2>1. /\ pc[t] \in {"publishing", "blocked", "idle", "draining"}
        /\ pc' = [pc EXCEPT ![t] = "stopping"] /\ UNCHANGED <<cur, result, toBroker, received>>
        /\ writing' = <<>> /\ toClient' = <<>> /\ socket' # Fd
    BY <1>8 DEF PublishError, CanStart, DisconnectDrained, DisconnectTimedOut, DisconnectClosed,
                DisconnectClose, CloseSession, brokerVars, Fd
  <2>2. \A u \in Thread : pc'[u] \in {"idle", "draining"} => cur'[u] = NoMsg
    BY <1>0, <2>1 DEF CallInv
  <2>3. \A u \in Thread : InCall(u)' => InCall(u) /\ cur'[u] = cur[u]
    BY <1>0, <2>1 DEF InCall
  <2> QED
    BY <1>1, <2>1, <2>2, <2>3, CallsKeep
<1>9. CASE WriteFinished(t) \/ StopWaited(t)
  <2>1. UNCHANGED <<writing, toBroker, toClient, received, socket, connected>>
    BY <1>9 DEF WriteFinished, StopWaited, clientVars, netVars, brokerVars
  <2>2. CASE pc' \in {[pc EXCEPT ![t] = "waiting"], [pc EXCEPT ![t] = "done"]} /\ UNCHANGED <<cur, result>>
    <3>1. pc[t] \in {"writing", "stopping"} /\ pc'[t] \in {"waiting", "done"} /\ pc' = [pc EXCEPT ![t] = pc'[t]]
      BY <1>0, <1>9, <2>2 DEF WriteFinished, StopWaited
    <3> QED
      BY <1>1, <1>5, <2>1, <2>2, <3>1
  <2> QED
    BY <1>4, <1>9, <2>1, <2>2 DEF WriteFinished, StopWaited
<1>10. CASE WaitDisconnected(t) \/ WaitCompleted(t) \/ WaitTimedOut(t)
  <2>1. PICK rc \in {"SUCCESS", "DISCONNECTED", "FAILURE"} : ReturnFromWait(t, rc) /\ pc[t] = "waiting"
    BY <1>10 DEF WaitDisconnected, WaitCompleted, WaitTimedOut
  <2>2. /\ pc' = [pc EXCEPT ![t] = "idle"] /\ cur' = [cur EXCEPT ![t] = NoMsg]
        /\ result' = [result EXCEPT ![cur[t]] = rc]
        /\ UNCHANGED <<writing, toBroker, toClient, received, socket, connected>>
    BY <2>1 DEF ReturnFromWait, clientVars, netVars, brokerVars
  <2>3. \A u \in Thread : pc'[u] \in {"idle", "draining"} => cur'[u] = NoMsg
    BY <1>0, <2>2 DEF CallInv
  <2>4. ASSUME NEW u \in Thread, InCall(u)'
        PROVE  InCall(u) /\ cur'[u] = cur[u] /\ result'[cur[u]] = result[cur[u]]
    <3>1. u # t /\ InCall(u) /\ cur'[u] = cur[u]
      BY <1>0, <2>2, <2>4 DEF InCall
    <3>2. cur[u] # cur[t] /\ cur[u] \in Msg
      BY <1>2, <2>1, <3>1 DEF CallInv
    <3> QED
      BY <1>0, <2>2, <3>1, <3>2
  <2>5. \A m \in Msg : result[m] # "new" => result'[m] # "new"
    BY <1>0, <2>2
  <2> QED
    BY <1>1, <2>2, <2>3, <2>4, <2>5, CallsKeep
<1>11. CASE PublishRefused(t)
  BY <1>4, <1>11 DEF PublishRefused, clientVars, netVars, brokerVars
<1> QED
  BY <1>3, <1>6, <1>7, <1>8, <1>9, <1>10, <1>11 DEF AppStep, Proceed

LEMMA CallInvariant == Spec => []CallInv
<1>1. TypeOK /\ CallInv /\ [Next]_vars => CallInv'
  BY AppStepCalls, OtherStepCalls DEF Next, Terminated
<1> QED
  BY <1>1, CallInit, TypeCorrect, PTL DEF Spec

-----------------------------------------------------------------------------
(* The refinement *)

\* How far a message has come, and what its call answered.
PhaseOf(m) == IF qos[m] = 0 \/ result[m] = "new" THEN "new"
              ELSE IF m \in confirmed THEN "confirmed"
              ELSE IF m \in received THEN "received" ELSE "accepted"
OutcomeOf(m) == IF qos[m] = 0 \/ result[m] \in {"new", "called"} THEN "none" ELSE result[m]

LEMMA Bars == phaseBar = [m \in Msg |-> PhaseOf(m)] /\ outcomeBar = [m \in Msg |-> OutcomeOf(m)]
  BY DEF phaseBar, outcomeBar, PhaseOf, OutcomeOf

LEMMA PromiseInit == Init => Promise!Init
<1> SUFFICES ASSUME Init PROVE Promise!Init
  OBVIOUS
<1>1. phaseBar = [m \in Msg |-> "new"] /\ outcomeBar = [m \in Msg |-> "none"]
  BY DEF Init, phaseBar, outcomeBar
<1> QED
  BY <1>1 DEF Promise!Init, Init

\* Nothing the promise speaks of changes but, perhaps, that the session closes.
LEMMA PromiseIdle ==
  ASSUME qos' = qos,
         \A m \in Msg : PhaseOf(m)' = PhaseOf(m) /\ OutcomeOf(m)' = OutcomeOf(m),
         connected' = connected \/ (connected = TRUE /\ connected' = FALSE)
  PROVE  [Promise!Next]_(Promise!vars)
<1>1. UNCHANGED <<phaseBar, outcomeBar>>
  <2>1. phaseBar' = [m \in Msg |-> PhaseOf(m)'] /\ outcomeBar' = [m \in Msg |-> OutcomeOf(m)']
    BY Bars DEF phaseBar, outcomeBar, PhaseOf, OutcomeOf
  <2> QED
    BY <2>1, Bars
<1> QED
  BY <1>1 DEF Promise!Next, Promise!Close, Promise!vars

\* One message comes further.
LEMMA PromisePhase ==
  ASSUME qos' = qos, NEW m \in Msg,
         \A n \in Msg \ {m} : PhaseOf(n)' = PhaseOf(n),
         \A n \in Msg : OutcomeOf(n)' = OutcomeOf(n),
         \/ PhaseOf(m) = "new" /\ PhaseOf(m)' = "accepted" /\ connected' = connected
         \/ PhaseOf(m) = "accepted" /\ PhaseOf(m)' = "received" /\ connected' = connected
         \/ PhaseOf(m) = "received" /\ PhaseOf(m)' = "confirmed" /\ connected = TRUE /\ connected' \in BOOLEAN
  PROVE  [Promise!Next]_(Promise!vars)
<1>1. phaseBar' = [phaseBar EXCEPT ![m] = PhaseOf(m)'] /\ phaseBar[m] = PhaseOf(m) /\ UNCHANGED outcomeBar
  <2>1. phaseBar' = [n \in Msg |-> PhaseOf(n)'] /\ outcomeBar' = [n \in Msg |-> OutcomeOf(n)']
    BY DEF phaseBar, outcomeBar, PhaseOf, OutcomeOf
  <2> QED
    BY <2>1, Bars
<1> QED
  BY <1>1 DEF Promise!Next, Promise!Accept, Promise!Receive, Promise!Confirm, Promise!Move

\* One call answers.
LEMMA PromiseAnswer ==
  ASSUME qos' = qos, NEW m \in Msg, connected' = connected,
         \A n \in Msg : PhaseOf(n)' = PhaseOf(n),
         \A n \in Msg \ {m} : OutcomeOf(n)' = OutcomeOf(n),
         PhaseOf(m) # "new", OutcomeOf(m) = "none",
         OutcomeOf(m)' \in {"SUCCESS", "DISCONNECTED", "FAILURE", "refused"},
         OutcomeOf(m)' = "SUCCESS" => connected /\ PhaseOf(m) = "confirmed",
         OutcomeOf(m)' \in {"DISCONNECTED", "refused"} => ~connected
  PROVE  [Promise!Next]_(Promise!vars)
<1>1. /\ outcomeBar' = [outcomeBar EXCEPT ![m] = OutcomeOf(m)']
      /\ phaseBar[m] = PhaseOf(m) /\ outcomeBar[m] = OutcomeOf(m) /\ UNCHANGED phaseBar
  <2>1. phaseBar' = [n \in Msg |-> PhaseOf(n)'] /\ outcomeBar' = [n \in Msg |-> OutcomeOf(n)']
    BY DEF phaseBar, outcomeBar, PhaseOf, OutcomeOf
  <2> QED
    BY <2>1, Bars
<1> QED
  BY <1>1 DEF Promise!Next, Promise!Answer, Promise!Outcome

\* What the steps below have in common: results and phases that stay.
LEMMA PhasesStay ==
  ASSUME UNCHANGED <<qos, result, received, confirmed>>,
         connected' = connected \/ (connected = TRUE /\ connected' = FALSE)
  PROVE  [Promise!Next]_(Promise!vars)
<1>1. \A m \in Msg : PhaseOf(m)' = PhaseOf(m) /\ OutcomeOf(m)' = OutcomeOf(m)
  BY DEF PhaseOf, OutcomeOf
<1> QED
  BY <1>1, PromiseIdle

\* The broker takes a publication.
LEMMA BrokerReceives ==
  ASSUME NEW m \in Msg, result[m] # "new", confirmed \subseteq received,
         received' = received \cup {m}, UNCHANGED <<qos, result, confirmed, connected>>
  PROVE  [Promise!Next]_(Promise!vars)
<1>1. \A n \in Msg : OutcomeOf(n)' = OutcomeOf(n)
  BY DEF OutcomeOf
<1>2. \A n \in Msg \ {m} : PhaseOf(n)' = PhaseOf(n)
  BY DEF PhaseOf
<1>3. CASE m \in received \/ qos[m] = 0
  <2>1. PhaseOf(m)' = PhaseOf(m)
    BY <1>3 DEF PhaseOf
  <2> QED
    BY <1>1, <1>2, <2>1, PromiseIdle
<1>4. CASE m \notin received /\ qos[m] # 0
  <2>1. PhaseOf(m) = "accepted" /\ PhaseOf(m)' = "received"
    BY <1>4 DEF PhaseOf
  <2> QED
    BY <1>1, <1>2, <2>1, PromisePhase
<1> QED
  BY <1>3, <1>4

\* deliveryComplete is called; the same step may close the session.
LEMMA DeliveryConfirmed ==
  ASSUME NEW m \in Msg, result[m] # "new", m \in received, connected = TRUE, connected' \in BOOLEAN,
         confirmed' = confirmed \cup {m}, UNCHANGED <<qos, result, received>>
  PROVE  [Promise!Next]_(Promise!vars)
<1>1. \A n \in Msg : OutcomeOf(n)' = OutcomeOf(n)
  BY DEF OutcomeOf
<1>2. \A n \in Msg \ {m} : PhaseOf(n)' = PhaseOf(n)
  BY DEF PhaseOf
<1>3. CASE m \in confirmed \/ qos[m] = 0
  <2>1. PhaseOf(m)' = PhaseOf(m)
    BY <1>3 DEF PhaseOf
  <2> QED
    BY <1>1, <1>2, <2>1, PromiseIdle
<1>4. CASE m \notin confirmed /\ qos[m] # 0
  <2>1. PhaseOf(m) = "received" /\ PhaseOf(m)' = "confirmed"
    BY <1>4 DEF PhaseOf
  <2> QED
    BY <1>1, <1>2, <2>1, PromisePhase
<1> QED
  BY <1>3, <1>4

\* A call answers.
LEMMA CallAnswers ==
  ASSUME NEW m \in Msg, result[m] = "called",
         result \in [Msg -> {"new", "called", "refused", "SUCCESS", "DISCONNECTED", "FAILURE"}],
         NEW rc \in {"SUCCESS", "DISCONNECTED", "FAILURE", "refused"},
         result' = [result EXCEPT ![m] = rc],
         qos[m] # 0 /\ rc = "SUCCESS" => connected /\ m \in confirmed,
         qos[m] # 0 /\ rc \in {"DISCONNECTED", "refused"} => ~connected,
         UNCHANGED <<qos, received, confirmed, connected>>
  PROVE  [Promise!Next]_(Promise!vars)
<1>1. result'[m] = rc /\ \A n \in Msg \ {m} : result'[n] = result[n]
  OBVIOUS
<1>2. \A n \in Msg : PhaseOf(n)' = PhaseOf(n)
  BY <1>1 DEF PhaseOf
<1>3. \A n \in Msg \ {m} : OutcomeOf(n)' = OutcomeOf(n)
  BY <1>1 DEF OutcomeOf
<1>4. CASE qos[m] = 0
  <2>1. OutcomeOf(m)' = OutcomeOf(m)
    BY <1>4 DEF OutcomeOf
  <2> QED
    BY <1>2, <1>3, <2>1, PromiseIdle
<1>5. CASE qos[m] # 0
  <2>1. OutcomeOf(m) = "none" /\ OutcomeOf(m)' = rc /\ PhaseOf(m) # "new"
    BY <1>1, <1>5 DEF OutcomeOf, PhaseOf
  <2>2. rc = "SUCCESS" => connected /\ PhaseOf(m) = "confirmed"
    BY <1>5 DEF PhaseOf
  <2>3. OutcomeOf(m)' \in {"SUCCESS", "DISCONNECTED", "FAILURE", "refused"}
    BY <2>1
  <2>4. OutcomeOf(m)' = "SUCCESS" => connected /\ PhaseOf(m) = "confirmed"
    BY <2>1, <2>2
  <2>5. OutcomeOf(m)' \in {"DISCONNECTED", "refused"} => ~connected
    BY <1>5, <2>1
  <2> QED
    BY <1>2, <1>3, <2>1, <2>3, <2>4, <2>5, PromiseAnswer
<1> QED
  BY <1>4, <1>5

-----------------------------------------------------------------------------
(* Every step *)

PromiseSafe == TypeOK /\ HonestInv /\ CallerInv /\ CallInv

LEMMA AppStepPromise ==
  ASSUME PromiseSafe, NEW t \in Thread, AppStep(t)
  PROVE  [Promise!Next]_(Promise!vars)
<1>0. /\ connected \in BOOLEAN /\ qos \in [Msg -> 0..2] /\ confirmed \subseteq received
      /\ result \in [Msg -> {"new", "called", "refused", "SUCCESS", "DISCONNECTED", "FAILURE"}]
  BY DEF PromiseSafe, TypeOK, ClientTypeOK, AppTypeOK, HonestInv, BrokerKnows
<1>1. pc[t] \in {"publishing", "blocked", "writing", "waiting"} =>
         cur[t] \in Msg /\ result[cur[t]] = "called"
  <2>1. NoMsg \notin Msg
    BY SessionAssumption
  <2> QED
    BY <2>1 DEF InCall, PromiseSafe, TypeOK, CallTypeOK, CallInv
<1>2. ASSUME NEW m \in Msg, Call(t, m) PROVE [Promise!Next]_(Promise!vars)
  <2>1. /\ result[m] = "new" /\ result' = [result EXCEPT ![m] = "called"]
        /\ UNCHANGED <<qos, connected, received, confirmed>>
    BY <1>2 DEF Call, Fresh, clientVars, brokerVars, cbVars
  <2>2. m \notin received /\ m \notin confirmed
    BY <1>0, <2>1 DEF PromiseSafe, CallInv
  <2>3. result'[m] = "called" /\ \A n \in Msg \ {m} : result'[n] = result[n]
    BY <1>0, <2>1
  <2>4. \A n \in Msg : OutcomeOf(n)' = OutcomeOf(n)
    BY <2>1, <2>3 DEF OutcomeOf
  <2>5. \A n \in Msg \ {m} : PhaseOf(n)' = PhaseOf(n)
    BY <2>1, <2>3 DEF PhaseOf
  <2>6. CASE qos[m] = 0
    <3>1. PhaseOf(m)' = PhaseOf(m)
      BY <2>1, <2>6 DEF PhaseOf
    <3> QED
      BY <2>1, <2>4, <2>5, <3>1, PromiseIdle
  <2>7. CASE qos[m] # 0
    <3>1. PhaseOf(m) = "new" /\ PhaseOf(m)' = "accepted"
      BY <2>1, <2>2, <2>3, <2>7 DEF PhaseOf
    <3> QED
      BY <2>1, <2>4, <2>5, <3>1, PromisePhase
  <2> QED
    BY <2>6, <2>7
<1>3. ASSUME ExitProcess(t), pc[t] \in {"publishing", "blocked", "writing", "waiting"},
             qos[cur[t]] # 0 => ~connected, UNCHANGED <<connected, received, confirmed>>
      PROVE  [Promise!Next]_(Promise!vars)
  <2>1. result' = [result EXCEPT ![cur[t]] = "refused"] /\ qos' = qos
    BY <1>3 DEF ExitProcess
  <2> QED
    BY <1>0, <1>1, <1>3, <2>1, CallAnswers
<1>4. CASE PublishRefused(t)
  <2>1. /\ ExitProcess(t) /\ pc[t] \in {"publishing", "blocked"} /\ ~connected
        /\ UNCHANGED <<connected, received, confirmed>>
    BY <1>4 DEF PublishRefused, clientVars, brokerVars, cbVars
  <2> QED
    BY <1>3, <2>1
<1>5. CASE PublishBlocks(t) \/ DisconnectStart(t) \/ PublishSent(t) \/ PublishInterrupted(t)
  <2>1. UNCHANGED <<qos, result, received, confirmed, connected>>
    BY <1>5 DEF PublishBlocks, DisconnectStart, PublishSent, PublishInterrupted, StoreMessage,
                clientVars, brokerVars, cbVars
  <2> QED
    BY <2>1, PhasesStay
<1>6. CASE PublishError(t) \/ DisconnectClosed(t) \/ DisconnectDrained(t) \/ DisconnectTimedOut(t)
  <2>1. UNCHANGED <<qos, result, received, confirmed>> /\ connected' = FALSE
    BY <1>6 DEF PublishError, DisconnectClosed, DisconnectDrained, DisconnectTimedOut,
                DisconnectClose, CloseSession, brokerVars, cbVars
  <2> QED
    BY <1>0, <2>1, PhasesStay
<1>7. CASE WriteFinished(t)
  <2>1. /\ pc[t] = "writing" /\ UNCHANGED <<connected, received, confirmed>>
        /\ \/ UNCHANGED <<qos, result>>
           \/ ExitProcess(t) /\ ~(qos[cur[t]] > 0)
    BY <1>7 DEF WriteFinished, clientVars, brokerVars, cbVars
  <2>2. cur[t] \in Msg /\ qos[cur[t]] \in 0..2
    BY <1>0, <1>1, <2>1
  <2> QED
    BY <1>3, <2>1, <2>2, PhasesStay
<1>8. CASE StopWaited(t)
  <2>1. /\ pc[t] = "stopping" /\ UNCHANGED <<connected, received, confirmed>>
        /\ \/ UNCHANGED <<qos, result>>
           \/ ExitProcess(t) /\ cur[t] # NoMsg /\ ~(qos[cur[t]] > 0)
    BY <1>8 DEF StopWaited, clientVars, brokerVars, cbVars
  <2>2. ASSUME ExitProcess(t), cur[t] # NoMsg, ~(qos[cur[t]] > 0)
        PROVE  [Promise!Next]_(Promise!vars)
    <3>1. cur[t] \in Msg /\ result[cur[t]] = "called"
      BY <2>1, <2>2 DEF PromiseSafe, CallInv, InCall
    <3>2. qos[cur[t]] = 0
      BY <1>0, <2>2, <3>1
    <3>3. result' = [result EXCEPT ![cur[t]] = "refused"] /\ qos' = qos
      BY <2>2 DEF ExitProcess
    <3> QED
      BY <1>0, <2>1, <3>1, <3>2, <3>3, CallAnswers
  <2> QED
    BY <2>1, <2>2, PhasesStay
<1>9. CASE WaitDisconnected(t) \/ WaitCompleted(t) \/ WaitTimedOut(t)
  <2>1. PICK rc \in {"SUCCESS", "DISCONNECTED", "FAILURE"} :
           /\ ReturnFromWait(t, rc) /\ pc[t] = "waiting"
           /\ rc = "SUCCESS" => WaitCompleted(t)
           /\ rc = "DISCONNECTED" => ~connected
    BY <1>9 DEF WaitDisconnected, WaitCompleted, WaitTimedOut
  <2>2. result' = [result EXCEPT ![cur[t]] = rc] /\ UNCHANGED <<qos, connected, received, confirmed>>
    BY <2>1 DEF ReturnFromWait, clientVars, brokerVars, cbVars
  <2>3. ASSUME qos[cur[t]] # 0, rc = "SUCCESS" PROVE connected /\ cur[t] \in confirmed
    <3>1. connected /\ token[t] \notin IdsInUse /\ qos[cur[t]] > 0
      BY <1>0, <1>1, <2>1, <2>3 DEF WaitCompleted
    <3>2. ~ HasEntryAs(cur[t], token[t])
      BY <3>1 DEF HasEntryAs, IdsInUse
    <3> QED
      BY <2>1, <3>1, <3>2 DEF PromiseSafe, CallerInv, CallerOK
  <2> QED
    BY <1>0, <1>1, <2>1, <2>2, <2>3, CallAnswers
<1> QED
  BY <1>2, <1>4, <1>5, <1>6, <1>7, <1>8, <1>9 DEF AppStep, Proceed

LEMMA OtherStepPromise ==
  ASSUME PromiseSafe, RunStep \/ BrokerStep \/ NetworkFails \/ TcpGivesUp \/ UNCHANGED vars
  PROVE  [Promise!Next]_(Promise!vars)
<1>0. /\ connected \in BOOLEAN /\ confirmed \subseteq received
      /\ toBroker \in Seq(Packet) /\ toClient \in Seq(Packet)
  BY DEF PromiseSafe, TypeOK, ClientTypeOK, NetTypeOK, HonestInv, BrokerKnows
<1>1. Known(PacketsOf(toBroker)) /\ Known(PacketsOf(toClient))
  BY AllKnown DEF PromiseSafe
<1>2. CASE CycleIdle \/ CycleReadError \/ HandlePubrec
  <2>1. PICK out, tb, wr, tc, rc : EndCycle(out, tb, wr, tc, rc) /\ UNCHANGED confirmed
    BY <1>2, PubrecCycle DEF CycleIdle, CycleReadError, HandlePubrec
  <2>2. /\ UNCHANGED <<qos, result, received, confirmed>>
        /\ connected' = connected \/ connected' = FALSE
    BY <2>1, EndCycleCases DEF CloseSession, appVars, brokerVars
  <2> QED
    BY <1>0, <2>2, PhasesStay
<1>3. CASE HandlePuback \/ HandlePubcomp
  <2> DEFINE p == Head(toClient)
  <2>1. PICK out, tb, wr, tc, rc : EndCycle(out, tb, wr, tc, rc) /\ confirmed' = confirmed \cup {p.msg}
    BY <1>3 DEF HandlePuback, HandlePubcomp
  <2>2. toClient # <<>> /\ socket = Fd
    BY <1>3 DEF HandlePuback, HandlePubcomp, Reading
  <2>3. p \in PacketsOf(toClient)
    BY <1>0, <2>2, TailChannel
  <2>4. p.msg \in Msg /\ result[p.msg] # "new" /\ p.msg \in received
    BY <1>1, <2>3 DEF Known, PromiseSafe, HonestInv, BrokerKnows, Seen
  <2>5. connected = TRUE
    BY <1>0, <2>2 DEF PromiseSafe, CallInv
  <2>6. /\ UNCHANGED <<qos, result, received>>
        /\ connected' = connected \/ connected' = FALSE
    BY <2>1, EndCycleCases DEF CloseSession, appVars, brokerVars
  <2>7. connected' \in BOOLEAN
    BY <1>0, <2>6
  <2> HIDE DEF p
  <2> QED
    BY <2>1, <2>4, <2>5, <2>6, <2>7, DeliveryConfirmed
<1>4. CASE RunLosesConnection
  <2>1. UNCHANGED <<qos, result, received, confirmed>> /\ connected' = FALSE
    BY <1>4 DEF RunLosesConnection, LoseConnection, CloseSession, appVars, brokerVars
  <2> QED
    BY <1>0, <2>1, PhasesStay
<1>5. CASE \/ RunSelect \/ ContinueWrite \/ RunStops \/ RunGoesOn
           \/ NetworkFails \/ TcpGivesUp \/ UNCHANGED vars
  <2>1. UNCHANGED <<qos, result, received, confirmed, connected>>
    BY <1>5 DEF RunSelect, ContinueWrite, RunStops, RunGoesOn, NetworkFails, TcpGivesUp,
                vars, clientVars, brokerVars, appVars, cbVars
  <2> QED
    BY <2>1, PhasesStay
<1>6. ASSUME NEW i \in 1..Len(toBroker), BrokerTakes(i) PROVE [Promise!Next]_(Promise!vars)
  <2>1. PICK p : p = toBroker[i] /\ p \in PacketsOf(toBroker)
    BY DEF PacketsOf
  <2>2. p.msg \in Msg /\ result[p.msg] # "new"
    BY <1>1, <2>1 DEF Known
  <2>3. /\ UNCHANGED <<qos, result, confirmed, connected>>
        /\ received' = received \/ received' = received \cup {p.msg}
    BY <1>6, <2>1 DEF BrokerTakes, clientVars, appVars, cbVars
  <2> QED
    BY <1>0, <2>2, <2>3, BrokerReceives, PhasesStay
<1> QED
  BY <1>2, <1>3, <1>4, <1>5, <1>6 DEF RunStep, BrokerStep

LEMMA PromiseStep == PromiseSafe /\ [Next]_vars => [Promise!Next]_(Promise!vars)
  BY AppStepPromise, OtherStepPromise DEF Next, Terminated

\* Whatever the threads, the network, the kernel and the broker do, a publication at
\* QoS 1 or 2 goes from handed over to received to confirmed, each at most once and
\* in that order, and its call answers once, with SUCCESS only after the confirmation
\* and with a lost connection only when it is lost: the session implements
\* DeliveryPromise.
THEOREM KeepsThePromise == Spec => KeepsPromise
<1>1. PromiseSafe /\ [Next]_vars => [Promise!Next]_(Promise!vars)
  BY PromiseStep
<1>2. Spec => []PromiseSafe
  BY TypeCorrect, HonestInvariant, CallerInvariant, CallInvariant, PTL DEF PromiseSafe
<1> QED
  BY <1>1, <1>2, PromiseInit, PTL DEF Spec, KeepsPromise, Promise!Spec
=============================================================================
