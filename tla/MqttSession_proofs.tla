------------------------- MODULE MqttSession_proofs -------------------------
(* Theorems about MqttSession, for every set of threads and messages, every *)
(* window and every size of the id space.                                   *)
EXTENDS MqttSession, FiniteSetTheorems, SequenceTheorems, WellFoundedInduction, TLAPS

\* The state of a new connection is well typed.
LEMMA TypeInit == Init => TypeOK
<1> SUFFICES ASSUME Init PROVE TypeOK
  OBVIOUS
<1>1. ClientTypeOK
  BY SessionAssumption DEF Init, ClientTypeOK, Fd, Token
<1>2. NetTypeOK
  BY DEF Init, NetTypeOK
<1>3. AppTypeOK
  <2>1. pc \in [Thread -> Pc]
    BY DEF Init, Pc
  <2>2. cur \in [Thread -> Msg \cup {NoMsg}]
    BY DEF Init
  <2>3. token \in [Thread -> Token]
    BY SessionAssumption DEF Init, Token
  <2>4. qos \in [Msg -> 0..2]
    BY SessionAssumption DEF Init
  <2>5. result \in [Msg -> {"new", "called", "refused", "SUCCESS", "DISCONNECTED", "FAILURE"}]
    BY DEF Init
  <2> QED
    BY <2>1, <2>2, <2>3, <2>4, <2>5 DEF AppTypeOK
<1>4. RunTypeOK
  BY DEF Init, RunTypeOK, Fd
<1>5. CallTypeOK
  BY DEF Init, CallTypeOK
<1> QED
  BY <1>1, <1>2, <1>3, <1>4, <1>5 DEF TypeOK

-----------------------------------------------------------------------------
(* Lemmas about the operators the actions are built from *)

\* The ids a publication may take: 0 at QoS 0, else an id nobody uses.
LEMMA IdsForType ==
  ASSUME AppTypeOK, NEW m \in Msg, NEW id \in IdsFor(m)
  PROVE  /\ id \in Token
         /\ qos[m] > 0 => id \in MsgId /\ id \notin IdsInUse
<1>1. qos[m] \in 0..2
  BY DEF AppTypeOK
<1>2. CASE qos[m] > 0
  BY <1>1, <1>2, SessionAssumption DEF IdsFor, AssignMsgId, FreeIds, MsgId, Token
<1>3. CASE ~ (qos[m] > 0)
  BY <1>1, <1>3, SessionAssumption DEF IdsFor, Token
<1> QED
  BY <1>2, <1>3

\* The entry and the packet made for a publication are well typed.
LEMMA PublishType ==
  ASSUME AppTypeOK, NEW m \in Msg, NEW id \in IdsFor(m)
  PROVE  /\ PublishPacket(m, id) \in Packet
         /\ qos[m] > 0 => NewEntry(m, id) \in Message
<1>1. qos[m] \in 0..2
  BY DEF AppTypeOK
<1>2. id \in Token /\ (qos[m] > 0 => id \in MsgId)
  BY IdsForType
<1>3. PublishPacket(m, id) \in Packet
  BY <1>1, <1>2 DEF PublishPacket, Packet
<1>4. ASSUME qos[m] > 0 PROVE NewEntry(m, id) \in Message
  <2>1. qos[m] \in 1..2
    BY <1>1, <1>4
  <2> QED
    BY <2>1, <1>2, <1>4 DEF NewEntry, Message
<1> QED
  BY <1>3, <1>4

\* An answer to a packet is a packet.
LEMMA ReplyType ==
  ASSUME NEW p \in Packet,
         NEW t \in {"PUBLISH", "PUBACK", "PUBREC", "PUBREL", "PUBCOMP"}
  PROVE  Reply(p, t) \in Packet
  BY DEF Reply, Packet

\* The packets at the ends of a channel.
LEMMA PacketSeq ==
  ASSUME NEW q \in Seq(Packet)
  PROVE  /\ q # <<>> => /\ Head(q) \in Packet /\ Head(q).id \in Token /\ Head(q).msg \in Msg
                        /\ Tail(q) \in Seq(Packet)
         /\ \A p \in Packet : Append(q, p) \in Seq(Packet)
<1>1. q # <<>> => Head(q) \in Packet /\ Tail(q) \in Seq(Packet)
  OBVIOUS
<1>2. \A p \in Packet : p.id \in Token /\ p.msg \in Msg
  BY DEF Packet
<1>3. \A p \in Packet : Append(q, p) \in Seq(Packet)
  OBVIOUS
<1> QED
  BY <1>1, <1>2, <1>3

\* A channel from which one packet was taken.
LEMMA WithoutType ==
  ASSUME NEW q \in Seq(Packet), NEW i \in 1..Len(q)
  PROVE  SubSeq(q, 1, i - 1) \o SubSeq(q, i + 1, Len(q)) \in Seq(Packet)
<1>1. i \in Nat /\ 1 <= i /\ i <= Len(q) /\ Len(q) \in Nat
  OBVIOUS
<1>2. SubSeq(q, 1, i - 1) \in Seq(Packet)
  <2>1. 1 \in Int /\ i - 1 \in Int /\ \A j \in 1..(i - 1) : q[j] \in Packet
    BY <1>1
  <2> QED
    BY <2>1, SubSeqProperties, SMT
<1>3. SubSeq(q, i + 1, Len(q)) \in Seq(Packet)
  <2>1. i + 1 \in Int /\ Len(q) \in Int /\ \A j \in (i + 1)..Len(q) : q[j] \in Packet
    BY <1>1
  <2> QED
    BY <2>1, SubSeqProperties, SMT
<1> QED
  BY <1>2, <1>3, ConcatProperties

\* What has been sent is a sequence of packets.
LEMMA SentType ==
  ASSUME NetTypeOK, NEW p \in Packet
  PROVE  Sent(p) \in Seq(Packet)
  BY DEF Sent, NetTypeOK

\* A closed session is well typed.
LEMMA CloseType ==
  ASSUME TypeOK, CloseSession, toBroker' \in Seq(Packet), UNCHANGED <<network, brokerVars>>
  PROVE  ClientTypeOK' /\ NetTypeOK'
<1>1. 0 \in Token
  BY SessionAssumption DEF Token
<1>2. ClientTypeOK'
  BY <1>1 DEF CloseSession, ClientTypeOK
<1>3. NetTypeOK'
  BY DEF TypeOK, NetTypeOK, CloseSession, brokerVars
<1> QED
  BY <1>2, <1>3

\* Ending the process keeps the callers well typed.
LEMMA ExitType ==
  ASSUME TypeOK, NEW t \in Thread, ExitProcess(t)
  PROVE  AppTypeOK' /\ CallTypeOK' /\ runPc' \in {"select", "cycle", "after", "dead"}
  BY DEF TypeOK, AppTypeOK, CallTypeOK, ExitProcess, Pc

\* The end of a cycle is well typed when what the handler left is.
LEMMA EndCycleType ==
  ASSUME TypeOK,
         NEW out \in SUBSET Message, NEW tb \in Seq(Packet), NEW tc \in Seq(Packet),
         NEW wr \in Seq(Packet), Len(wr) <= 1, NEW rc \in {"ok", "error"},
         EndCycle(out, tb, wr, tc, rc), confirmed' \subseteq Msg
  PROVE  TypeOK'
<1>1. AppTypeOK' /\ CallTypeOK'
  BY DEF TypeOK, AppTypeOK, CallTypeOK, EndCycle, appVars
<1>2. CASE /\ outboundMsgs' = out /\ toBroker' = tb /\ writing' = wr /\ toClient' = tc
           /\ UNCHANGED <<connected, connect_state, socket, msgID, stopVars, lost>>
  <2>1. ClientTypeOK'
    BY <1>2 DEF TypeOK, ClientTypeOK
  <2>2. NetTypeOK'
    BY <1>2 DEF TypeOK, NetTypeOK, EndCycle, brokerVars
  <2>3. RunTypeOK'
    BY <1>2 DEF TypeOK, RunTypeOK, EndCycle, stopVars
  <2> QED
    BY <1>1, <2>1, <2>2, <2>3 DEF TypeOK
<1>3. CASE LoseConnection /\ StopThread
  <2>1. ClientTypeOK' /\ NetTypeOK'
    BY <1>3, CloseType DEF LoseConnection, EndCycle
  <2>2. RunTypeOK'
    BY <1>3 DEF TypeOK, RunTypeOK, EndCycle, LoseConnection, StopThread
  <2> QED
    BY <1>1, <2>1, <2>2 DEF TypeOK
<1> QED
  BY <1>2, <1>3 DEF EndCycle

-----------------------------------------------------------------------------
(* Type correctness: one lemma per group of actions *)

\* What mqtt_publish does up to the call of waitForCompletion.
LEMMA PublishStepType ==
  ASSUME TypeOK, NEW t \in Thread,
         \/ PublishRefused(t) \/ PublishBlocks(t) \/ PublishSent(t)
         \/ PublishInterrupted(t) \/ PublishError(t) \/ WriteFinished(t)
  PROVE  TypeOK'
<1> USE DEF TypeOK
<1>1. CASE PublishRefused(t)
  <2>1. AppTypeOK' /\ CallTypeOK' /\ runPc' \in {"select", "cycle", "after", "dead"}
    BY <1>1, ExitType DEF PublishRefused
  <2>2. ClientTypeOK' /\ NetTypeOK' /\ RunTypeOK'
    BY <1>1, <2>1 DEF PublishRefused, ClientTypeOK, NetTypeOK, RunTypeOK,
                 clientVars, netVars, brokerVars, stopVars, cbVars
  <2> QED
    BY <2>1, <2>2
<1>2. CASE PublishBlocks(t)
  <2>1. AppTypeOK' /\ CallTypeOK'
    BY <1>2 DEF PublishBlocks, AppTypeOK, CallTypeOK, Pc
  <2>2. ClientTypeOK' /\ NetTypeOK' /\ RunTypeOK'
    BY <1>2 DEF PublishBlocks, ClientTypeOK, NetTypeOK, RunTypeOK,
                 clientVars, netVars, brokerVars, runVars, stopVars, cbVars
  <2> QED
    BY <2>1, <2>2
<1>3. CASE PublishSent(t)
  <2>1. cur[t] \in Msg
    BY <1>3 DEF PublishSent, CanStart, CallTypeOK
  <2>2. PICK id \in IdsFor(cur[t]) :
           /\ StoreMessage(cur[t], id)
           /\ toBroker' = Sent(PublishPacket(cur[t], id))
           /\ ReturnToken(t, {id})
           /\ pc' = [pc EXCEPT ![t] = "waiting"]
           /\ UNCHANGED <<writing, toClient, network, brokerVars, cur, qos, result,
                          runVars, stopVars, cbVars>>
    BY <1>3 DEF PublishSent
  <2>3. id \in Token /\ (qos[cur[t]] > 0 => id \in MsgId)
    BY <2>1, IdsForType
  <2>4. PublishPacket(cur[t], id) \in Packet /\ (qos[cur[t]] > 0 => NewEntry(cur[t], id) \in Message)
    BY <2>1, PublishType
  <2>5. ClientTypeOK'
    BY <2>2, <2>3, <2>4 DEF ClientTypeOK, StoreMessage
  <2>6. NetTypeOK'
    BY <2>2, <2>4, SentType DEF NetTypeOK, brokerVars
  <2>7. AppTypeOK' /\ CallTypeOK'
    BY <2>1, <2>2, <2>3 DEF AppTypeOK, CallTypeOK, ReturnToken, Pc
  <2>8. RunTypeOK'
    BY <2>2 DEF RunTypeOK, runVars, stopVars, cbVars
  <2> QED
    BY <2>5, <2>6, <2>7, <2>8
<1>4. CASE PublishInterrupted(t)
  <2>1. cur[t] \in Msg
    BY <1>4 DEF PublishInterrupted, CanStart, CallTypeOK
  <2>2. PICK id \in IdsFor(cur[t]) :
           /\ StoreMessage(cur[t], id)
           /\ writing' = <<PublishPacket(cur[t], id)>>
           /\ pc' = [pc EXCEPT ![t] = "writing"]
           /\ UNCHANGED <<toBroker, toClient, network, brokerVars, cur, token, qos,
                          result, runVars, stopVars, cbVars>>
    BY <1>4 DEF PublishInterrupted
  <2>3. id \in Token /\ (qos[cur[t]] > 0 => id \in MsgId)
    BY <2>1, IdsForType
  <2>4. PublishPacket(cur[t], id) \in Packet /\ (qos[cur[t]] > 0 => NewEntry(cur[t], id) \in Message)
    BY <2>1, PublishType
  <2>5. ClientTypeOK'
    BY <2>2, <2>3, <2>4 DEF ClientTypeOK, StoreMessage
  <2>6. NetTypeOK'
    BY <2>2, <2>4 DEF NetTypeOK, brokerVars
  <2>7. AppTypeOK' /\ CallTypeOK'
    BY <2>1, <2>2 DEF AppTypeOK, CallTypeOK, Pc
  <2>8. RunTypeOK'
    BY <2>2 DEF RunTypeOK, runVars, stopVars, cbVars
  <2> QED
    BY <2>5, <2>6, <2>7, <2>8
<1>5. CASE PublishError(t)
  <2>1. cur[t] \in Msg
    BY <1>5 DEF PublishError, CanStart, CallTypeOK
  <2>2. PICK id \in IdsFor(cur[t]) :
           /\ CloseSession /\ StopThread
           /\ token' = [token EXCEPT ![t] = id]
           /\ pc' = [pc EXCEPT ![t] = "stopping"]
           /\ UNCHANGED <<toBroker, network, brokerVars, cur, qos, result,
                          runVars, cbVars>>
    BY <1>5 DEF PublishError
  <2>3. id \in Token
    BY <2>1, IdsForType
  <2>4. ClientTypeOK' /\ NetTypeOK'
    BY <2>2, CloseType DEF TypeOK, NetTypeOK
  <2>5. AppTypeOK' /\ CallTypeOK'
    BY <2>2, <2>3 DEF AppTypeOK, CallTypeOK, Pc
  <2>6. RunTypeOK'
    BY <2>2 DEF RunTypeOK, StopThread, runVars, cbVars
  <2> QED
    BY <2>4, <2>5, <2>6
<1>6. CASE WriteFinished(t)
  <2>1. ClientTypeOK' /\ NetTypeOK'
    BY <1>6 DEF WriteFinished, ClientTypeOK, NetTypeOK, clientVars, netVars, brokerVars
  <2>2. AppTypeOK' /\ CallTypeOK' /\ runPc' \in {"select", "cycle", "after", "dead"}
    <3>1. CASE ExitProcess(t)
      BY <3>1, ExitType
    <3> DEFINE stored == {e.msgid : e \in {f \in outboundMsgs : f.msg = cur[t]}}
    <3>2. stored \subseteq Token
      BY SessionAssumption DEF ClientTypeOK, Message, MsgId, Token
    <3>3. CASE /\ ReturnToken(t, IF stored = {} THEN Token ELSE stored)
               /\ pc' = [pc EXCEPT ![t] = "waiting"]
               /\ UNCHANGED <<cur, qos, result, runPc>>
      <4>1. cur[t] \in Msg
        BY <1>6 DEF WriteFinished, CallTypeOK
      <4>2. PICK x \in Token : token' = [token EXCEPT ![t] = x]
        BY <3>2, <3>3 DEF ReturnToken
      <4>3. AppTypeOK' /\ CallTypeOK'
        BY <3>3, <4>1, <4>2 DEF AppTypeOK, CallTypeOK, Pc
      <4> QED
        BY <3>3, <4>3 DEF RunTypeOK
    <3> QED
      BY <1>6, <3>1, <3>3 DEF WriteFinished
  <2>3. RunTypeOK'
    BY <1>6, <2>2 DEF WriteFinished, RunTypeOK, stopVars, cbVars
  <2> QED
    BY <2>1, <2>2, <2>3
<1> QED
  BY <1>1, <1>2, <1>3, <1>4, <1>5, <1>6

\* The call, the wait for completion and mqtt_disconnect.
LEMMA CallStepType ==
  ASSUME TypeOK, NEW t \in Thread,
         \/ \E m \in Msg : Call(t, m)
         \/ WaitDisconnected(t) \/ WaitCompleted(t) \/ WaitTimedOut(t)
         \/ DisconnectStart(t) \/ DisconnectClosed(t)
         \/ DisconnectDrained(t) \/ DisconnectTimedOut(t) \/ StopWaited(t)
  PROVE  TypeOK'
<1> USE DEF TypeOK
<1>1. ASSUME NEW m \in Msg, Call(t, m) PROVE TypeOK'
  <2>1. ClientTypeOK' /\ NetTypeOK' /\ RunTypeOK'
    BY <1>1 DEF Call, ClientTypeOK, NetTypeOK, RunTypeOK,
                clientVars, netVars, brokerVars, runVars, stopVars, cbVars
  <2>2. AppTypeOK' /\ CallTypeOK'
    BY <1>1 DEF Call, AppTypeOK, CallTypeOK, Pc
  <2> QED
    BY <2>1, <2>2
<1>2. CASE WaitDisconnected(t) \/ WaitCompleted(t) \/ WaitTimedOut(t)
  <2>1. PICK rc \in {"SUCCESS", "DISCONNECTED", "FAILURE"} : ReturnFromWait(t, rc)
    BY <1>2 DEF WaitDisconnected, WaitCompleted, WaitTimedOut
  <2>2. ClientTypeOK' /\ NetTypeOK' /\ RunTypeOK'
    BY <2>1 DEF ReturnFromWait, ClientTypeOK, NetTypeOK, RunTypeOK,
                clientVars, netVars, brokerVars, runVars, stopVars, cbVars
  <2>3. 0 \in Token
    BY SessionAssumption DEF Token
  <2>4. AppTypeOK'
    BY <2>1, <2>3 DEF ReturnFromWait, AppTypeOK, Pc
  <2>5. CallTypeOK'
    BY <2>1 DEF ReturnFromWait, AppTypeOK, CallTypeOK
  <2> QED
    BY <2>2, <2>4, <2>5
<1>3. CASE DisconnectStart(t)
  <2>1. ClientTypeOK' /\ NetTypeOK' /\ RunTypeOK'
    BY <1>3 DEF DisconnectStart, ClientTypeOK, NetTypeOK, RunTypeOK,
                netVars, brokerVars, runVars, stopVars, cbVars
  <2>2. AppTypeOK' /\ CallTypeOK'
    BY <1>3 DEF DisconnectStart, AppTypeOK, CallTypeOK, Pc
  <2> QED
    BY <2>1, <2>2
<1>4. CASE DisconnectClosed(t) \/ DisconnectDrained(t) \/ DisconnectTimedOut(t)
  <2>1. DisconnectClose(t)
    BY <1>4 DEF DisconnectClosed, DisconnectDrained, DisconnectTimedOut
  <2>2. ClientTypeOK' /\ NetTypeOK'
    BY <2>1, CloseType DEF DisconnectClose, TypeOK, NetTypeOK
  <2>3. AppTypeOK' /\ CallTypeOK'
    BY <2>1 DEF DisconnectClose, AppTypeOK, CallTypeOK, Pc
  <2>4. RunTypeOK'
    BY <2>1 DEF DisconnectClose, StopThread, RunTypeOK, runVars, cbVars
  <2> QED
    BY <2>2, <2>3, <2>4
<1>5. CASE StopWaited(t)
  <2>1. ClientTypeOK' /\ NetTypeOK'
    BY <1>5 DEF StopWaited, ClientTypeOK, NetTypeOK, clientVars, netVars, brokerVars
  <2>2. CASE cur[t] = NoMsg
    BY <1>5, <2>1, <2>2 DEF StopWaited, AppTypeOK, CallTypeOK, RunTypeOK, Pc, stopVars
  <2>3. CASE cur[t] # NoMsg /\ qos[cur[t]] > 0
    <3>1. cur[t] \in Msg
      BY <2>3 DEF AppTypeOK
    <3>2. AppTypeOK' /\ CallTypeOK'
      BY <1>5, <2>3, <3>1 DEF StopWaited, AppTypeOK, CallTypeOK, Pc
    <3>3. RunTypeOK'
      BY <1>5, <2>3 DEF StopWaited, RunTypeOK, stopVars
    <3> QED
      BY <2>1, <3>2, <3>3
  <2>4. CASE cur[t] # NoMsg /\ ~ (qos[cur[t]] > 0)
    <3>1. AppTypeOK' /\ CallTypeOK' /\ runPc' \in {"select", "cycle", "after", "dead"}
      BY <1>5, <2>4, ExitType DEF StopWaited
    <3>2. RunTypeOK'
      BY <1>5, <2>4, <3>1 DEF StopWaited, RunTypeOK, stopVars
    <3> QED
      BY <2>1, <3>1, <3>2
  <2> QED
    BY <2>2, <2>3, <2>4
<1> QED
  BY <1>1, <1>2, <1>3, <1>4, <1>5

\* The packet handlers of MQTTClient_cycle.
LEMMA HandlerType ==
  ASSUME TypeOK,
         \/ CycleIdle \/ CycleReadError
         \/ HandlePuback \/ HandlePubrec \/ HandlePubcomp
  PROVE  TypeOK'
<1> USE DEF TypeOK
<1>1. /\ outboundMsgs \in SUBSET Message
      /\ toBroker \in Seq(Packet) /\ toClient \in Seq(Packet)
      /\ writing \in Seq(Packet) /\ Len(writing) <= 1
      /\ runRc \in {"ok", "error"} /\ confirmed \subseteq Msg
  BY DEF ClientTypeOK, NetTypeOK, RunTypeOK
<1>2. toClient # <<>> =>
        /\ Head(toClient) \in Packet /\ Head(toClient).msg \in Msg
        /\ Tail(toClient) \in Seq(Packet)
  BY <1>1, PacketSeq
<1>3. CASE CycleIdle
  <2>1. EndCycle(outboundMsgs, toBroker, writing, toClient, runRc) /\ confirmed' = confirmed
    BY <1>3 DEF CycleIdle
  <2> QED
    BY <1>1, <2>1, EndCycleType
<1>4. CASE CycleReadError
  BY <1>1, <1>4, EndCycleType DEF CycleReadError
<1>5. CASE HandlePuback
  BY <1>1, <1>2, <1>5, EndCycleType DEF HandlePuback, Reading
<1>6. CASE HandlePubcomp
  BY <1>1, <1>2, <1>6, EndCycleType DEF HandlePubcomp, Reading
<1>7. CASE HandlePubrec
  <2> DEFINE p == Head(toClient)
             waits == {e \in EntryOf(p) : e.qos = 2 /\ e.next = "PUBREC"}
             moved == {IF e \in waits THEN [e EXCEPT !.next = "PUBCOMP"] ELSE e
                          : e \in outboundMsgs}
             pubrel == Reply(p, "PUBREL")
  <2>1. moved \in SUBSET Message
    BY <1>1 DEF Message
  <2>2. pubrel \in Packet
    BY <1>2, <1>7, ReplyType DEF HandlePubrec, Reading
  <2>3. Sent(pubrel) \in Seq(Packet) /\ <<pubrel>> \in Seq(Packet) /\ Len(<<pubrel>>) <= 1
    BY <2>2, SentType
  <2>4. Tail(toClient) \in Seq(Packet) /\ confirmed' \subseteq Msg
    BY <1>1, <1>2, <1>7 DEF HandlePubrec, Reading
  <2> HIDE DEF moved, pubrel
  <2>5. \/ EndCycle(moved, toBroker, writing, Tail(toClient), "ok")
        \/ EndCycle(moved, Sent(pubrel), writing, Tail(toClient), "ok")
        \/ EndCycle(moved, toBroker, <<pubrel>>, Tail(toClient), "ok")
        \/ EndCycle(moved, toBroker, writing, Tail(toClient), "error")
    BY <1>7 DEF HandlePubrec, moved, pubrel
  <2> QED
    BY <1>1, <2>1, <2>3, <2>4, <2>5, EndCycleType
<1> QED
  BY <1>3, <1>4, <1>5, <1>6, <1>7

\* The rest of MQTTClient_run.
LEMMA RunStepType ==
  ASSUME TypeOK, RunStep
  PROVE  TypeOK'
<1> USE DEF TypeOK
<1>1. CASE RunSelect \/ RunGoesOn \/ RunStops
  <2>1. ClientTypeOK' /\ NetTypeOK' /\ AppTypeOK' /\ CallTypeOK'
    BY <1>1 DEF RunSelect, RunGoesOn, RunStops, ClientTypeOK, NetTypeOK, AppTypeOK, CallTypeOK,
                clientVars, netVars, brokerVars, appVars
  <2>2. RunTypeOK'
    BY <1>1 DEF RunSelect, RunGoesOn, RunStops, EndThread, RunTypeOK, stopVars, cbVars
  <2> QED
    BY <2>1, <2>2
<1>2. CASE ContinueWrite
  <2>1. Head(writing) \in Packet
    BY <1>2 DEF ContinueWrite, NetTypeOK
  <2>2. NetTypeOK'
    BY <1>2, <2>1, SentType DEF ContinueWrite, NetTypeOK, brokerVars
  <2>3. ClientTypeOK' /\ AppTypeOK' /\ CallTypeOK' /\ RunTypeOK'
    BY <1>2 DEF ContinueWrite, ClientTypeOK, AppTypeOK, CallTypeOK, RunTypeOK,
                clientVars, appVars, runVars, stopVars, cbVars
  <2> QED
    BY <2>2, <2>3
<1>3. CASE RunLosesConnection
  <2>1. ClientTypeOK' /\ NetTypeOK'
    BY <1>3, CloseType DEF RunLosesConnection, LoseConnection, NetTypeOK
  <2>2. AppTypeOK' /\ CallTypeOK'
    BY <1>3 DEF RunLosesConnection, AppTypeOK, CallTypeOK, appVars
  <2>3. RunTypeOK'
    <3>1. lost' \in Nat
      BY <1>3 DEF RunLosesConnection, LoseConnection, RunTypeOK
    <3>2. UNCHANGED <<runSock, runRc, confirmed>> /\ EndThread
      BY <1>3 DEF RunLosesConnection
    <3> QED
      BY <3>1, <3>2 DEF EndThread, RunTypeOK
  <2> QED
    BY <2>1, <2>2, <2>3
<1> QED
  BY <1>1, <1>2, <1>3, HandlerType DEF RunStep

\* The broker, the network and TCP.
LEMMA OutsideStepType ==
  ASSUME TypeOK, BrokerStep \/ NetworkFails \/ TcpGivesUp
  PROVE  TypeOK'
<1> USE DEF TypeOK
<1>1. CASE BrokerStep
  <2> PICK i \in 1..Len(toBroker) : BrokerTakes(i)
    BY <1>1 DEF BrokerStep
  <2> DEFINE p == toBroker[i]
  <2>1. p \in Packet /\ p.id \in Token /\ p.msg \in Msg
    <3>1. toBroker[i] \in Packet
      BY DEF NetTypeOK
    <3> QED
      BY <3>1 DEF Packet
  <2>2. toBroker' \in Seq(Packet)
    BY WithoutType DEF BrokerTakes, NetTypeOK
  <2>3. Reply(p, "PUBACK") \in Packet /\ Reply(p, "PUBREC") \in Packet /\ Reply(p, "PUBCOMP") \in Packet
    BY <2>1, ReplyType
  <2>4. toClient' \in Seq(Packet)
    <3>1. \/ toClient' = toClient
          \/ \E type \in {"PUBACK", "PUBREC", "PUBCOMP"} : toClient' = Append(toClient, Reply(p, type))
      BY DEF BrokerTakes
    <3> QED
      BY <3>1, <2>3, PacketSeq DEF NetTypeOK
  <2>5. brokerIds' \subseteq Token /\ received' \subseteq Msg
    BY <2>1 DEF BrokerTakes, NetTypeOK, brokerVars
  <2>6. NetTypeOK'
    BY <2>2, <2>4, <2>5 DEF BrokerTakes, NetTypeOK
  <2>7. ClientTypeOK' /\ AppTypeOK' /\ CallTypeOK' /\ RunTypeOK'
    BY DEF BrokerTakes, ClientTypeOK, AppTypeOK, CallTypeOK, RunTypeOK,
           clientVars, appVars, runVars, stopVars, cbVars
  <2> QED
    BY <2>6, <2>7
<1>2. CASE NetworkFails \/ TcpGivesUp
  <2>1. UNCHANGED <<writing, brokerIds, received>>
    BY <1>2 DEF NetworkFails, TcpGivesUp, brokerVars
  <2>2. network' \in {"up", "silent", "reset"}
    BY <1>2 DEF NetworkFails, TcpGivesUp
  <2>3. toClient' \in Seq(Packet) /\ toBroker' \in Seq(Packet)
    <3>1. toClient' \in {<<>>, toClient} /\ toBroker' \in {<<>>, toBroker}
      BY <1>2 DEF NetworkFails, TcpGivesUp
    <3>2. <<>> \in Seq(Packet)
      OBVIOUS
    <3> QED
      BY <3>1, <3>2 DEF NetTypeOK
  <2>4. NetTypeOK'
    BY <2>1, <2>2, <2>3 DEF NetTypeOK
  <2>5. ClientTypeOK' /\ AppTypeOK' /\ CallTypeOK' /\ RunTypeOK'
    BY <1>2 DEF NetworkFails, TcpGivesUp, ClientTypeOK, AppTypeOK, CallTypeOK, RunTypeOK,
                clientVars, appVars, runVars, stopVars, cbVars
  <2> QED
    BY <2>4, <2>5
<1> QED
  BY <1>1, <1>2

\* Every step keeps the types.
LEMMA TypeNext == TypeOK /\ [Next]_vars => TypeOK'
<1> SUFFICES ASSUME TypeOK, [Next]_vars PROVE TypeOK'
  OBVIOUS
<1>1. CASE UNCHANGED vars
  BY <1>1 DEF TypeOK, ClientTypeOK, NetTypeOK, AppTypeOK, RunTypeOK, CallTypeOK, vars,
              clientVars, netVars, brokerVars, appVars, runVars, stopVars, cbVars
<1>2. ASSUME NEW t \in Thread, AppStep(t) PROVE TypeOK'
  BY <1>2, PublishStepType, CallStepType DEF AppStep, Proceed
<1>3. CASE RunStep
  BY <1>3, RunStepType
<1>4. CASE BrokerStep \/ NetworkFails \/ TcpGivesUp
  BY <1>4, OutsideStepType
<1> QED
  BY <1>1, <1>2, <1>3, <1>4 DEF Next, Terminated

\* In every reachable state each variable holds a value of its type, at most one
\* write is incomplete and a thread inside mqtt_publish has a message.
THEOREM TypeCorrect == Spec => []TypeOK
<1>1. Init => TypeOK
  BY TypeInit
<1>2. TypeOK /\ [Next]_vars => TypeOK'
  BY TypeNext
<1> QED
  BY <1>1, <1>2, PTL DEF Spec

-----------------------------------------------------------------------------
(* The list of stored messages: it never outgrows the window, its ids are    *)
(* distinct and a publisher always finds a free one.                         *)

\* The entries after a PUBREC moved those in W on.
Moved(W) == {IF e \in W THEN [e EXCEPT !.next = "PUBCOMP"] ELSE e : e \in outboundMsgs}

\* How a step changes the list: it stores one message in a list that is not
\* full, moves entries on, drops some or leaves it alone.
Stored(m, id) ==
    /\ ~Full /\ id \in MsgId \ IdsInUse
    /\ outboundMsgs' = outboundMsgs \cup {NewEntry(m, id)}
ListStep ==
    \/ outboundMsgs' \subseteq outboundMsgs
    \/ \E m \in Msg, id \in MsgId : Stored(m, id)
    \/ \E W \in SUBSET outboundMsgs : outboundMsgs' = Moved(W)

\* A finite set has a finite image, which is not larger.
LEMMA ImageSize ==
  ASSUME NEW S, IsFiniteSet(S), NEW f, f \in [S -> {f[x] : x \in S}]
  PROVE  /\ IsFiniteSet({f[x] : x \in S})
         /\ Cardinality({f[x] : x \in S}) <= Cardinality(S)
<1>1. f \in Surjection(S, {f[x] : x \in S})
  BY DEF Surjection
<1> QED
  BY <1>1, FS_Surjection

\* The end of a cycle leaves the handler's list or an empty one.
LEMMA EndCycleList ==
  ASSUME NEW out, NEW tb, NEW wr, NEW tc, NEW rc, EndCycle(out, tb, wr, tc, rc)
  PROVE  outboundMsgs' = out \/ outboundMsgs' = {}
  BY DEF EndCycle, LoseConnection, CloseSession

\* Storing a message adds an entry with an unused id.
LEMMA StoreStep ==
  ASSUME TypeOK, NEW t \in Thread, CanStart(t),
         NEW id \in IdsFor(cur[t]), StoreMessage(cur[t], id)
  PROVE  ListStep
<1>1. cur[t] \in Msg
  BY DEF TypeOK, CallTypeOK, CanStart
<1>2. CASE qos[cur[t]] > 0
  <2>1. id \in MsgId /\ id \notin IdsInUse
    BY <1>1, <1>2, IdsForType DEF TypeOK
  <2> QED
    BY <1>1, <1>2, <2>1 DEF StoreMessage, CanStart, ListStep, Stored
<1>3. CASE ~ (qos[cur[t]] > 0)
  BY <1>3 DEF StoreMessage, ListStep
<1> QED
  BY <1>2, <1>3

\* Every step changes the list in one of these ways.
LEMMA ListSteps == TypeOK /\ [Next]_vars => ListStep
<1> SUFFICES ASSUME TypeOK, [Next]_vars PROVE ListStep
  OBVIOUS
<1>1. ASSUME NEW t \in Thread, PublishSent(t) \/ PublishInterrupted(t) PROVE ListStep
  BY <1>1, StoreStep DEF PublishSent, PublishInterrupted
<1>2. ASSUME NEW t \in Thread, PublishError(t) \/ DisconnectClosed(t) \/ DisconnectDrained(t) \/ DisconnectTimedOut(t)
      PROVE  ListStep
  BY <1>2 DEF PublishError, DisconnectClosed, DisconnectDrained, DisconnectTimedOut,
              DisconnectClose, CloseSession, ListStep
<1>3. ASSUME NEW t \in Thread,
             \/ \E m \in Msg : Call(t, m)
             \/ PublishRefused(t) \/ PublishBlocks(t) \/ WriteFinished(t)
             \/ WaitDisconnected(t) \/ WaitCompleted(t) \/ WaitTimedOut(t)
             \/ DisconnectStart(t) \/ StopWaited(t)
      PROVE  ListStep
  BY <1>3 DEF Call, PublishRefused, PublishBlocks, WriteFinished, WaitDisconnected, WaitCompleted,
              WaitTimedOut, ReturnFromWait, DisconnectStart, StopWaited, clientVars, ListStep
<1>4. CASE CycleIdle \/ CycleReadError \/ HandlePuback \/ HandlePubcomp
  BY <1>4, EndCycleList DEF CycleIdle, CycleReadError, HandlePuback, HandlePubcomp, ListStep
<1>5. CASE HandlePubrec
  <2> DEFINE waits == {e \in EntryOf(Head(toClient)) : e.qos = 2 /\ e.next = "PUBREC"}
  <2>1. waits \in SUBSET outboundMsgs
    BY DEF EntryOf
  <2>2. outboundMsgs' = Moved(waits) \/ outboundMsgs' = {}
    BY <1>5, EndCycleList DEF HandlePubrec, Moved
  <2> QED
    BY <2>1, <2>2 DEF ListStep
<1>6. CASE RunLosesConnection
  BY <1>6 DEF RunLosesConnection, LoseConnection, CloseSession, ListStep
<1>7. CASE \/ RunSelect \/ ContinueWrite \/ RunStops \/ RunGoesOn
           \/ BrokerStep \/ NetworkFails \/ TcpGivesUp \/ UNCHANGED vars
  BY <1>7 DEF RunSelect, ContinueWrite, RunStops, RunGoesOn, BrokerStep, BrokerTakes, NetworkFails, TcpGivesUp,
              vars, clientVars, ListStep
<1> QED
  BY <1>1, <1>2, <1>3, <1>4, <1>5, <1>6, <1>7 DEF Next, Terminated, AppStep, Proceed, RunStep

-----------------------------------------------------------------------------
\* The strengthening: the list is finite, within the window, with distinct ids.
WindowInv == IsFiniteSet(outboundMsgs) /\ InflightBound /\ UniqueIds

LEMMA WindowInit == Init => WindowInv
<1> SUFFICES ASSUME Init PROVE WindowInv
  OBVIOUS
<1>1. outboundMsgs = {}
  BY DEF Init
<1> QED
  BY <1>1, FS_EmptySet, SessionAssumption DEF WindowInv, InflightBound, UniqueIds

LEMMA WindowStep == TypeOK /\ WindowInv /\ ListStep => WindowInv'
<1> SUFFICES ASSUME TypeOK, WindowInv, ListStep PROVE WindowInv'
  OBVIOUS
<1>0. IsFiniteSet(outboundMsgs) /\ Cardinality(outboundMsgs) \in Nat /\ MaxInflight \in Nat
  BY FS_CardinalityType, SessionAssumption DEF WindowInv
<1>1. CASE outboundMsgs' \subseteq outboundMsgs
  <2>1. /\ IsFiniteSet(outboundMsgs')
        /\ Cardinality(outboundMsgs') <= Cardinality(outboundMsgs)
    BY <1>0, <1>1, FS_Subset
  <2>2. Cardinality(outboundMsgs') \in Nat
    BY <2>1, FS_CardinalityType
  <2>3. InflightBound'
    BY <1>0, <2>1, <2>2 DEF WindowInv, InflightBound
  <2>4. UniqueIds'
    BY <1>1 DEF WindowInv, UniqueIds
  <2> QED
    BY <2>1, <2>3, <2>4 DEF WindowInv
<1>2. ASSUME NEW m \in Msg, NEW id \in MsgId, Stored(m, id) PROVE WindowInv'
  <2>1. /\ IsFiniteSet(outboundMsgs')
        /\ Cardinality(outboundMsgs') <= Cardinality(outboundMsgs) + 1
    <3> DEFINE e == NewEntry(m, id)
    <3>1. outboundMsgs' = outboundMsgs \cup {e}
      BY <1>2 DEF Stored
    <3> HIDE DEF e
    <3>2. /\ IsFiniteSet(outboundMsgs \cup {e})
          /\ Cardinality(outboundMsgs \cup {e}) =
                IF e \in outboundMsgs THEN Cardinality(outboundMsgs) ELSE Cardinality(outboundMsgs) + 1
      BY <1>0, FS_AddElement
    <3> QED
      BY <1>0, <3>1, <3>2
  <2>2. Cardinality(outboundMsgs) < MaxInflight
    BY <1>0, <1>2 DEF Stored, Full
  <2>3. Cardinality(outboundMsgs') \in Nat
    BY <2>1, FS_CardinalityType
  <2>4. InflightBound'
    BY <1>0, <2>1, <2>2, <2>3 DEF InflightBound
  <2>5. NewEntry(m, id).msgid = id /\ id \notin IdsInUse
    BY <1>2 DEF Stored, NewEntry
  <2>6. UniqueIds'
    BY <1>2, <2>5 DEF WindowInv, UniqueIds, Stored, IdsInUse
  <2> QED
    BY <2>1, <2>4, <2>6 DEF WindowInv
<1>3. ASSUME NEW W \in SUBSET outboundMsgs, outboundMsgs' = Moved(W) PROVE WindowInv'
  <2> DEFINE f == [e \in outboundMsgs |-> IF e \in W THEN [e EXCEPT !.next = "PUBCOMP"] ELSE e]
  <2>1. outboundMsgs' = {f[e] : e \in outboundMsgs}
    BY <1>3 DEF Moved
  <2>2. f \in [outboundMsgs -> {f[e] : e \in outboundMsgs}]
    OBVIOUS
  <2>3. \A e \in outboundMsgs : f[e].msgid = e.msgid
    BY DEF TypeOK, ClientTypeOK, Message
  <2> HIDE DEF f
  <2>4. /\ IsFiniteSet(outboundMsgs')
        /\ Cardinality(outboundMsgs') <= Cardinality(outboundMsgs)
    BY <1>0, <2>1, <2>2, ImageSize
  <2>5. Cardinality(outboundMsgs') \in Nat
    BY <2>4, FS_CardinalityType
  <2>6. InflightBound'
    BY <1>0, <2>4, <2>5 DEF WindowInv, InflightBound
  <2>7. UniqueIds'
    BY <2>1, <2>3 DEF WindowInv, UniqueIds
  <2> QED
    BY <2>4, <2>6, <2>7 DEF WindowInv
<1> QED
  BY <1>1, <1>2, <1>3 DEF ListStep

LEMMA WindowInvariant == Spec => []WindowInv
<1>1. Init => WindowInv
  BY WindowInit
<1>2. TypeOK /\ WindowInv /\ [Next]_vars => WindowInv'
  BY ListSteps, WindowStep
<1> QED
  BY <1>1, <1>2, TypeCorrect, PTL DEF Spec

\* Publishers that blocked on a full window and woke together never start more
\* exchanges than maxInflightMessages allows: for every number of threads.
THEOREM InflightBounded == Spec => []InflightBound
<1>1. WindowInv => InflightBound
  BY DEF WindowInv
<1> QED
  BY <1>1, WindowInvariant, PTL

\* Stored messages never share an id, for every size of the id space and
\* however often the counter of MQTTProtocol_assignMsgId has wrapped around.
THEOREM IdsUnique == Spec => []UniqueIds
<1>1. WindowInv => UniqueIds
  BY DEF WindowInv
<1> QED
  BY <1>1, WindowInvariant, PTL

\* The ids in use and the last one assigned never fill the id space, so a
\* publisher that is let through finds an id.
LEMMA FreeIdExists ==
  ASSUME TypeOK, WindowInv, ~Full
  PROVE  FreeIds # {}
<1> DEFINE id == [e \in outboundMsgs |-> e.msgid]
           used == IdsInUse \cup {msgID}
<1>1. /\ IsFiniteSet(outboundMsgs) /\ Cardinality(outboundMsgs) \in Nat
      /\ MaxInflight \in Nat /\ MAX_MSG_ID \in Nat /\ MaxInflight < MAX_MSG_ID
  BY FS_CardinalityType, SessionAssumption DEF WindowInv
<1>2. Cardinality(outboundMsgs) < MaxInflight
  BY <1>1 DEF Full
<1>3. IdsInUse = {id[e] : e \in outboundMsgs} /\ id \in [outboundMsgs -> {id[e] : e \in outboundMsgs}]
  BY DEF IdsInUse
<1>4. IsFiniteSet(IdsInUse) /\ Cardinality(IdsInUse) <= Cardinality(outboundMsgs)
  <2> HIDE DEF id
  <2> QED
    BY <1>1, <1>3, ImageSize
<1>5. Cardinality(IdsInUse) \in Nat
  BY <1>4, FS_CardinalityType
<1>6. /\ IsFiniteSet(used)
      /\ Cardinality(used) <= Cardinality(IdsInUse) + 1
  BY <1>4, <1>5, FS_AddElement
<1>7. Cardinality(used) \in Nat
  BY <1>6, FS_CardinalityType
<1>8. Cardinality(used) < MAX_MSG_ID
  BY <1>1, <1>2, <1>4, <1>5, <1>6, <1>7
<1>9. IsFiniteSet(MsgId) /\ Cardinality(MsgId) = MAX_MSG_ID
  BY <1>1, FS_Interval DEF MsgId
<1>10. ~ (MsgId \subseteq used)
  <2> HIDE DEF used
  <2>1. SUFFICES ASSUME MsgId \subseteq used PROVE FALSE
    OBVIOUS
  <2>2. Cardinality(MsgId) <= Cardinality(used)
    BY <1>6, <2>1, FS_Subset
  <2> QED
    BY <1>1, <1>7, <1>8, <1>9, <2>2
<1> QED
  BY <1>10 DEF FreeIds

\* "This should never happen as we've waited for spaces in the queue": whoever
\* is let through finds an id, as long as the id space exceeds the window.
THEOREM IdFound == Spec => []IdAlwaysFound
<1>1. TypeOK /\ WindowInv => IdAlwaysFound
  BY FreeIdExists DEF IdAlwaysFound
<1> QED
  BY <1>1, TypeCorrect, WindowInvariant, PTL

-----------------------------------------------------------------------------
\* How far the search is from x when it has just looked at id: at least one step, and a
\* whole round to come back to id.
StepsTo(id, x) == IF x > id THEN x - id ELSE x + MAX_MSG_ID - id

\* Where the loop of MQTTProtocol_assignMsgId ends: at a free id, or back at msgID.
Stops == {x \in MsgId : x \notin IdsInUse \/ x = msgID}
FirstStop(id) == CHOOSE x \in Stops : \A y \in Stops : StepsTo(id, x) <= StepsTo(id, y)
SearchResult(id) == IF id \notin IdsInUse THEN id
                    ELSE IF FirstStop(id) = msgID THEN 0 ELSE FirstStop(id)

\* Among natural numbers there is a least one.
LEMMA LeastNat ==
  ASSUME NEW T, T \subseteq Nat, T # {}
  PROVE  \E m \in T : \A k \in T : m <= k
<1>1. IsWellFoundedOn(OpToRel(<, Nat), Nat)
  BY NatLessThanWellFounded
<1>2. PICK m \in T : \A k \in T : ~ (<<k, m>> \in OpToRel(<, Nat))
  BY <1>1, WFMin
<1>3. \A k \in T : ~(k < m)
  BY <1>2 DEF OpToRel
<1> QED BY <1>3

\* One step of the search brings every other id nearer by one.
LEMMA OneStep ==
  ASSUME NEW id \in Token, NEW x \in MsgId
  PROVE  /\ NextId(id) \in MsgId /\ StepsTo(id, x) \in 1..MAX_MSG_ID
         /\ x = NextId(id) => StepsTo(id, x) = 1
         /\ x # NextId(id) => StepsTo(id, x) = StepsTo(NextId(id), x) + 1
         /\ \A y \in MsgId : StepsTo(id, x) = StepsTo(id, y) => x = y
         /\ x = id => StepsTo(id, x) = MAX_MSG_ID
<1>1. MAX_MSG_ID \in Nat /\ MAX_MSG_ID > 1
  BY SessionAssumption
<1>2. id \in Nat /\ 0 <= id /\ id <= MAX_MSG_ID /\ x \in Nat /\ 1 <= x /\ x <= MAX_MSG_ID
  BY <1>1 DEF Token, MsgId
<1>3. NextId(id) = (IF id = MAX_MSG_ID THEN 1 ELSE id + 1) /\ NextId(id) \in MsgId
  BY <1>1, <1>2 DEF NextId, MsgId
<1>4. \A y \in MsgId : StepsTo(id, x) = StepsTo(id, y) => x = y
  BY <1>1, <1>2 DEF StepsTo, MsgId
<1>5. StepsTo(id, x) \in 1..MAX_MSG_ID
  BY <1>1, <1>2 DEF StepsTo
<1>6. x = NextId(id) => StepsTo(id, x) = 1
  BY <1>1, <1>2, <1>3 DEF StepsTo
<1>7. x # NextId(id) => StepsTo(id, x) = StepsTo(NextId(id), x) + 1
  BY <1>1, <1>2, <1>3 DEF StepsTo
<1>8. x = id => StepsTo(id, x) = MAX_MSG_ID
  BY <1>1, <1>2 DEF StepsTo
<1> QED BY <1>3, <1>4, <1>5, <1>6, <1>7, <1>8

\* Of some ids there is exactly one that the search reaches first.
LEMMA NearestExists ==
  ASSUME NEW id \in Token, NEW X, X \subseteq MsgId, X # {}
  PROVE  \E x \in X : \A y \in X : StepsTo(id, x) <= StepsTo(id, y)
<1> DEFINE T == {StepsTo(id, x) : x \in X}
<1>1. \A x \in X : StepsTo(id, x) \in 1..MAX_MSG_ID
  BY OneStep
<1>2. MAX_MSG_ID \in Nat
  BY SessionAssumption
<1>3. T \subseteq Nat /\ T # {}
  BY <1>1, <1>2
<1>4. PICK m \in T : \A k \in T : m <= k
  <2> HIDE DEF T
  <2> QED BY <1>3, LeastNat
<1>5. PICK x \in X : m = StepsTo(id, x)
  BY <1>4
<1>6. \A y \in X : StepsTo(id, y) \in T
  OBVIOUS
<1> QED BY <1>4, <1>5, <1>6

LEMMA NearestUnique ==
  ASSUME NEW id \in Token, NEW X, X \subseteq MsgId, NEW x \in X, NEW z \in X,
         \A y \in X : StepsTo(id, x) <= StepsTo(id, y),
         \A y \in X : StepsTo(id, z) <= StepsTo(id, y)
  PROVE  x = z
<1>1. x \in MsgId /\ z \in MsgId
  OBVIOUS
<1>2. StepsTo(id, x) \in 1..MAX_MSG_ID /\ StepsTo(id, z) \in 1..MAX_MSG_ID
  BY <1>1, OneStep
<1>3. StepsTo(id, x) <= StepsTo(id, z) /\ StepsTo(id, z) <= StepsTo(id, x)
  OBVIOUS
<1>4. StepsTo(id, x) = StepsTo(id, z)
  BY <1>2, <1>3, SessionAssumption
<1> QED BY <1>1, <1>4, OneStep

\* The first stop is one.
LEMMA FirstStopIs ==
  ASSUME NEW id \in Token, Stops # {}
  PROVE  /\ FirstStop(id) \in Stops
         /\ \A y \in Stops : StepsTo(id, FirstStop(id)) <= StepsTo(id, y)
<1>1. Stops \subseteq MsgId
  BY DEF Stops
<1>2. \E x \in Stops : \A y \in Stops : StepsTo(id, x) <= StepsTo(id, y)
  BY <1>1, NearestExists
<1> QED BY <1>2 DEF FirstStop

\* The search stops at the next id, or ends where it ends from there.
LEMMA FirstStopStep ==
  ASSUME NEW id \in Token, Stops # {}
  PROVE  /\ NextId(id) \in Stops => FirstStop(id) = NextId(id)
         /\ NextId(id) \notin Stops =>
               /\ FirstStop(id) = FirstStop(NextId(id))
               /\ StepsTo(id, FirstStop(id)) = StepsTo(NextId(id), FirstStop(id)) + 1
<1> DEFINE n == NextId(id)
<1>1. Stops \subseteq MsgId /\ MsgId \subseteq Token
  BY SessionAssumption DEF Stops, MsgId, Token
<1>2. n \in MsgId /\ n \in Token
  BY <1>1, OneStep
<1>3. /\ FirstStop(id) \in Stops
      /\ \A y \in Stops : StepsTo(id, FirstStop(id)) <= StepsTo(id, y)
  BY FirstStopIs
<1>4. /\ FirstStop(n) \in Stops
      /\ \A y \in Stops : StepsTo(n, FirstStop(n)) <= StepsTo(n, y)
  BY <1>2, FirstStopIs
<1>5. \A y \in Stops : StepsTo(id, y) \in 1..MAX_MSG_ID /\ StepsTo(n, y) \in 1..MAX_MSG_ID
  BY <1>1, <1>2, OneStep
<1>6. \A y \in Stops : (y = n => StepsTo(id, y) = 1) /\ (y # n => StepsTo(id, y) = StepsTo(n, y) + 1)
  BY <1>1, OneStep
<1>7. MAX_MSG_ID \in Nat
  BY SessionAssumption
<1> HIDE DEF n
<1>8. n \in Stops => FirstStop(id) = n
  <2> SUFFICES ASSUME n \in Stops PROVE FirstStop(id) = n
    OBVIOUS
  <2>1. StepsTo(id, FirstStop(id)) <= 1
    BY <1>3, <1>6
  <2>2. StepsTo(n, FirstStop(id)) \in 1..MAX_MSG_ID
    BY <1>3, <1>5
  <2> QED BY <1>3, <1>6, <1>7, <2>1, <2>2
<1>9. ASSUME n \notin Stops PROVE FirstStop(id) = FirstStop(n)
  <2>1. \A y \in Stops : StepsTo(id, y) = StepsTo(n, y) + 1
    BY <1>6, <1>9
  <2>2. \A y \in Stops : StepsTo(n, FirstStop(id)) <= StepsTo(n, y)
    BY <1>3, <1>5, <1>7, <2>1
  <2> QED BY <1>1, <1>2, <1>3, <1>4, <2>2, NearestUnique
<1>10. n \notin Stops => StepsTo(id, FirstStop(id)) = StepsTo(n, FirstStop(id)) + 1
  BY <1>3, <1>6
<1> QED BY <1>8, <1>9, <1>10 DEF n

\* The equation of the search.
SearchEq(f) ==
    f = [id \in Nat |-> IF id \notin IdsInUse THEN id
                        ELSE IF NextId(id) = msgID THEN 0 ELSE f[NextId(id)]]

\* Search obeys its equation: there is a function that does.
LEMMA SearchDef ==
  ASSUME IdsInUse \subseteq MsgId, Stops # {}
  PROVE  \A id \in Nat : Search[id] = IF id \notin IdsInUse THEN id
                                      ELSE IF NextId(id) = msgID THEN 0 ELSE Search[NextId(id)]
<1> DEFINE all == [id \in Nat |-> SearchResult(id)]
<1>1. MsgId \subseteq Token /\ MsgId \subseteq Nat
  BY SessionAssumption DEF MsgId, Token
<1>2. \A id \in Nat : all[id] = IF id \notin IdsInUse THEN id
                                ELSE IF NextId(id) = msgID THEN 0 ELSE all[NextId(id)]
  <2> SUFFICES ASSUME NEW id \in Nat
               PROVE  all[id] = IF id \notin IdsInUse THEN id
                                ELSE IF NextId(id) = msgID THEN 0 ELSE all[NextId(id)]
    OBVIOUS
  <2>1. CASE id \notin IdsInUse
    BY <2>1 DEF SearchResult
  <2>2. CASE id \in IdsInUse
    <3>1. id \in MsgId /\ id \in Token
      BY <1>1, <2>2
    <3>2. NextId(id) \in MsgId
      BY <3>1, OneStep
    <3>3. all[id] = SearchResult(id) /\ all[NextId(id)] = SearchResult(NextId(id))
      BY <1>1, <3>2
    <3>4. SearchResult(id) = IF FirstStop(id) = msgID THEN 0 ELSE FirstStop(id)
      BY <2>2 DEF SearchResult
    <3> HIDE DEF all
    <3>5. CASE NextId(id) \in Stops
      <4>1. FirstStop(id) = NextId(id)
        BY <3>1, <3>5, FirstStopStep
      <4>2. NextId(id) # msgID => SearchResult(NextId(id)) = NextId(id)
        BY <3>5 DEF SearchResult, Stops
      <4> QED BY <2>2, <3>3, <3>4, <4>1, <4>2
    <3>6. CASE NextId(id) \notin Stops
      <4>1. FirstStop(id) = FirstStop(NextId(id))
        BY <3>1, <3>6, FirstStopStep
      <4>2. NextId(id) \in IdsInUse /\ NextId(id) # msgID
        BY <3>2, <3>6 DEF Stops
      <4>3. SearchResult(NextId(id)) = SearchResult(id)
        BY <3>4, <4>1, <4>2 DEF SearchResult
      <4> QED BY <2>2, <3>3, <4>2, <4>3
    <3> QED BY <3>5, <3>6
  <2> QED BY <2>1, <2>2
<1>3. SearchEq(all)
  <2>1. all = [id \in Nat |-> all[id]]
    OBVIOUS
  <2> HIDE DEF all
  <2> QED BY <1>2, <2>1 DEF SearchEq
<1> HIDE DEF all
<1>4. Search = CHOOSE f : SearchEq(f)
  BY DEF Search, SearchEq
<1>5. SearchEq(Search)
  BY <1>3, <1>4
<1> QED BY <1>5 DEF SearchEq

\* The search ends, at the first id where it may stop: by induction on how far that is.
LEMMA SearchEnds ==
  ASSUME IdsInUse \subseteq MsgId, Stops # {}, NEW id \in Nat
  PROVE  Search[id] = SearchResult(id)
<1> DEFINE Wrong == {x \in IdsInUse : Search[x] # SearchResult(x)}
<1>1. MsgId \subseteq Token /\ MsgId \subseteq Nat /\ MAX_MSG_ID \in Nat
  BY SessionAssumption DEF MsgId, Token
<1>2. CASE id \notin IdsInUse
  BY <1>2, SearchDef DEF SearchResult
<1>3. CASE id \in Wrong
  <2> DEFINE far(x) == StepsTo(x, FirstStop(x))
             T == {far(x) : x \in Wrong}
  <2>1. \A x \in Wrong : x \in Token /\ x \in MsgId /\ x \in Nat /\ x \in IdsInUse
    BY <1>1
  <2>2. \A x \in Wrong : far(x) \in Nat
    <3> SUFFICES ASSUME NEW x \in Wrong PROVE far(x) \in Nat
      OBVIOUS
    <3>1. x \in Token /\ FirstStop(x) \in MsgId
      BY <2>1, FirstStopIs DEF Stops
    <3>2. far(x) \in 1..MAX_MSG_ID
      BY <3>1, OneStep
    <3> QED BY <1>1, <3>2
  <2>3. T \subseteq Nat /\ T # {}
    BY <1>3, <2>2
  <2>4. PICK m \in T : \A k \in T : m <= k
    <3> HIDE DEF T
    <3> QED BY <2>3, LeastNat
  <2>5. PICK x \in Wrong : m = far(x)
    BY <2>4
  <2>6. \A y \in Wrong : far(x) <= far(y)
    BY <2>4, <2>5
  <2> DEFINE n == NextId(x)
  <2>7. x \in Token /\ x \in MsgId /\ x \in Nat /\ x \in IdsInUse /\ Search[x] # SearchResult(x)
    BY <2>1, <2>5
  <2>8. n \in MsgId /\ n \in Token /\ n \in Nat
    BY <1>1, <2>7, OneStep
  <2>9. Search[x] = IF n = msgID THEN 0 ELSE Search[n]
    BY <2>7, SearchDef
  <2>10. SearchResult(x) = IF FirstStop(x) = msgID THEN 0 ELSE FirstStop(x)
    BY <2>7 DEF SearchResult
  <2>11. CASE n \in Stops
    <3>1. FirstStop(x) = n
      BY <2>7, <2>11, FirstStopStep
    <3>2. n # msgID => Search[n] = n
      BY <2>8, <2>11, SearchDef DEF Stops
    <3> QED BY <2>7, <2>9, <2>10, <3>1, <3>2
  <2>12. CASE n \notin Stops
    <3>1. FirstStop(x) = FirstStop(n) /\ far(x) = StepsTo(n, FirstStop(x)) + 1
      BY <2>7, <2>12, FirstStopStep
    <3>2. n \in IdsInUse /\ n # msgID
      BY <2>8, <2>12 DEF Stops
    <3>3. SearchResult(n) = SearchResult(x)
      BY <2>10, <3>1, <3>2 DEF SearchResult
    <3>4. n \in Wrong
      BY <2>7, <2>9, <3>2, <3>3
    <3>5. far(x) = far(n) + 1 /\ far(n) \in Nat /\ far(x) <= far(n)
      BY <2>2, <2>6, <3>1, <3>4
    <3> QED BY <3>5
  <2> QED BY <2>11, <2>12
<1> QED BY <1>2, <1>3

\* The loop of MQTTProtocol_assignMsgId returns the id that the model's definition by
\* distance names, wherever the counter stands and whichever ids are in use.
LEMMA SearchFinds ==
  ASSUME IdsInUse \subseteq MsgId, msgID \in Token, FreeIds # {}
  PROVE  AssignMsgId = {Search[NextId(msgID)]}
<1> DEFINE n == NextId(msgID)
<1>1. MAX_MSG_ID \in Nat /\ MAX_MSG_ID > 1 /\ MsgId \subseteq Token /\ MsgId \subseteq Nat
  BY SessionAssumption DEF MsgId, Token
<1>2. n \in MsgId /\ n \in Token /\ n \in Nat /\ n # msgID
  BY <1>1 DEF NextId, MsgId, Token
<1>3. FreeIds \subseteq Stops /\ FreeIds \subseteq MsgId /\ Stops # {} /\ Stops \subseteq MsgId
  BY DEF FreeIds, Stops
<1>4. Search[n] = SearchResult(n)
  BY <1>2, <1>3, SearchEnds
<1>5. AssignMsgId = {x \in FreeIds : \A y \in FreeIds : StepsTo(msgID, x) <= StepsTo(msgID, y)}
  BY DEF AssignMsgId, Ahead, StepsTo
<1>6. \A y \in FreeIds : StepsTo(msgID, y) \in 1..MAX_MSG_ID
  BY <1>3, OneStep
<1> HIDE DEF n
<1>7. SearchResult(n) \in FreeIds /\ \A y \in FreeIds : StepsTo(msgID, SearchResult(n)) <= StepsTo(msgID, y)
  <2>1. CASE n \notin IdsInUse
    <3>1. SearchResult(n) = n /\ n \in FreeIds
      BY <1>2, <2>1 DEF SearchResult, FreeIds
    <3>2. StepsTo(msgID, n) = 1
      BY <1>2, OneStep DEF n
    <3> QED BY <1>1, <1>6, <3>1, <3>2
  <2>2. CASE n \in IdsInUse
    <3>1. n \notin Stops
      BY <1>2, <2>2 DEF Stops
    <3>2. FirstStop(msgID) = FirstStop(n)
      BY <1>3, <3>1, FirstStopStep DEF n
    <3>3. /\ FirstStop(n) \in Stops
          /\ \A y \in Stops : StepsTo(msgID, FirstStop(n)) <= StepsTo(msgID, y)
      BY <1>3, <3>2, FirstStopIs
    <3>4. FirstStop(n) # msgID
      <4>1. PICK y \in FreeIds : TRUE
        OBVIOUS
      <4>2. y \in MsgId /\ y \in Stops /\ y # msgID
        BY <1>3, <4>1 DEF FreeIds
      <4>3. ASSUME FirstStop(n) = msgID PROVE FALSE
        <5>1. msgID \in MsgId
          BY <1>3, <3>3, <4>3
        <5>2. StepsTo(msgID, msgID) = MAX_MSG_ID
          BY <5>1, OneStep
        <5>3. StepsTo(msgID, y) >= MAX_MSG_ID
          BY <3>3, <4>2, <4>3, <5>2
        <5>4. StepsTo(msgID, y) \in 1..MAX_MSG_ID
          BY <4>2, OneStep
        <5>5. StepsTo(msgID, y) = StepsTo(msgID, msgID)
          BY <1>1, <5>2, <5>3, <5>4
        <5> QED BY <4>2, <5>1, <5>5, OneStep
      <4> QED BY <4>3
    <3>5. FirstStop(n) \in FreeIds
      BY <3>3, <3>4 DEF Stops, FreeIds
    <3> QED BY <1>3, <2>2, <3>3, <3>4, <3>5 DEF SearchResult
  <2> QED BY <2>1, <2>2
<1>8. \A z \in AssignMsgId : z = SearchResult(n)
  BY <1>3, <1>5, <1>7, NearestUnique
<1> QED BY <1>4, <1>5, <1>7, <1>8 DEF n

\* The search by steps and the choice by distance agree whenever a publisher may look for
\* an id, for every size of the id space (MQTTProtocol_assignMsgId).
THEOREM SearchRight == Spec => []SearchAgrees
<1>1. TypeOK /\ WindowInv => SearchAgrees
  <2> SUFFICES ASSUME TypeOK, WindowInv, ~Full PROVE AssignMsgId = {Search[NextId(msgID)]}
    BY DEF SearchAgrees
  <2>1. msgID \in Token /\ outboundMsgs \subseteq Message
    BY DEF TypeOK, ClientTypeOK
  <2>2. IdsInUse \subseteq MsgId
    BY <2>1 DEF IdsInUse, Message
  <2> QED BY <2>1, <2>2, FreeIdExists, SearchFinds
<1> QED
  BY <1>1, TypeCorrect, WindowInvariant, PTL
=============================================================================
