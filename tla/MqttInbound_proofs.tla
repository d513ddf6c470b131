-------------------------- MODULE MqttInbound_proofs -------------------------
(* Receiving, for every set of messages, every id space and any number of    *)
(* publications that disturb the connection.                                 *)
EXTENDS MqttInbound, SequenceTheorems, TLAPS

\* What the broker sends: always about a message, at QoS 2 with an id.
FromBrokerPacket == {p \in Packet : p.msg \in Msg /\ (p.qos = 2 => p.id > 0)}

\* TypeOK is not inductive: that a publication can be stored rests on the id the
\* broker gave it when it was first sent.
TypeInv ==
    /\ TypeOK
    /\ toClient \in Seq(FromBrokerPacket)
    /\ \A m \in Msg : exchange[m] # "new" /\ qos[m] = 2 => id[m] > 0

\* The empty sequence is a sequence of anything.
LEMMA EmptyType == \A S : <<>> \in Seq(S) /\ Len(<<>>) = 0
  OBVIOUS

LEMMA TypeInit == Init => TypeInv
<1> SUFFICES ASSUME Init PROVE TypeInv
  OBVIOUS
<1>1. qos \in [Msg -> 0..2] /\ resent \subseteq Msg
  BY InboundAssumption DEF Init
<1>2. id \in [Msg -> Id] /\ delivered \in [Msg -> Nat]
  BY InboundAssumption DEF Init, Id
<1>3. /\ exchange \in [Msg -> {"new", "sent", "released", "done"}]
      /\ \A m \in Msg : exchange[m] = "new"
  BY DEF Init
<1>4. inboundMsgs \subseteq Message /\ \A e, f \in inboundMsgs : e.msgid = f.msgid => e = f
  BY DEF Init
<1>5. /\ messageQueue \in Seq(Msg) /\ writing \in Seq(Packet) /\ Len(writing) <= 1
      /\ toBroker \in Seq(Packet) /\ toClient \in Seq(Packet) /\ toClient \in Seq(FromBrokerPacket)
  BY EmptyType DEF Init
<1>6. /\ connected \in BOOLEAN /\ socket \in {0, Fd} /\ network \in {"up", "silent", "reset"}
      /\ disc \in {"no", "draining", "done"}
      /\ running \in BOOLEAN /\ tostop \in BOOLEAN
      /\ runPc \in {"select", "cycle", "after", "callback", "dead"}
      /\ runSock \in {0, Fd} /\ runRc \in {"ok", "error"}
  BY DEF Init
<1>7. published \in 0..MaxPublish
  BY InboundAssumption DEF Init
<1> QED
  BY <1>1, <1>2, <1>3, <1>4, <1>5, <1>6, <1>7 DEF TypeInv, TypeOK

\* The two ends of what is under way to the client.
LEMMA ChannelEnds ==
  ASSUME NEW S, NEW q \in Seq(S)
  PROVE  /\ q # <<>> => Head(q) \in S /\ Tail(q) \in Seq(S)
         /\ \A p \in S : Append(q, p) \in Seq(S) /\ Len(<<p>>) <= 1 /\ <<p>> \in Seq(S)
  OBVIOUS

LEMMA ReplyType ==
  ASSUME NEW p \in Packet,
         NEW t \in {"PUBLISH", "PUBACK", "PUBREC", "PUBREL", "PUBCOMP"}
  PROVE  Reply(p, t) \in Packet
  BY DEF Reply, Packet

\* A closed session is well typed.
LEMMA CloseType ==
  ASSUME TypeInv, CloseSession
  PROVE  /\ connected' \in BOOLEAN /\ socket' \in {0, Fd}
         /\ inboundMsgs' = {} /\ messageQueue' \in Seq(Msg)
         /\ writing' \in Seq(Packet) /\ Len(writing') <= 1
         /\ toBroker' \in Seq(Packet) /\ toClient' \in Seq(Packet) /\ toClient' \in Seq(FromBrokerPacket)
         /\ network' \in {"up", "silent", "reset"}
<1>1. /\ connected' = FALSE /\ socket' = 0 /\ inboundMsgs' = {} /\ messageQueue' = <<>>
      /\ writing' = <<>> /\ toClient' = <<>> /\ UNCHANGED <<toBroker, network>>
  BY DEF CloseSession
<1>2. /\ messageQueue' \in Seq(Msg) /\ writing' \in Seq(Packet) /\ Len(writing') <= 1
      /\ toClient' \in Seq(Packet) /\ toClient' \in Seq(FromBrokerPacket)
  BY <1>1, EmptyType
<1>3. toBroker' \in Seq(Packet) /\ network' \in {"up", "silent", "reset"}
  BY <1>1 DEF TypeInv, TypeOK
<1> QED
  BY <1>1, <1>2, <1>3

\* The application: it writes, closes, or begins to.
LEMMA AppType == TypeInv /\ AppStep => TypeInv'
<1> SUFFICES ASSUME TypeInv, AppStep PROVE TypeInv'
  OBVIOUS
<1> USE DEF TypeInv
<1>1. CASE PublishInterrupted
  <2>1. writing' \in Seq(Packet) /\ Len(writing') <= 1
    <3> DEFINE p == [type |-> "PUBLISH", id |-> 0, qos |-> 0, dup |-> FALSE, msg |-> NoMsg]
    <3>1. p \in Packet /\ writing' = <<p>>
      BY <1>1, InboundAssumption DEF PublishInterrupted, Packet, Id
    <3> HIDE DEF p
    <3> QED
      BY <3>1, ChannelEnds
  <2>2. published' \in 0..MaxPublish
    BY <1>1, InboundAssumption DEF PublishInterrupted, TypeOK
  <2> QED
    BY <1>1, <2>1, <2>2 DEF PublishInterrupted, TypeOK, clientVars, brokerVars, stopVars, runVars
<1>2. CASE PublishError
  <2>1. published' \in 0..MaxPublish
    BY <1>2, InboundAssumption DEF PublishError, TypeOK
  <2> QED
    BY <1>2, <2>1, CloseType DEF PublishError, StopThread, TypeOK, brokerVars, runVars
<1>3. CASE DisconnectStart
  BY <1>3 DEF DisconnectStart, TypeOK, clientVars, netVars, brokerVars, stopVars, runVars
<1>4. CASE DisconnectDrained \/ DisconnectTimedOut \/ DisconnectClosed
  BY <1>4, CloseType DEF DisconnectDrained, DisconnectTimedOut, DisconnectClosed, DisconnectClose,
                         StopThread, TypeOK, brokerVars, runVars
<1> QED
  BY <1>1, <1>2, <1>3, <1>4 DEF AppStep

\* The end of a cycle is well typed when what the handler left is.
LEMMA EndCycleType ==
  ASSUME TypeInv,
         NEW inb \in SUBSET Message, \A e, f \in inb : e.msgid = f.msgid => e = f,
         NEW queue \in Seq(Msg), NEW tb \in Seq(Packet),
         NEW wr \in Seq(Packet), Len(wr) <= 1, NEW tc \in Seq(FromBrokerPacket),
         NEW rc \in {"ok", "error"}, EndCycle(inb, queue, tb, wr, tc, rc)
  PROVE  TypeInv'
<1>1. tc \in Seq(Packet)
  BY DEF FromBrokerPacket
<1>2. CASE /\ inboundMsgs' = inb /\ messageQueue' = queue
           /\ toBroker' = tb /\ writing' = wr /\ toClient' = tc
           /\ UNCHANGED <<connected, socket, network, stopVars>>
  BY <1>1, <1>2 DEF EndCycle, TypeInv, TypeOK, brokerVars, appVars, stopVars
<1>3. CASE /\ connected /\ StopThread
           /\ connected' = FALSE /\ socket' = 0
           /\ inboundMsgs' = {} /\ messageQueue' = <<>>
           /\ writing' = <<>> /\ toClient' = <<>> /\ toBroker' = tb
           /\ UNCHANGED network
  <2>1. /\ messageQueue' \in Seq(Msg) /\ writing' \in Seq(Packet) /\ Len(writing') <= 1
        /\ toClient' \in Seq(Packet) /\ toClient' \in Seq(FromBrokerPacket)
    BY <1>3, EmptyType
  <2>2. inboundMsgs' \subseteq Message /\ \A e, f \in inboundMsgs' : e.msgid = f.msgid => e = f
    BY <1>3
  <2> QED
    BY <1>3, <2>1, <2>2 DEF EndCycle, StopThread, TypeInv, TypeOK, brokerVars, appVars
<1> QED
  BY <1>2, <1>3 DEF EndCycle

\* An acknowledgement is one more packet for the broker, whole or in part.
LEMMA AcknowledgeType ==
  ASSUME TypeInv, NEW ack \in Packet, toClient # <<>>,
         NEW inb \in SUBSET Message, \A e, f \in inb : e.msgid = f.msgid => e = f,
         NEW queue \in Seq(Msg), Acknowledge(ack, inb, queue)
  PROVE  TypeInv'
<1>1. /\ toBroker \in Seq(Packet) /\ writing \in Seq(Packet) /\ Len(writing) <= 1
      /\ Tail(toClient) \in Seq(FromBrokerPacket)
  BY ChannelEnds DEF TypeInv, TypeOK
<1>2. Sent(ack) \in Seq(Packet) /\ <<ack>> \in Seq(Packet) /\ Len(<<ack>>) <= 1
  BY <1>1, ChannelEnds DEF Sent
<1>3. PICK tb \in {toBroker, Sent(ack)}, wr \in {writing, <<ack>>}, rc \in {"ok", "error"} :
         EndCycle(inb, queue, tb, wr, Tail(toClient), rc)
  BY DEF Acknowledge
<1>4. tb \in Seq(Packet) /\ wr \in Seq(Packet) /\ Len(wr) <= 1
  BY <1>1, <1>2
<1> QED
  BY <1>1, <1>3, <1>4, EndCycleType

LEMMA HandlerType ==
  TypeInv /\ (\/ CycleIdle \/ CycleReadError
              \/ HandlePublish0 \/ HandlePublish1 \/ HandlePublish2 \/ HandlePubrel) => TypeInv'
<1> SUFFICES ASSUME TypeInv,
                    \/ CycleIdle \/ CycleReadError
                    \/ HandlePublish0 \/ HandlePublish1 \/ HandlePublish2 \/ HandlePubrel
             PROVE  TypeInv'
  OBVIOUS
<1> DEFINE p == Head(toClient)
<1>0. /\ inboundMsgs \in SUBSET Message /\ messageQueue \in Seq(Msg)
      /\ \A e, f \in inboundMsgs : e.msgid = f.msgid => e = f
      /\ toBroker \in Seq(Packet) /\ writing \in Seq(Packet) /\ Len(writing) <= 1
      /\ toClient \in Seq(FromBrokerPacket) /\ runRc \in {"ok", "error"}
  BY DEF TypeInv, TypeOK
<1>1. toClient # <<>> => /\ Tail(toClient) \in Seq(FromBrokerPacket)
                         /\ p \in Packet /\ p.msg \in Msg /\ (p.qos = 2 => p.id \in 1..MaxId)
                         /\ Append(messageQueue, p.msg) \in Seq(Msg)
                         /\ \A t \in {"PUBACK", "PUBREC", "PUBCOMP"} : Reply(p, t) \in Packet
  <2> SUFFICES ASSUME toClient # <<>>
               PROVE  /\ Tail(toClient) \in Seq(FromBrokerPacket)
                      /\ p \in Packet /\ p.msg \in Msg /\ (p.qos = 2 => p.id \in 1..MaxId)
                      /\ Append(messageQueue, p.msg) \in Seq(Msg)
                      /\ \A t \in {"PUBACK", "PUBREC", "PUBCOMP"} : Reply(p, t) \in Packet
    OBVIOUS
  <2>1. p \in FromBrokerPacket /\ Tail(toClient) \in Seq(FromBrokerPacket)
    BY <1>0, ChannelEnds
  <2>2. p \in Packet /\ p.msg \in Msg /\ (p.qos = 2 => p.id > 0) /\ p.id \in 0..MaxId
    BY <2>1 DEF FromBrokerPacket, Packet, Id
  <2> HIDE DEF p
  <2>3. \A t \in {"PUBACK", "PUBREC", "PUBCOMP"} : Reply(p, t) \in Packet
    BY <2>2, ReplyType
  <2>4. Append(messageQueue, p.msg) \in Seq(Msg)
    BY <1>0, <2>2, ChannelEnds
  <2> QED
    BY <2>1, <2>2, <2>3, <2>4, InboundAssumption
<1> HIDE DEF p
<1>2. ASSUME NEW rc \in {"ok", "error"}, toClient # <<>>, Ignore(rc) PROVE TypeInv'
  BY <1>0, <1>1, <1>2, EndCycleType DEF Ignore
<1>3. CASE CycleIdle \/ CycleReadError
  <2>1. PICK rc \in {"ok", "error"} :
           EndCycle(inboundMsgs, messageQueue, toBroker, writing, toClient, rc)
    BY <1>0, <1>3 DEF CycleIdle, CycleReadError
  <2> QED
    BY <1>0, <2>1, EndCycleType
<1>4. CASE HandlePublish0
  BY <1>0, <1>1, <1>4, EndCycleType DEF HandlePublish0, Reading, p
<1>5. CASE HandlePublish1
  <2>1. toClient # <<>>
    BY <1>5 DEF HandlePublish1, Reading
  <2>2. Ignore("error") \/ Acknowledge(Reply(p, "PUBACK"), inboundMsgs, Append(messageQueue, p.msg))
    BY <1>5 DEF HandlePublish1, p
  <2> QED
    BY <1>0, <1>1, <1>2, <2>1, <2>2, AcknowledgeType
<1>6. CASE HandlePublish2
  <2> DEFINE stored == (inboundMsgs \ EntryOf(p)) \cup {[msgid |-> p.id, msg |-> p.msg]}
  <2>1. toClient # <<>> /\ p.qos = 2
    BY <1>6 DEF HandlePublish2, Reading, p
  <2>2. Ignore("error") \/ Acknowledge(Reply(p, "PUBREC"), stored, messageQueue)
    BY <1>6 DEF HandlePublish2, p
  <2>3. stored \in SUBSET Message
    BY <1>0, <1>1, <2>1 DEF Message
  <2>4. \A e, f \in stored : e.msgid = f.msgid => e = f
    BY <1>0 DEF EntryOf
  <2> HIDE DEF stored
  <2> QED
    BY <1>0, <1>1, <1>2, <2>1, <2>2, <2>3, <2>4, AcknowledgeType
<1>7. CASE HandlePubrel
  <2>1. toClient # <<>>
    BY <1>7 DEF HandlePubrel, Reading
  <2>2. CASE \E rc \in {"ok", "error"} : Ignore(rc)
    BY <1>2, <2>1, <2>2
  <2>3. CASE Acknowledge(Reply(p, "PUBCOMP"), inboundMsgs, messageQueue)
    BY <1>0, <1>1, <2>1, <2>3, AcknowledgeType
  <2>4. ASSUME NEW e \in EntryOf(p),
               Acknowledge(Reply(p, "PUBCOMP"), inboundMsgs \ {e}, Append(messageQueue, e.msg))
        PROVE  TypeInv'
    <3>1. e.msg \in Msg /\ inboundMsgs \ {e} \in SUBSET Message
      BY <1>0 DEF EntryOf, Message
    <3>2. Append(messageQueue, e.msg) \in Seq(Msg)
      BY <1>0, <3>1, ChannelEnds
    <3> QED
      BY <1>0, <1>1, <2>1, <2>4, <3>1, <3>2, AcknowledgeType
  <2> QED
    BY <1>7, <2>2, <2>3, <2>4 DEF HandlePubrel, p
<1> QED
  BY <1>3, <1>4, <1>5, <1>6, <1>7

\* After a cycle, select and the rest of a write.
LEMMA LoopType ==
  TypeInv /\ (\/ RunSelect \/ ContinueWrite \/ RunStops \/ RunLosesConnection
              \/ RunDelivers \/ RunGoesOn \/ CallbackReturns) => TypeInv'
<1> SUFFICES ASSUME TypeInv,
                    \/ RunSelect \/ ContinueWrite \/ RunStops \/ RunLosesConnection
                    \/ RunDelivers \/ RunGoesOn \/ CallbackReturns
             PROVE  TypeInv'
  OBVIOUS
<1> USE DEF TypeInv
<1>1. CASE RunSelect \/ RunStops \/ RunGoesOn
  <2>1. UNCHANGED <<clientVars, netVars, brokerVars, appVars>>
    BY <1>1 DEF RunSelect, RunStops, RunGoesOn
  <2>2. /\ running' \in BOOLEAN /\ tostop' \in BOOLEAN
        /\ runPc' \in {"select", "cycle", "dead"}
        /\ runSock' \in {0, Fd} /\ runRc' \in {"ok", "error"}
    BY <1>1 DEF RunSelect, RunStops, RunGoesOn, EndThread, TypeOK, stopVars
  <2> QED
    BY <2>1, <2>2 DEF TypeOK, clientVars, netVars, brokerVars, appVars
<1>2. CASE ContinueWrite
  <2>1. Head(writing) \in Packet
    BY <1>2, ChannelEnds DEF ContinueWrite, Busy, TypeOK
  <2>2. toBroker' \in Seq(Packet) /\ writing' \in Seq(Packet) /\ Len(writing') <= 1
    BY <1>2, <2>1, ChannelEnds, EmptyType DEF ContinueWrite, Sent, TypeOK
  <2> QED
    BY <1>2, <2>2 DEF ContinueWrite, TypeOK, clientVars, brokerVars, appVars, stopVars, runVars
<1>3. CASE RunLosesConnection
  BY <1>3, CloseType DEF RunLosesConnection, EndThread, TypeOK, brokerVars, appVars
<1>4. CASE RunDelivers
  <2>1. Head(messageQueue) \in Msg
    BY <1>4, ChannelEnds DEF RunDelivers, TypeOK
  <2>2. delivered' \in [Msg -> Nat]
    BY <1>4, <2>1 DEF RunDelivers, TypeOK
  <2> QED
    BY <1>4, <2>2 DEF RunDelivers, TypeOK, clientVars, netVars, brokerVars, stopVars
<1>5. CASE CallbackReturns
  <2>1. messageQueue' \in Seq(Msg)
    BY <1>5, ChannelEnds DEF CallbackReturns, TypeOK
  <2> QED
    BY <1>5, <2>1 DEF CallbackReturns, EndThread, TypeOK, netVars, brokerVars, appVars, stopVars
<1> QED
  BY <1>1, <1>2, <1>3, <1>4, <1>5

\* A packet from the broker about a message that has its id.
LEMMA FromBrokerType ==
  ASSUME TypeInv, NEW m \in Msg, NEW i \in Id, qos[m] = 2 => i > 0,
         NEW t \in {"PUBLISH", "PUBREL"}, NEW d \in BOOLEAN, FromBroker(t, m, i, d)
  PROVE  toClient' \in Seq(FromBrokerPacket) /\ toClient' \in Seq(Packet)
<1> DEFINE p == [type |-> t, id |-> i, qos |-> qos[m], dup |-> d, msg |-> m]
<1>1. p \in FromBrokerPacket /\ p \in Packet /\ toClient' = Append(toClient, p)
  BY DEF TypeInv, TypeOK, FromBroker, FromBrokerPacket, Packet
<1> HIDE DEF p
<1> QED
  BY <1>1, ChannelEnds DEF TypeInv, TypeOK

\* The broker, the network and the kernel.
LEMMA OutsideType == TypeInv /\ (BrokerStep \/ NetworkFails \/ TcpGivesUp) => TypeInv'
<1> SUFFICES ASSUME TypeInv, BrokerStep \/ NetworkFails \/ TcpGivesUp PROVE TypeInv'
  OBVIOUS
<1>0. /\ qos \in [Msg -> 0..2] /\ id \in [Msg -> Id] /\ 0 \in Id
      /\ exchange \in [Msg -> {"new", "sent", "released", "done"}]
      /\ \A m \in Msg : exchange[m] # "new" /\ qos[m] = 2 => id[m] > 0
  BY InboundAssumption DEF TypeInv, TypeOK, Id
<1>1. ASSUME NEW m \in Msg, BrokerPublishes(m) PROVE TypeInv'
  <2>1. PICK i \in IF qos[m] = 0 THEN {0} ELSE FreeIds :
           id' = [id EXCEPT ![m] = i] /\ FromBroker("PUBLISH", m, i, FALSE)
    BY <1>1 DEF BrokerPublishes
  <2>2. i \in Id /\ (qos[m] = 2 => i > 0)
    BY <1>0, <2>1, InboundAssumption DEF FreeIds, Id
  <2>3. toClient' \in Seq(FromBrokerPacket) /\ toClient' \in Seq(Packet)
    BY <2>1, <2>2, FromBrokerType
  <2>4. id' \in [Msg -> Id] /\ exchange' \in [Msg -> {"new", "sent", "released", "done"}] /\ qos' = qos
    BY <1>0, <1>1, <2>1, <2>2 DEF BrokerPublishes
  <2>5. \A n \in Msg : exchange'[n] # "new" /\ qos[n] = 2 => id'[n] > 0
    BY <1>0, <1>1, <2>1, <2>2 DEF BrokerPublishes
  <2> QED
    BY <1>1, <2>3, <2>4, <2>5
       DEF BrokerPublishes, TypeInv, TypeOK, clientVars, appVars, stopVars, runVars
<1>2. ASSUME NEW m \in Msg, BrokerResends(m) PROVE TypeInv'
  <2>1. exchange[m] # "new" /\ qos[m] = 2
    BY <1>2 DEF BrokerResends
  <2>2. id[m] \in Id /\ id[m] > 0
    BY <1>0, <2>1
  <2>3. toClient' \in Seq(FromBrokerPacket) /\ toClient' \in Seq(Packet)
    BY <1>2, <2>2, FromBrokerType DEF BrokerResends
  <2>4. resent' \subseteq Msg
    BY <1>2 DEF BrokerResends, TypeInv, TypeOK
  <2> QED
    BY <1>2, <2>3, <2>4
       DEF BrokerResends, TypeInv, TypeOK, clientVars, appVars, stopVars, runVars
<1>3. CASE BrokerTakes
  <2> DEFINE p == Head(toBroker)
             next == IF p.type = "PUBREC" THEN "released" ELSE "done"
  <2>1. toBroker # <<>> /\ toBroker' = Tail(toBroker)
    BY <1>3 DEF BrokerTakes
  <2>2. toBroker' \in Seq(Packet) /\ p.id \in Id
    <3>1. p \in Packet /\ Tail(toBroker) \in Seq(Packet)
      BY <2>1, ChannelEnds DEF TypeInv, TypeOK
    <3>2. p.id \in Id
      BY <3>1 DEF Packet
    <3> QED
      BY <2>1, <3>1, <3>2
  <2>3. exchange' = [m \in Msg |-> IF m \in Acknowledged(p) THEN next ELSE exchange[m]]
    BY <1>3 DEF BrokerTakes
  <2>4. /\ exchange' \in [Msg -> {"new", "sent", "released", "done"}]
        /\ \A m \in Msg : exchange'[m] # "new" => exchange[m] # "new"
    <3>1. next \in {"released", "done"}
      OBVIOUS
    <3>2. \A m \in Acknowledged(p) : exchange[m] # "new"
      BY DEF Acknowledged
    <3> QED
      BY <1>0, <2>3, <3>1, <3>2
  <2>5. toClient' \in Seq(FromBrokerPacket) /\ toClient' \in Seq(Packet)
    <3>1. CASE UNCHANGED toClient
      BY <3>1 DEF TypeInv, TypeOK
    <3>2. ASSUME NEW m \in Acknowledged(p), FromBroker("PUBREL", m, p.id, FALSE)
          PROVE  toClient' \in Seq(FromBrokerPacket) /\ toClient' \in Seq(Packet)
      <4>1. m \in Msg /\ id[m] = p.id /\ exchange[m] # "new"
        BY <3>2 DEF Acknowledged
      <4>2. qos[m] = 2 => p.id > 0
        BY <1>0, <4>1
      <4> HIDE DEF p
      <4> QED
        BY <2>2, <3>2, <4>1, <4>2, FromBrokerType
    <3> QED
      BY <1>3, <3>1, <3>2 DEF BrokerTakes
  <2>6. UNCHANGED <<clientVars, writing, network, qos, id, resent, appVars, stopVars, runVars>>
    BY <1>3 DEF BrokerTakes
  <2> QED
    BY <2>2, <2>4, <2>5, <2>6 DEF TypeInv, TypeOK, clientVars, appVars, stopVars, runVars
<1>4. CASE NetworkFails
  <2>1. /\ toBroker' \in Seq(Packet) /\ toClient' \in Seq(Packet) /\ toClient' \in Seq(FromBrokerPacket)
        /\ network' \in {"up", "silent", "reset"}
    BY <1>4, EmptyType DEF NetworkFails, TypeInv, TypeOK
  <2> QED
    BY <1>4, <2>1 DEF NetworkFails, TypeInv, TypeOK, clientVars, brokerVars, appVars, stopVars, runVars
<1>5. CASE TcpGivesUp
  BY <1>5 DEF TcpGivesUp, TypeInv, TypeOK, clientVars, brokerVars, appVars, stopVars, runVars
<1> QED
  BY <1>1, <1>2, <1>3, <1>4, <1>5 DEF BrokerStep

LEMMA TypeStep == TypeInv /\ [Next]_vars => TypeInv'
<1> SUFFICES ASSUME TypeInv, [Next]_vars PROVE TypeInv'
  OBVIOUS
<1>1. CASE UNCHANGED vars
  BY <1>1 DEF TypeInv, TypeOK, vars, clientVars, netVars, brokerVars, appVars, stopVars, runVars
<1> QED
  BY <1>1, AppType, HandlerType, LoopType, OutsideType DEF Next, RunStep, Terminated

\* TypeOK holds whatever the broker repeats, however ids are used again and
\* wherever the session is closed: the lists hold what was received, ids are not
\* stored twice, one packet at most is incomplete.
THEOREM TypeCorrect == Spec => []TypeOK
<1>1. TypeInv => TypeOK
  BY DEF TypeInv
<1> QED
  BY <1>1, TypeInit, TypeStep, PTL DEF Spec

-----------------------------------------------------------------------------
(* No message waits for the next one *)

\* Where a queued message can be: on its way from the handler to the callback, on
\* the socket the cycle has just read, so that the comparison of run sends the
\* thread to the callback and not back to select.
QueueInv ==
    /\ connected <=> socket = Fd
    /\ ~connected => messageQueue = <<>>
    /\ NoBacklog
    /\ runPc \in {"after", "callback"} => Len(messageQueue) <= 1
    /\ runPc = "after" /\ messageQueue # <<>> => runSock = Fd

LEMMA QueueInit == Init => QueueInv
  BY EmptyType DEF Init, QueueInv, NoBacklog, Fd

\* A cycle leaves the queue empty or with the one message it has read.
LEMMA EndCycleQueue ==
  ASSUME QueueInv, NEW inb, NEW queue, NEW tb, NEW wr, NEW tc, NEW rc,
         Len(queue) <= 1, queue # <<>> => runSock = Fd /\ socket = Fd,
         EndCycle(inb, queue, tb, wr, tc, rc)
  PROVE  QueueInv'
<1>1. runPc' = "after" /\ runSock' = runSock
  BY DEF EndCycle
<1>2. CASE messageQueue' = queue /\ UNCHANGED <<connected, socket>>
  BY <1>1, <1>2 DEF QueueInv, NoBacklog
<1>3. CASE connected' = FALSE /\ socket' = 0 /\ messageQueue' = <<>>
  BY <1>1, <1>3, EmptyType DEF QueueInv, NoBacklog, Fd
<1> QED
  BY <1>2, <1>3 DEF EndCycle

LEMMA HandlerQueue ==
  TypeOK /\ QueueInv /\ (\/ CycleIdle \/ CycleReadError
                         \/ HandlePublish0 \/ HandlePublish1 \/ HandlePublish2 \/ HandlePubrel)
     => QueueInv'
<1> SUFFICES ASSUME TypeOK, QueueInv,
                    \/ CycleIdle \/ CycleReadError
                    \/ HandlePublish0 \/ HandlePublish1 \/ HandlePublish2 \/ HandlePubrel
             PROVE  QueueInv'
  OBVIOUS
<1>1. messageQueue = <<>>
  BY DEF CycleIdle, CycleReadError, HandlePublish0, HandlePublish1, HandlePublish2, HandlePubrel,
         Reading, QueueInv, NoBacklog
<1>2. \A x : Len(Append(messageQueue, x)) <= 1
  BY <1>1
<1>3. ASSUME NEW inb, NEW tb, NEW wr, NEW tc, NEW rc,
             EndCycle(inb, messageQueue, tb, wr, tc, rc)
      PROVE  QueueInv'
  BY <1>1, <1>3, EmptyType, EndCycleQueue
<1>4. ASSUME NEW inb, NEW x, NEW tb, NEW wr, NEW tc, NEW rc, runSock = Fd, socket = Fd,
             EndCycle(inb, Append(messageQueue, x), tb, wr, tc, rc)
      PROVE  QueueInv'
  BY <1>2, <1>4, EndCycleQueue
<1>5. CASE CycleIdle \/ CycleReadError
  BY <1>3, <1>5 DEF CycleIdle, CycleReadError
<1>6. CASE HandlePublish0
  BY <1>4, <1>6 DEF HandlePublish0, Reading
<1>7. CASE HandlePublish1
  BY <1>3, <1>4, <1>7 DEF HandlePublish1, Reading, Ignore, Acknowledge
<1>8. CASE HandlePublish2
  BY <1>3, <1>8 DEF HandlePublish2, Ignore, Acknowledge
<1>9. CASE HandlePubrel
  BY <1>3, <1>4, <1>9 DEF HandlePubrel, Reading, Ignore, Acknowledge
<1> QED
  BY <1>5, <1>6, <1>7, <1>8, <1>9

LEMMA QueueStep == TypeOK /\ QueueInv /\ [Next]_vars => QueueInv'
<1> SUFFICES ASSUME TypeOK, QueueInv, [Next]_vars PROVE QueueInv'
  OBVIOUS
<1>1. CASE AppStep
  <2>1. CASE PublishInterrupted \/ DisconnectStart
    BY <2>1 DEF PublishInterrupted, DisconnectStart, QueueInv, NoBacklog, clientVars, runVars
  <2>2. CASE PublishError \/ DisconnectDrained \/ DisconnectTimedOut \/ DisconnectClosed
    BY <2>2, EmptyType
       DEF PublishError, DisconnectDrained, DisconnectTimedOut, DisconnectClosed, DisconnectClose,
           CloseSession, QueueInv, NoBacklog, runVars, Fd
  <2> QED
    BY <1>1, <2>1, <2>2 DEF AppStep
<1>2. CASE RunSelect \/ ContinueWrite
  BY <1>2 DEF RunSelect, ContinueWrite, QueueInv, NoBacklog, clientVars, runVars
<1>3. CASE RunStops
  BY <1>3 DEF RunStops, EndThread, QueueInv, NoBacklog, clientVars
<1>4. CASE RunLosesConnection
  BY <1>4 DEF RunLosesConnection, CloseSession, EndThread, QueueInv, NoBacklog, Fd
<1>5. CASE RunDelivers
  BY <1>5 DEF RunDelivers, QueueInv, NoBacklog, clientVars
<1>6. CASE RunGoesOn
  <2>1. messageQueue = <<>>
    BY <1>6 DEF RunGoesOn, QueueInv, TypeOK
  <2> QED
    BY <1>6, <2>1 DEF RunGoesOn, QueueInv, NoBacklog, clientVars
<1>7. CASE CallbackReturns
  <2>1. messageQueue' = <<>>
    BY <1>7 DEF CallbackReturns, QueueInv, TypeOK
  <2>2. UNCHANGED <<connected, socket>> /\ runPc' \in {"select", "dead"}
    BY <1>7 DEF CallbackReturns, EndThread
  <2> QED
    BY <2>1, <2>2 DEF QueueInv, NoBacklog
<1>8. CASE BrokerStep \/ NetworkFails \/ TcpGivesUp
  <2>1. UNCHANGED <<connected, socket, messageQueue, runPc, runSock>>
    BY <1>8 DEF BrokerStep, BrokerTakes, BrokerPublishes, BrokerResends, NetworkFails, TcpGivesUp,
                clientVars, runVars
  <2> QED
    BY <2>1 DEF QueueInv, NoBacklog
<1>9. CASE UNCHANGED vars
  BY <1>9 DEF vars, clientVars, runVars, QueueInv, NoBacklog
<1> QED
  BY <1>1, <1>2, <1>3, <1>4, <1>5, <1>6, <1>7, <1>8, <1>9, HandlerQueue DEF Next, RunStep, Terminated

\* What a cycle queued, the same pass of the loop hands to messageArrived, or a
\* closing session drops: no message is left for another packet to set free.
THEOREM NothingWaits == Spec => []NoBacklog
<1>1. QueueInv => NoBacklog
  BY DEF QueueInv
<1> QED
  BY <1>1, TypeCorrect, QueueInit, QueueStep, PTL DEF Spec

-----------------------------------------------------------------------------
(* No message arrives twice *)

Queued(m) == \E i \in 1..Len(messageQueue) : messageQueue[i] = m
Taken(m) == delivered[m] > 0 \/ Queued(m)
Stored(m) == \E e \in inboundMsgs : e.msg = m

IsPublish(p, m) == p.type = "PUBLISH" /\ p.msg = m
IsPubrel(p, m) == p.type = "PUBREL" /\ p.id = id[m]

\* What the broker sends, in the order the client reads it: no PUBLISH of a message
\* the queue or the application has; one only, unless its QoS is 2; and at QoS 2 none
\* that could be stored again after a PUBREL of its id released the first.
Known(q) ==
    \A m \in Msg : \A k \in 1..Len(q) : IsPublish(q[k], m) =>
        exchange[m] # "new" /\ ~Taken(m) /\ q[k].id = id[m] /\ q[k].qos = qos[m]
Single(q) ==
    \A m \in Msg : qos[m] # 2 =>
        \A j, k \in 1..Len(q) : IsPublish(q[j], m) /\ IsPublish(q[k], m) => j = k
SentFirst(q) ==
    \A m \in Msg : qos[m] = 2 /\ exchange[m] = "sent" =>
        /\ \A j, k \in 1..Len(q) : IsPublish(q[j], m) /\ IsPubrel(q[k], m) => k < j
        /\ Stored(m) => \A k \in 1..Len(q) : ~IsPubrel(q[k], m)
NoneAfter(q) ==
    \A m \in Msg : qos[m] = 2 =>
        \A j, k \in 1..Len(q) : j < k /\ IsPubrel(q[j], m) /\ IsPublish(q[k], m) =>
            ~Stored(m) /\ \A i \in 1..Len(q) : IsPublish(q[i], m) => j < i
Order(q) == Known(q) /\ Single(q) /\ SentFirst(q) /\ NoneAfter(q)

Active(m) == exchange[m] \in {"sent", "released"}

OnceInv ==
    /\ \A m \in Msg : delivered[m] <= 1
    /\ runPc # "callback" => \A m \in Msg : Queued(m) => delivered[m] = 0
    /\ \A m \in Msg : Taken(m) =>
          exchange[m] # "new" /\ ~Stored(m) /\ (qos[m] = 2 => exchange[m] # "sent")
    /\ \A e \in inboundMsgs : id[e.msg] = e.msgid /\ qos[e.msg] = 2 /\ exchange[e.msg] # "new"
    /\ \A m, n \in Msg : Active(m) /\ Active(n) /\ id[m] = id[n] => m = n
    /\ Order(toClient)

LEMMA OnceInit == Init => OnceInv
<1> SUFFICES ASSUME Init PROVE OnceInv
  OBVIOUS
<1>1. toClient = <<>> /\ Len(toClient) = 0 /\ Len(messageQueue) = 0
  BY EmptyType DEF Init
<1>2. Order(toClient)
  BY <1>1 DEF Order, Known, Single, SentFirst, NoneAfter
<1> QED
  BY <1>1, <1>2 DEF Init, OnceInv, Taken, Queued, Stored, Active

\* The order stays when the first packet is read.
LEMMA TailOrder ==
  ASSUME NEW q \in Seq(Packet), q # <<>>, Order(q)
  PROVE  Order(Tail(q))
<1> DEFINE r == Tail(q)
<1>1. Len(q) \in Nat /\ Len(r) = Len(q) - 1 /\ \A i \in 1..Len(r) : r[i] = q[i + 1] /\ i + 1 \in 1..Len(q)
  OBVIOUS
<1> HIDE DEF r
<1>2. Known(r) /\ Single(r)
  BY <1>1 DEF Order, Known, Single
<1>3. SentFirst(r)
  BY <1>1 DEF Order, SentFirst
<1>4. NoneAfter(r)
  <2>1. ASSUME NEW m \in Msg, qos[m] = 2, NEW j \in 1..Len(r), NEW k \in 1..Len(r), j < k,
               IsPubrel(r[j], m), IsPublish(r[k], m)
        PROVE  ~Stored(m) /\ \A i \in 1..Len(r) : IsPublish(r[i], m) => j < i
    <3>1. ~Stored(m) /\ \A i \in 1..Len(q) : IsPublish(q[i], m) => j + 1 < i
      BY <1>1, <2>1 DEF Order, NoneAfter
    <3> QED
      BY <1>1, <3>1
  <2> QED
    BY <2>1 DEF NoneAfter
<1> QED
  BY <1>2, <1>3, <1>4 DEF Order, r

\* What the order of a channel says still holds after a step that hands on no
\* message of which it holds a PUBLISH and stores none that it may release again.
LEMMA OrderStays ==
  ASSUME NEW q, Order(q), UNCHANGED <<qos, id, exchange>>, toClient' = q,
         \A m \in Msg : Taken(m)' => Taken(m) \/ \A k \in 1..Len(q) : ~IsPublish(q[k], m),
         \A m \in Msg : Stored(m)' =>
            \/ Stored(m)
            \/ /\ exchange[m] = "sent" => \A k \in 1..Len(q) : ~IsPubrel(q[k], m)
               /\ \A j, k \in 1..Len(q) : ~ (j < k /\ IsPubrel(q[j], m) /\ IsPublish(q[k], m))
  PROVE  Order(toClient)'
<1>1. Known(toClient)' /\ Single(toClient)'
  BY DEF Order, Known, Single, IsPublish
<1>2. SentFirst(toClient)'
  BY DEF Order, SentFirst, IsPublish, IsPubrel
<1>3. NoneAfter(toClient)'
  BY DEF Order, NoneAfter, IsPublish, IsPubrel
<1> QED
  BY <1>1, <1>2, <1>3 DEF Order

\* Nothing is handed on or stored: packets are read, lost or left alone.
LEMMA QuietOnce ==
  ASSUME TypeOK, OnceInv, UNCHANGED <<qos, id, exchange, delivered>>,
         messageQueue' = messageQueue \/ Len(messageQueue') = 0,
         inboundMsgs' \subseteq inboundMsgs,
         toClient' \in {toClient, <<>>} \/ (toClient # <<>> /\ toClient' = Tail(toClient)),
         runPc = "callback" => runPc' = "callback" \/ Len(messageQueue') = 0
  PROVE  OnceInv'
<1>1. \A m \in Msg : (Taken(m)' => Taken(m)) /\ (Stored(m)' => Stored(m)) /\ (Queued(m)' => Queued(m))
  BY DEF Taken, Queued, Stored
<1>2. Order(toClient)'
  <2>1. Order(toClient) /\ Order(<<>>)
    BY EmptyType DEF OnceInv, Order, Known, Single, SentFirst, NoneAfter
  <2>2. toClient # <<>> => Order(Tail(toClient))
    BY <2>1, TailOrder DEF TypeOK
  <2>3. PICK q : q = toClient' /\ Order(q)
    BY <2>1, <2>2
  <2> QED
    BY <1>1, <2>3, OrderStays
<1>3. runPc' # "callback" => \A m \in Msg : Queued(m)' => delivered'[m] = 0
  BY <1>1 DEF OnceInv, Queued
<1>4. \A m \in Msg : Taken(m)' => exchange'[m] # "new" /\ ~Stored(m)' /\ (qos'[m] = 2 => exchange'[m] # "sent")
  BY <1>1 DEF OnceInv, Stored
<1> QED
  BY <1>2, <1>3, <1>4 DEF OnceInv, Active

\* What a cycle leaves: the handler's lists, or nothing.
LEMMA EndCycleCases ==
  ASSUME NEW inb, NEW queue, NEW tb, NEW wr, NEW tc, NEW rc, EndCycle(inb, queue, tb, wr, tc, rc)
  PROVE  /\ runPc' = "after" /\ UNCHANGED <<qos, id, exchange, resent, delivered>>
         /\ \/ inboundMsgs' = inb /\ messageQueue' = queue /\ toClient' = tc
            \/ inboundMsgs' = {} /\ messageQueue' = <<>> /\ toClient' = <<>>
  BY DEF EndCycle, brokerVars, appVars

\* A message is queued of which no packet is left that could queue it again.
LEMMA QueueOnce ==
  ASSUME TypeOK, OnceInv, NEW m \in Msg, messageQueue = <<>>, messageQueue' = Append(messageQueue, m),
         toClient # <<>>, toClient' = Tail(toClient), runPc' = "after",
         UNCHANGED <<qos, id, exchange, delivered>>, inboundMsgs' \subseteq inboundMsgs,
         ~Taken(m), exchange[m] # "new", ~Stored(m)', qos[m] = 2 => exchange[m] # "sent",
         \A k \in 1..Len(Tail(toClient)) : ~IsPublish(Tail(toClient)[k], m)
  PROVE  OnceInv'
<1>1. \A n \in Msg : (Queued(n)' <=> n = m) /\ ~Queued(n)
  <2>1. Len(messageQueue) = 0 /\ Len(messageQueue') = 1 /\ messageQueue'[1] = m
    BY EmptyType
  <2> QED
    BY <2>1 DEF Queued
<1>2. \A n \in Msg : (Taken(n)' => Taken(n) \/ n = m) /\ (Stored(n)' => Stored(n))
  BY <1>1 DEF Taken, Stored
<1>3. Order(toClient)'
  <2>1. Order(Tail(toClient))
    BY TailOrder DEF OnceInv, TypeOK
  <2>2. PICK q : q = Tail(toClient)
    OBVIOUS
  <2> QED
    BY <1>2, <2>1, <2>2, OrderStays
<1>4. delivered'[m] = 0
  BY DEF Taken, TypeOK
<1>5. \A n \in Msg : Taken(n)' => exchange'[n] # "new" /\ ~Stored(n)' /\ (qos'[n] = 2 => exchange'[n] # "sent")
  BY <1>2 DEF OnceInv
<1> QED
  BY <1>1, <1>3, <1>4, <1>5 DEF OnceInv, Active

\* The packet a handler has read.
LEMMA HeadOnce ==
  ASSUME TypeOK, OnceInv, toClient # <<>>
  PROVE  /\ Len(toClient) \in Nat /\ 1 \in 1..Len(toClient) /\ toClient[1] = Head(toClient)
         /\ Len(Tail(toClient)) \in Nat
         /\ \A k \in 1..Len(Tail(toClient)) : /\ Tail(toClient)[k] = toClient[k + 1]
                                              /\ k + 1 \in 1..Len(toClient) /\ 1 < k + 1
<1> toClient \in Seq(Packet)
  BY DEF TypeOK
<1> QED
  OBVIOUS

\* A publication at QoS 0 or 1 goes to the queue.
LEMMA PublishOnce ==
  ASSUME TypeOK, OnceInv, NEW m \in Msg, messageQueue = <<>>, messageQueue' = Append(messageQueue, m),
         toClient # <<>>, IsPublish(Head(toClient), m), Head(toClient).qos # 2,
         toClient' = Tail(toClient), runPc' = "after",
         UNCHANGED <<qos, id, exchange, delivered, inboundMsgs>>
  PROVE  OnceInv'
<1>1. IsPublish(toClient[1], m) /\ toClient[1].qos # 2
  BY HeadOnce
<1>2. exchange[m] # "new" /\ ~Taken(m) /\ qos[m] # 2
  BY <1>1, HeadOnce DEF OnceInv, Order, Known
<1>3. ~Stored(m)'
  BY <1>2 DEF OnceInv, Stored
<1>4. \A k \in 1..Len(Tail(toClient)) : ~IsPublish(Tail(toClient)[k], m)
  BY <1>1, <1>2, HeadOnce DEF OnceInv, Order, Single
<1> QED
  BY <1>2, <1>3, <1>4, QueueOnce

\* A publication at QoS 2 is stored: no PUBREL of its id has been sent yet, or none
\* that a PUBLISH of the same message follows.
LEMMA StoreOnce ==
  ASSUME TypeOK, OnceInv, NEW m \in Msg, messageQueue = <<>>, messageQueue' = messageQueue,
         toClient # <<>>, IsPublish(Head(toClient), m), Head(toClient).qos = 2,
         inboundMsgs' = (inboundMsgs \ EntryOf(Head(toClient)))
                           \cup {[msgid |-> Head(toClient).id, msg |-> m]},
         toClient' = Tail(toClient), runPc' = "after",
         UNCHANGED <<qos, id, exchange, delivered>>
  PROVE  OnceInv'
<1>1. IsPublish(toClient[1], m) /\ toClient[1].qos = 2 /\ toClient[1].id = Head(toClient).id
  BY HeadOnce
<1>2. exchange[m] # "new" /\ ~Taken(m) /\ qos[m] = 2 /\ Head(toClient).id = id[m]
  BY <1>1, HeadOnce DEF OnceInv, Order, Known
<1>3. \A n \in Msg : Stored(n)' => Stored(n) \/ n = m
  BY DEF Stored
<1>4. \A n \in Msg : (Taken(n)' <=> Taken(n)) /\ (Queued(n)' <=> Queued(n)) /\ ~Queued(n)
  <2>1. Len(messageQueue) = 0
    BY EmptyType
  <2> QED
    BY <2>1 DEF Taken, Queued
<1>5. Order(toClient)'
  <2>1. PICK q : q = Tail(toClient)
    OBVIOUS
  <2>2. Order(q)
    BY <2>1, TailOrder DEF OnceInv, TypeOK
  <2>3. exchange[m] = "sent" => \A k \in 1..Len(q) : ~IsPubrel(q[k], m)
    <3> SUFFICES ASSUME exchange[m] = "sent", NEW k \in 1..Len(q), IsPubrel(q[k], m) PROVE FALSE
      OBVIOUS
    <3>1. k + 1 \in 1..Len(toClient) /\ IsPubrel(toClient[k + 1], m) /\ 1 \in 1..Len(toClient) /\ k \in Nat
      BY <2>1, HeadOnce
    <3>2. k + 1 < 1
      BY <1>1, <1>2, <3>1 DEF OnceInv, Order, SentFirst
    <3> QED
      BY <3>1, <3>2
  <2>4. ASSUME NEW j \in 1..Len(q), NEW k \in 1..Len(q), j < k, IsPubrel(q[j], m), IsPublish(q[k], m)
        PROVE  FALSE
    <3>1. /\ j + 1 \in 1..Len(toClient) /\ IsPubrel(toClient[j + 1], m)
          /\ k + 1 \in 1..Len(toClient) /\ IsPublish(toClient[k + 1], m)
          /\ 1 \in 1..Len(toClient) /\ j \in Nat /\ j + 1 < k + 1
      BY <2>1, <2>4, HeadOnce
    <3>2. j + 1 < 1
      BY <1>1, <1>2, <3>1 DEF OnceInv, Order, NoneAfter
    <3> QED
      BY <3>1, <3>2
  <2> QED
    BY <1>3, <1>4, <2>1, <2>2, <2>3, <2>4, OrderStays
<1>6. \A n \in Msg : Taken(n)' => exchange'[n] # "new" /\ ~Stored(n)' /\ (qos'[n] = 2 => exchange'[n] # "sent")
  BY <1>2, <1>3, <1>4 DEF OnceInv
<1>7. \A e \in inboundMsgs' : id[e.msg] = e.msgid /\ qos[e.msg] = 2 /\ exchange[e.msg] # "new"
  BY <1>2 DEF OnceInv
<1> QED
  BY <1>4, <1>5, <1>6, <1>7 DEF OnceInv, Active

\* A PUBREL releases the message stored under its id: no PUBLISH of it follows.
LEMMA ReleaseOnce ==
  ASSUME TypeOK, OnceInv, NEW e \in EntryOf(Head(toClient)), Head(toClient).type = "PUBREL",
         messageQueue = <<>>, messageQueue' = Append(messageQueue, e.msg),
         toClient # <<>>, inboundMsgs' = inboundMsgs \ {e},
         toClient' = Tail(toClient), runPc' = "after",
         UNCHANGED <<qos, id, exchange, delivered>>
  PROVE  OnceInv'
<1>1. PICK m \in Msg : m = e.msg
  BY DEF EntryOf, TypeOK, Message
<1>2. /\ e \in inboundMsgs /\ Stored(m) /\ qos[m] = 2 /\ exchange[m] # "new"
      /\ id[m] = e.msgid /\ e.msgid = Head(toClient).id
  BY <1>1 DEF EntryOf, OnceInv, Stored
<1>3. 1 \in 1..Len(toClient) /\ IsPubrel(toClient[1], m)
  BY <1>2, HeadOnce DEF IsPubrel
<1>4. ~Taken(m) /\ exchange[m] # "sent"
  BY <1>2, <1>3 DEF OnceInv, Order, SentFirst
<1>5. ~Stored(m)'
  BY <1>1, <1>2 DEF Stored, OnceInv, TypeOK
<1>6. \A k \in 1..Len(Tail(toClient)) : ~IsPublish(Tail(toClient)[k], m)
  BY <1>2, <1>3, HeadOnce DEF OnceInv, Order, NoneAfter
<1> QED
  BY <1>1, <1>2, <1>4, <1>5, <1>6, QueueOnce

LEMMA HandlerOnce ==
  TypeInv /\ QueueInv /\ OnceInv
     /\ (\/ CycleIdle \/ CycleReadError
         \/ HandlePublish0 \/ HandlePublish1 \/ HandlePublish2 \/ HandlePubrel)
     => OnceInv'
<1> SUFFICES ASSUME TypeInv, QueueInv, OnceInv,
                    \/ CycleIdle \/ CycleReadError
                    \/ HandlePublish0 \/ HandlePublish1 \/ HandlePublish2 \/ HandlePubrel
             PROVE  OnceInv'
  OBVIOUS
<1>0. TypeOK /\ toClient \in Seq(FromBrokerPacket)
  BY DEF TypeInv
<1>1. runPc = "cycle" /\ messageQueue = <<>>
  BY DEF CycleIdle, CycleReadError, HandlePublish0, HandlePublish1, HandlePublish2, HandlePubrel,
         Reading, QueueInv, NoBacklog
<1>2. ASSUME NEW inb, NEW queue, NEW tb, NEW wr, NEW tc, NEW rc, EndCycle(inb, queue, tb, wr, tc, rc),
             inb = inboundMsgs /\ queue = messageQueue /\ (tc = toClient \/ (toClient # <<>> /\ tc = Tail(toClient)))
      PROVE  OnceInv'
  <2>1. /\ UNCHANGED <<qos, id, exchange, delivered>>
        /\ messageQueue' = messageQueue \/ Len(messageQueue') = 0
        /\ inboundMsgs' \subseteq inboundMsgs
        /\ toClient' \in {toClient, <<>>} \/ (toClient # <<>> /\ toClient' = Tail(toClient))
    BY <1>2, EndCycleCases, EmptyType
  <2> QED
    BY <1>0, <1>1, <2>1, QuietOnce
<1>3. ASSUME inboundMsgs' = {}, messageQueue' = <<>>, toClient' = <<>>,
             UNCHANGED <<qos, id, exchange, delivered>>
      PROVE  OnceInv'
  BY <1>0, <1>1, <1>3, QuietOnce, EmptyType
<1>4. CASE CycleIdle \/ CycleReadError
  BY <1>2, <1>4 DEF CycleIdle, CycleReadError
<1>5. PICK p : p = Head(toClient)
  OBVIOUS
<1>6. toClient # <<>> => p \in FromBrokerPacket /\ p.msg \in Msg
  <2>1. toClient # <<>> => p \in FromBrokerPacket
    BY <1>0, <1>5, ChannelEnds
  <2> QED
    BY <2>1 DEF FromBrokerPacket
<1>7. ASSUME toClient # <<>>, NEW rc, Ignore(rc) PROVE OnceInv'
  BY <1>2, <1>7 DEF Ignore
<1>8. ASSUME NEW ack, NEW inb, NEW queue, Acknowledge(ack, inb, queue)
      PROVE  \E tb, wr, rc : EndCycle(inb, queue, tb, wr, Tail(toClient), rc)
  BY <1>8 DEF Acknowledge
<1>9. CASE HandlePublish0 \/ HandlePublish1
  <2>1. toClient # <<>> /\ IsPublish(p, p.msg) /\ p.qos # 2
    BY <1>5, <1>9 DEF HandlePublish0, HandlePublish1, Reading, IsPublish
  <2>2. \/ Ignore("error")
        \/ \E tb, wr, rc : EndCycle(inboundMsgs, Append(messageQueue, p.msg), tb, wr, Tail(toClient), rc)
    BY <1>5, <1>8, <1>9 DEF HandlePublish0, HandlePublish1
  <2>3. ASSUME NEW tb, NEW wr, NEW rc,
               EndCycle(inboundMsgs, Append(messageQueue, p.msg), tb, wr, Tail(toClient), rc)
        PROVE  OnceInv'
    <3>1. /\ runPc' = "after" /\ UNCHANGED <<qos, id, exchange, delivered>>
          /\ \/ /\ inboundMsgs' = inboundMsgs /\ messageQueue' = Append(messageQueue, p.msg)
                /\ toClient' = Tail(toClient)
             \/ inboundMsgs' = {} /\ messageQueue' = <<>> /\ toClient' = <<>>
      BY <2>3, EndCycleCases
    <3>2. PICK m \in Msg : m = p.msg
      BY <1>6, <2>1
    <3> QED
      BY <1>0, <1>1, <1>3, <1>5, <2>1, <3>1, <3>2, PublishOnce
  <2> QED
    BY <1>7, <2>1, <2>2, <2>3
<1>10. CASE HandlePublish2
  <2> DEFINE stored == (inboundMsgs \ EntryOf(p)) \cup {[msgid |-> p.id, msg |-> p.msg]}
  <2>1. toClient # <<>> /\ IsPublish(p, p.msg) /\ p.qos = 2
    BY <1>5, <1>10 DEF HandlePublish2, Reading, IsPublish
  <2>2. Ignore("error") \/ Acknowledge(Reply(p, "PUBREC"), stored, messageQueue)
    BY <1>5, <1>10 DEF HandlePublish2
  <2>3. ASSUME Acknowledge(Reply(p, "PUBREC"), stored, messageQueue) PROVE OnceInv'
    <3>1. PICK tb, wr, rc : EndCycle(stored, messageQueue, tb, wr, Tail(toClient), rc)
      BY <1>8, <2>3
    <3>2. /\ runPc' = "after" /\ UNCHANGED <<qos, id, exchange, delivered>>
          /\ \/ inboundMsgs' = stored /\ messageQueue' = messageQueue /\ toClient' = Tail(toClient)
             \/ inboundMsgs' = {} /\ messageQueue' = <<>> /\ toClient' = <<>>
      BY <3>1, EndCycleCases
    <3>3. PICK m \in Msg : m = p.msg
      BY <1>6, <2>1
    <3> QED
      BY <1>0, <1>1, <1>3, <1>5, <2>1, <3>2, <3>3, StoreOnce
  <2> QED
    BY <1>7, <2>1, <2>2, <2>3
<1>11. CASE HandlePubrel
  <2>1. toClient # <<>> /\ p.type = "PUBREL"
    BY <1>5, <1>11 DEF HandlePubrel, Reading
  <2>2. \/ \E rc : Ignore(rc)
        \/ Acknowledge(Reply(p, "PUBCOMP"), inboundMsgs, messageQueue)
        \/ \E e \in EntryOf(p) : Acknowledge(Reply(p, "PUBCOMP"), inboundMsgs \ {e}, Append(messageQueue, e.msg))
    BY <1>5, <1>11 DEF HandlePubrel
  <2>3. CASE Acknowledge(Reply(p, "PUBCOMP"), inboundMsgs, messageQueue)
    BY <1>2, <1>8, <2>1, <2>3
  <2>4. ASSUME NEW e \in EntryOf(p),
               Acknowledge(Reply(p, "PUBCOMP"), inboundMsgs \ {e}, Append(messageQueue, e.msg))
        PROVE  OnceInv'
    <3>1. PICK tb, wr, rc : EndCycle(inboundMsgs \ {e}, Append(messageQueue, e.msg), tb, wr, Tail(toClient), rc)
      BY <1>8, <2>4
    <3>2. /\ runPc' = "after" /\ UNCHANGED <<qos, id, exchange, delivered>>
          /\ \/ /\ inboundMsgs' = inboundMsgs \ {e} /\ messageQueue' = Append(messageQueue, e.msg)
                /\ toClient' = Tail(toClient)
             \/ inboundMsgs' = {} /\ messageQueue' = <<>> /\ toClient' = <<>>
      BY <3>1, EndCycleCases
    <3> QED
      BY <1>0, <1>1, <1>3, <1>5, <2>1, <2>4, <3>2, ReleaseOnce
  <2> QED
    BY <1>7, <2>1, <2>2, <2>3, <2>4
<1> QED
  BY <1>4, <1>9, <1>10, <1>11

\* After a cycle, select, the rest of a write and the application.
LEMMA LoopOnce ==
  TypeInv /\ QueueInv /\ OnceInv
     /\ (\/ AppStep \/ RunSelect \/ ContinueWrite \/ RunStops \/ RunLosesConnection
         \/ RunDelivers \/ RunGoesOn \/ CallbackReturns)
     => OnceInv'
<1> SUFFICES ASSUME TypeInv, QueueInv, OnceInv,
                    \/ AppStep \/ RunSelect \/ ContinueWrite \/ RunStops \/ RunLosesConnection
                    \/ RunDelivers \/ RunGoesOn \/ CallbackReturns
             PROVE  OnceInv'
  OBVIOUS
<1>0. TypeOK
  BY DEF TypeInv
<1>1. CASE AppStep
  <2>1. CASE PublishInterrupted \/ DisconnectStart
    <3>1. UNCHANGED <<qos, id, exchange, delivered, messageQueue, inboundMsgs, toClient, runPc>>
      BY <2>1 DEF PublishInterrupted, DisconnectStart, clientVars, netVars, brokerVars, runVars
    <3> QED
      BY <1>0, <3>1, QuietOnce
  <2>2. CASE PublishError \/ DisconnectDrained \/ DisconnectTimedOut \/ DisconnectClosed
    <3>1. /\ UNCHANGED <<qos, id, exchange, delivered>>
          /\ messageQueue' = <<>> /\ inboundMsgs' = {} /\ toClient' = <<>>
      BY <2>2 DEF PublishError, DisconnectDrained, DisconnectTimedOut, DisconnectClosed,
                  DisconnectClose, CloseSession, brokerVars
    <3> QED
      BY <1>0, <3>1, QuietOnce, EmptyType
  <2> QED
    BY <1>1, <2>1, <2>2 DEF AppStep
<1>2. CASE RunSelect \/ ContinueWrite \/ RunStops \/ RunGoesOn
  <2>1. /\ UNCHANGED <<qos, id, exchange, delivered, messageQueue, inboundMsgs, toClient>>
        /\ runPc # "callback"
    BY <1>2 DEF RunSelect, ContinueWrite, RunStops, RunGoesOn,
                clientVars, netVars, brokerVars, appVars
  <2> QED
    BY <1>0, <2>1, QuietOnce
<1>3. CASE RunLosesConnection
  <2>1. /\ UNCHANGED <<qos, id, exchange, delivered>>
        /\ messageQueue' = <<>> /\ inboundMsgs' = {} /\ toClient' = <<>>
    BY <1>3 DEF RunLosesConnection, CloseSession, brokerVars, appVars
  <2> QED
    BY <1>0, <2>1, QuietOnce, EmptyType
<1>4. CASE CallbackReturns
  <2>1. /\ UNCHANGED <<qos, id, exchange, delivered, inboundMsgs, toClient>>
        /\ messageQueue' = <<>>
    BY <1>0, <1>4 DEF CallbackReturns, netVars, brokerVars, appVars, QueueInv, TypeOK
  <2> QED
    BY <1>0, <2>1, QuietOnce, EmptyType
<1>5. CASE RunDelivers
  <2>1. PICK m \in Msg : m = Head(messageQueue) /\ messageQueue[1] = m /\ 1 \in 1..Len(messageQueue)
    BY <1>0, <1>5, ChannelEnds DEF RunDelivers, TypeOK
  <2>2. /\ delivered' = [delivered EXCEPT ![m] = delivered[m] + 1] /\ runPc' = "callback" /\ runPc = "after"
        /\ UNCHANGED <<qos, id, exchange, messageQueue, inboundMsgs, toClient>>
    BY <1>5, <2>1 DEF RunDelivers, clientVars, netVars, brokerVars
  <2>3. Queued(m) /\ delivered[m] = 0
    BY <2>1, <2>2 DEF Queued, OnceInv
  <2>4. delivered' \in [Msg -> Nat] /\ delivered'[m] = 1 /\ \A n \in Msg \ {m} : delivered'[n] = delivered[n]
    BY <1>0, <2>2, <2>3 DEF TypeOK
  <2>5. \A n \in Msg : (Taken(n)' => Taken(n)) /\ (Stored(n)' => Stored(n))
    BY <2>2, <2>3, <2>4 DEF Taken, Queued, Stored
  <2>6. Order(toClient)'
    <3>1. PICK q : q = toClient /\ Order(q)
      BY DEF OnceInv
    <3> QED
      BY <2>2, <2>5, <3>1, OrderStays
  <2>7. \A n \in Msg : delivered'[n] <= 1
    BY <2>4 DEF OnceInv
  <2>8. \A n \in Msg : Taken(n)' => exchange'[n] # "new" /\ ~Stored(n)' /\ (qos'[n] = 2 => exchange'[n] # "sent")
    BY <2>2, <2>5 DEF OnceInv
  <2> QED
    BY <2>2, <2>6, <2>7, <2>8 DEF OnceInv, Active
<1> QED
  BY <1>1, <1>2, <1>3, <1>4, <1>5

-----------------------------------------------------------------------------
(* What the broker adds *)

\* A packet that comes last.
LEMMA LastPacket ==
  ASSUME TypeOK, NEW p, toClient' = Append(toClient, p)
  PROVE  /\ Len(toClient) \in Nat /\ Len(toClient') = Len(toClient) + 1
         /\ toClient'[Len(toClient')] = p
         /\ \A k \in 1..Len(toClient') :
               \/ k = Len(toClient')
               \/ k \in 1..Len(toClient) /\ k < Len(toClient') /\ toClient'[k] = toClient[k]
<1> toClient \in Seq(Packet)
  BY DEF TypeOK
<1> QED
  OBVIOUS

\* The broker's exchanges go on, and it adds at most a PUBREL, of an exchange
\* that is released: no active message with its id is waiting to be stored.
LEMMA PubrelOnce ==
  ASSUME TypeOK, OnceInv,
         UNCHANGED <<qos, id, delivered, messageQueue, inboundMsgs, runPc>>,
         \A m \in Msg : /\ exchange'[m] = "sent" => exchange[m] = "sent"
                        /\ exchange'[m] = "released" => Active(m)
                        /\ exchange'[m] = "new" => exchange[m] = "new",
         \/ toClient' = toClient
         \/ \E n \in Msg, p \in Packet :
               /\ toClient' = Append(toClient, p) /\ p.type = "PUBREL" /\ p.id = id[n]
               /\ Active(n) /\ exchange'[n] = "released"
  PROVE  OnceInv'
<1>1. \A m \in Msg : (Taken(m)' <=> Taken(m)) /\ (Stored(m)' <=> Stored(m)) /\ (Queued(m)' <=> Queued(m))
  BY DEF Taken, Queued, Stored
<1>2. \A m, n \in Msg : Active(m)' /\ Active(n)' /\ id'[m] = id'[n] => m = n
  BY DEF OnceInv, Active
<1>3. \A m \in Msg : Taken(m)' => exchange'[m] # "new" /\ ~Stored(m)' /\ (qos'[m] = 2 => exchange'[m] # "sent")
  BY <1>1 DEF OnceInv
<1>4. \A e \in inboundMsgs' : id'[e.msg] = e.msgid /\ qos'[e.msg] = 2 /\ exchange'[e.msg] # "new"
  <2>1. \A e \in inboundMsgs : e.msg \in Msg
    BY DEF TypeOK, Message
  <2> QED
    BY <2>1 DEF OnceInv
<1>5. (runPc' # "callback" => \A n \in Msg : Queued(n)' => delivered'[n] = 0) /\ \A n \in Msg : delivered'[n] <= 1
  BY <1>1 DEF OnceInv
<1>6. CASE toClient' = toClient
  <2>1. Known(toClient)' /\ Single(toClient)'
    BY <1>1, <1>6 DEF OnceInv, Order, Known, Single, IsPublish
  <2>2. SentFirst(toClient)'
    BY <1>1, <1>6 DEF OnceInv, Order, SentFirst, IsPublish, IsPubrel
  <2>3. NoneAfter(toClient)'
    BY <1>1, <1>6 DEF OnceInv, Order, NoneAfter, IsPublish, IsPubrel
  <2> QED
    BY <1>2, <1>3, <1>4, <1>5, <2>1, <2>2, <2>3 DEF OnceInv, Order
<1>7. ASSUME NEW n \in Msg, NEW p \in Packet,
             toClient' = Append(toClient, p), p.type = "PUBREL", p.id = id[n],
             Active(n), exchange'[n] = "released"
      PROVE  OnceInv'
  <2> DEFINE L == Len(toClient')
  <2>1. /\ Len(toClient) \in Nat /\ L = Len(toClient) + 1 /\ toClient'[L] = p
        /\ \A k \in 1..L : \/ k = L
                           \/ k \in 1..Len(toClient) /\ k < L /\ toClient'[k] = toClient[k]
    BY <1>7, LastPacket
  <2>2. \A m \in Msg : ~IsPublish(toClient'[L], m)
    BY <1>7, <2>1 DEF IsPublish
  <2>3. \A m \in Msg : exchange'[m] = "sent" => ~IsPubrel(toClient'[L], m)
    BY <1>7, <2>1 DEF IsPubrel, OnceInv, Active
  <2> HIDE DEF L
  <2>4. \A m \in Msg, k \in 1..L : IsPublish(toClient'[k], m) =>
           k \in 1..Len(toClient) /\ k < L /\ toClient'[k] = toClient[k]
    BY <2>1, <2>2
  <2>5. Known(toClient)' /\ Single(toClient)'
    BY <1>1, <2>4 DEF OnceInv, Order, Known, Single, IsPublish, L
  <2>6. SentFirst(toClient)'
    BY <1>1, <2>1, <2>3, <2>4 DEF OnceInv, Order, SentFirst, IsPublish, IsPubrel, L
  <2>7. NoneAfter(toClient)'
    BY <1>1, <2>1, <2>4 DEF OnceInv, Order, NoneAfter, IsPublish, IsPubrel, L
  <2> QED
    BY <1>2, <1>3, <1>4, <1>5, <2>5, <2>6, <2>7 DEF OnceInv, Order
<1> QED
  BY <1>6, <1>7

\* The broker sends a message for the first time.
LEMMA NewOnce == ASSUME TypeInv, OnceInv, NEW m \in Msg, BrokerPublishes(m) PROVE OnceInv'
<1>0. /\ TypeOK /\ qos \in [Msg -> 0..2] /\ id \in [Msg -> Id]
      /\ exchange \in [Msg -> {"new", "sent", "released", "done"}]
  BY DEF TypeInv, TypeOK
<1>1. PICK i \in IF qos[m] = 0 THEN {0} ELSE FreeIds :
         id' = [id EXCEPT ![m] = i] /\ FromBroker("PUBLISH", m, i, FALSE)
  BY DEF BrokerPublishes
<1>2. /\ exchange[m] = "new"
      /\ exchange' = [exchange EXCEPT ![m] = IF qos[m] = 0 THEN "done" ELSE "sent"]
      /\ UNCHANGED <<qos, delivered, messageQueue, inboundMsgs, runPc>>
  BY DEF BrokerPublishes, clientVars, appVars, runVars
<1>3. /\ id'[m] = i /\ exchange'[m] \in {"sent", "done"} /\ (qos[m] # 0 => i \in FreeIds)
      /\ exchange'[m] = "sent" => qos[m] # 0
      /\ \A n \in Msg \ {m} : id'[n] = id[n] /\ exchange'[n] = exchange[n]
  BY <1>0, <1>1, <1>2
<1> DEFINE p == [type |-> "PUBLISH", id |-> i, qos |-> qos[m], dup |-> FALSE, msg |-> m]
<1>4. /\ toClient' = Append(toClient, p)
      /\ p.type = "PUBLISH" /\ p.msg = m /\ p.id = i /\ p.qos = qos[m]
  BY <1>1 DEF FromBroker
<1> HIDE DEF p
<1> DEFINE L == Len(toClient')
<1>5. /\ Len(toClient) \in Nat /\ L = Len(toClient) + 1 /\ toClient'[L] = p
      /\ \A k \in 1..L : \/ k = L
                         \/ k \in 1..Len(toClient) /\ k < L /\ toClient'[k] = toClient[k]
  BY <1>0, <1>4, LastPacket
<1> HIDE DEF L
<1>6. \A n \in Msg : (Taken(n)' <=> Taken(n)) /\ (Stored(n)' <=> Stored(n)) /\ (Queued(n)' <=> Queued(n))
  BY <1>2 DEF Taken, Queued, Stored
<1>7. ~Taken(m) /\ ~Stored(m) /\ \A k \in 1..Len(toClient) : ~IsPublish(toClient[k], m)
  BY <1>2 DEF OnceInv, Stored, Order, Known
<1>8. \A k \in 1..L : /\ IsPublish(toClient'[k], m) <=> k = L
                      /\ \A n \in Msg \ {m} : IsPublish(toClient'[k], n) =>
                            k \in 1..Len(toClient) /\ toClient'[k] = toClient[k]
                      /\ \A n \in Msg \ {m} : IsPubrel(toClient[k], n)' =>
                            /\ k \in 1..Len(toClient) /\ toClient'[k] = toClient[k]
                            /\ IsPubrel(toClient[k], n)
  BY <1>3, <1>4, <1>5, <1>7 DEF IsPublish, IsPubrel
<1>9. L \in 1..L
  BY <1>5
<1>10. Known(toClient)'
  <2>1. ASSUME NEW k \in 1..L, NEW n \in Msg, IsPublish(toClient'[k], n)
        PROVE  exchange'[n] # "new" /\ ~Taken(n)' /\ toClient'[k].id = id'[n] /\ toClient'[k].qos = qos[n]
    <3>1. CASE n = m
      BY <1>3, <1>4, <1>5, <1>6, <1>7, <1>8, <2>1, <3>1
    <3>2. CASE n # m
      BY <1>3, <1>6, <1>8, <2>1, <3>2 DEF OnceInv, Order, Known
    <3> QED
      BY <3>1, <3>2
  <2> QED
    BY <1>2, <2>1 DEF Known, IsPublish, L
<1>11. Single(toClient)'
  <2>1. ASSUME NEW n \in Msg, qos[n] # 2, NEW j \in 1..L, NEW k \in 1..L,
               IsPublish(toClient'[j], n), IsPublish(toClient'[k], n)
        PROVE  j = k
    BY <1>8, <2>1 DEF OnceInv, Order, Single
  <2> QED
    BY <1>2, <2>1 DEF Single, IsPublish, L
<1>12. SentFirst(toClient)'
  <2>1. ASSUME NEW n \in Msg, qos[n] = 2, exchange'[n] = "sent"
        PROVE  /\ \A j, k \in 1..L : IsPublish(toClient'[j], n) /\ IsPubrel(toClient[k], n)' => k < j
               /\ Stored(n)' => \A k \in 1..L : ~IsPubrel(toClient[k], n)'
    <3>1. CASE n = m
      <4>1. \A k \in 1..L : IsPubrel(toClient[k], n)' => k < L
        BY <1>4, <1>5 DEF IsPubrel
      <4>2. \A j \in 1..L : IsPublish(toClient'[j], n) => j = L
        BY <1>8, <3>1
      <4>3. ~Stored(n)'
        BY <1>6, <1>7, <3>1
      <4> QED
        BY <4>1, <4>2, <4>3
    <3>2. CASE n # m
      BY <1>3, <1>6, <1>8, <2>1, <3>2 DEF OnceInv, Order, SentFirst
    <3> QED
      BY <3>1, <3>2
  <2> QED
    BY <1>2, <2>1 DEF SentFirst, IsPublish, L
<1>13. NoneAfter(toClient)'
  <2>1. ASSUME NEW n \in Msg, qos[n] = 2, NEW j \in 1..L, NEW k \in 1..L, j < k,
               IsPubrel(toClient[j], n)', IsPublish(toClient'[k], n)
        PROVE  ~Stored(n)' /\ \A i2 \in 1..L : IsPublish(toClient'[i2], n) => j < i2
    <3>1. CASE n = m
      BY <1>6, <1>7, <1>8, <2>1, <3>1
    <3>2. CASE n # m
      BY <1>6, <1>8, <2>1, <3>2 DEF OnceInv, Order, NoneAfter
    <3> QED
      BY <3>1, <3>2
  <2> QED
    BY <1>2, <2>1 DEF NoneAfter, IsPublish, L
<1>14. \A n \in Msg : Taken(n)' => exchange'[n] # "new" /\ ~Stored(n)' /\ (qos'[n] = 2 => exchange'[n] # "sent")
  BY <1>2, <1>3, <1>6, <1>7 DEF OnceInv
<1>15. \A e \in inboundMsgs' : id'[e.msg] = e.msgid /\ qos'[e.msg] = 2 /\ exchange'[e.msg] # "new"
  <2>1. \A e \in inboundMsgs : e.msg \in Msg /\ e.msg # m
    BY <1>0, <1>7 DEF TypeOK, Message, Stored
  <2> QED
    BY <1>2, <1>3, <2>1 DEF OnceInv
<1>16. \A n, o \in Msg : Active(n)' /\ Active(o)' /\ id'[n] = id'[o] => n = o
  <2>1. Active(m)' => \A n \in Msg \ {m} : Active(n)' => id[n] # i
    BY <1>3 DEF Active, FreeIds
  <2> QED
    BY <1>3, <2>1 DEF OnceInv, Active
<1>17. (runPc' # "callback" => \A n \in Msg : Queued(n)' => delivered'[n] = 0) /\ \A n \in Msg : delivered'[n] <= 1
  BY <1>2, <1>6 DEF OnceInv
<1> QED
  BY <1>10, <1>11, <1>12, <1>13, <1>14, <1>15, <1>16, <1>17 DEF OnceInv, Order

\* The broker sends a publication once more, before it has released the message.
LEMMA AgainOnce ==
  ASSUME TypeInv, OnceInv, NEW m \in Msg, BrokerResends(m), exchange[m] = "sent"
  PROVE  OnceInv'
<1>0. TypeOK
  BY DEF TypeInv
<1>1. /\ qos[m] = 2 /\ FromBroker("PUBLISH", m, id[m], TRUE)
      /\ UNCHANGED <<qos, id, exchange, delivered, messageQueue, inboundMsgs, runPc>>
  BY DEF BrokerResends, clientVars, appVars, runVars
<1> DEFINE p == [type |-> "PUBLISH", id |-> id[m], qos |-> qos[m], dup |-> TRUE, msg |-> m]
<1>2. /\ toClient' = Append(toClient, p)
      /\ p.type = "PUBLISH" /\ p.msg = m /\ p.id = id[m] /\ p.qos = qos[m]
  BY <1>1 DEF FromBroker
<1> HIDE DEF p
<1> DEFINE L == Len(toClient')
<1>3. /\ Len(toClient) \in Nat /\ L = Len(toClient) + 1 /\ toClient'[L] = p
      /\ \A k \in 1..L : \/ k = L
                         \/ k \in 1..Len(toClient) /\ k < L /\ toClient'[k] = toClient[k]
  BY <1>0, <1>2, LastPacket
<1> HIDE DEF L
<1>4. \A n \in Msg : (Taken(n)' <=> Taken(n)) /\ (Stored(n)' <=> Stored(n)) /\ (Queued(n)' <=> Queued(n))
  BY <1>1 DEF Taken, Queued, Stored
<1>5. ~Taken(m) /\ exchange[m] # "new"
  BY <1>1 DEF OnceInv
<1>6. \A k \in 1..L : /\ \A n \in Msg : IsPublish(toClient'[k], n) =>
                            \/ n = m /\ k = L
                            \/ k \in 1..Len(toClient) /\ k < L /\ toClient'[k] = toClient[k]
                      /\ \A n \in Msg : IsPubrel(toClient'[k], n) =>
                            k \in 1..Len(toClient) /\ k < L /\ toClient'[k] = toClient[k]
  BY <1>2, <1>3 DEF IsPublish, IsPubrel
<1>7. Known(toClient') /\ Single(toClient')
  BY <1>1, <1>2, <1>3, <1>5, <1>6 DEF OnceInv, Order, Known, Single, L
<1>8. SentFirst(toClient')
  BY <1>3, <1>6 DEF OnceInv, Order, SentFirst, L
<1>9. NoneAfter(toClient')
  <2>1. \A k \in 1..Len(toClient) : IsPubrel(toClient[k], m) =>
           ~Stored(m) /\ \A j \in 1..Len(toClient) : IsPublish(toClient[j], m) => k < j
    BY <1>1 DEF OnceInv, Order, SentFirst
  <2>2. ASSUME NEW n \in Msg, qos[n] = 2, NEW j \in 1..L, NEW k \in 1..L, j < k,
               IsPubrel(toClient'[j], n), IsPublish(toClient'[k], n)
        PROVE  ~Stored(n) /\ \A i \in 1..L : IsPublish(toClient'[i], n) => j < i
    <3>1. j \in 1..Len(toClient) /\ j < L /\ IsPubrel(toClient[j], n)
      BY <1>6, <2>2
    <3>2. CASE n = m
      BY <1>6, <2>1, <3>1, <3>2
    <3>3. CASE n # m
      <4>1. k \in 1..Len(toClient) /\ IsPublish(toClient[k], n)
        BY <1>6, <2>2, <3>3
      <4>2. ~Stored(n) /\ \A i \in 1..Len(toClient) : IsPublish(toClient[i], n) => j < i
        BY <2>2, <3>1, <4>1 DEF OnceInv, Order, NoneAfter
      <4> QED
        BY <1>6, <3>1, <3>3, <4>2
    <3> QED
      BY <3>2, <3>3
  <2> QED
    BY <2>2 DEF NoneAfter, L
<1>10. Order(toClient)'
  <2>1. PICK q : q = toClient' /\ Order(q)
    BY <1>7, <1>8, <1>9 DEF Order
  <2> QED
    BY <1>1, <1>4, <2>1, OrderStays
<1>11. \A n \in Msg : Taken(n)' => exchange'[n] # "new" /\ ~Stored(n)' /\ (qos'[n] = 2 => exchange'[n] # "sent")
  BY <1>1, <1>4 DEF OnceInv
<1> QED
  BY <1>1, <1>4, <1>10, <1>11 DEF OnceInv, Active

\* The broker, the network and the kernel.
LEMMA OutsideOnce == TypeInv /\ OnceInv /\ (BrokerStep \/ NetworkFails \/ TcpGivesUp \/ UNCHANGED vars) => OnceInv'
<1> SUFFICES ASSUME TypeInv, OnceInv, BrokerStep \/ NetworkFails \/ TcpGivesUp \/ UNCHANGED vars PROVE OnceInv'
  OBVIOUS
<1>0. /\ TypeOK /\ qos \in [Msg -> 0..2] /\ id \in [Msg -> Id]
      /\ exchange \in [Msg -> {"new", "sent", "released", "done"}]
  BY DEF TypeInv, TypeOK
<1>1. CASE NetworkFails \/ TcpGivesUp \/ UNCHANGED vars
  <2>1. /\ UNCHANGED <<qos, id, exchange, delivered, messageQueue, inboundMsgs, runPc>>
        /\ toClient' \in {toClient, <<>>}
    BY <1>1 DEF NetworkFails, TcpGivesUp, vars, clientVars, netVars, brokerVars, appVars, runVars
  <2> QED
    BY <1>0, <2>1, QuietOnce
<1>2. ASSUME NEW m \in Msg, BrokerResends(m), exchange[m] = "released" PROVE OnceInv'
  <2>1. PICK d \in BOOLEAN : FromBroker("PUBREL", m, id[m], d)
    BY <1>2 DEF BrokerResends
  <2>2. UNCHANGED <<qos, id, exchange, delivered, messageQueue, inboundMsgs, runPc>>
    BY <1>2 DEF BrokerResends, clientVars, appVars, runVars
  <2> DEFINE p == [type |-> "PUBREL", id |-> id[m], qos |-> qos[m], dup |-> d, msg |-> m]
  <2>3. p \in Packet /\ toClient' = Append(toClient, p) /\ p.type = "PUBREL" /\ p.id = id[m]
    BY <1>0, <2>1 DEF FromBroker, Packet
  <2> HIDE DEF p
  <2>4. /\ Active(m) /\ exchange'[m] = "released"
        /\ \A n \in Msg : /\ exchange'[n] = "sent" => exchange[n] = "sent"
                          /\ exchange'[n] = "released" => Active(n)
                          /\ exchange'[n] = "new" => exchange[n] = "new"
    BY <1>2, <2>2 DEF Active
  <2> QED
    BY <1>0, <2>2, <2>3, <2>4, PubrelOnce
<1>3. CASE BrokerTakes
  <2> DEFINE b == Head(toBroker)
             next == IF b.type = "PUBREC" THEN "released" ELSE "done"
  <2>1. /\ UNCHANGED <<qos, id, delivered, messageQueue, inboundMsgs, runPc>>
        /\ exchange' = [m \in Msg |-> IF m \in Acknowledged(b) THEN next ELSE exchange[m]]
    BY <1>3 DEF BrokerTakes, clientVars, appVars, runVars
  <2>2. \A m \in Acknowledged(b) : Active(m) /\ id[m] = b.id /\ m \in Msg
    BY DEF Acknowledged, Active
  <2>3. \A n \in Msg : /\ exchange'[n] = "sent" => exchange[n] = "sent"
                       /\ exchange'[n] = "released" => Active(n)
                       /\ exchange'[n] = "new" => exchange[n] = "new"
    BY <2>1, <2>2 DEF Active
  <2>4. \/ toClient' = toClient
        \/ \E n \in Msg, p \in Packet :
               /\ toClient' = Append(toClient, p) /\ p.type = "PUBREL" /\ p.id = id[n]
               /\ Active(n) /\ exchange'[n] = "released"
    <3>1. ASSUME b.type = "PUBREC", NEW m \in Acknowledged(b), FromBroker("PUBREL", m, b.id, FALSE)
          PROVE  \E n \in Msg, p \in Packet :
                    /\ toClient' = Append(toClient, p) /\ p.type = "PUBREL" /\ p.id = id[n]
                    /\ Active(n) /\ exchange'[n] = "released"
      <4>1. m \in Msg /\ Active(m) /\ id[m] = b.id /\ exchange'[m] = "released"
        BY <2>1, <2>2, <3>1
      <4> DEFINE p == [type |-> "PUBREL", id |-> b.id, qos |-> qos[m], dup |-> FALSE, msg |-> m]
      <4>2. toClient' = Append(toClient, p)
        BY <3>1 DEF FromBroker
      <4>3. p \in Packet /\ p.type = "PUBREL" /\ p.id = id[m]
        BY <1>0, <4>1 DEF Packet
      <4> HIDE DEF p
      <4> QED
        BY <4>1, <4>2, <4>3
    <3> QED
      BY <1>3, <3>1 DEF BrokerTakes
  <2> QED
    BY <1>0, <2>1, <2>3, <2>4, PubrelOnce
<1>4. ASSUME NEW m \in Msg, BrokerResends(m) PROVE OnceInv'
  <2>1. exchange[m] \in {"sent", "released"}
    BY <1>4 DEF BrokerResends
  <2> QED
    BY <1>2, <1>4, <2>1, AgainOnce
<1> QED
  BY <1>1, <1>3, <1>4, NewOnce DEF BrokerStep

LEMMA OnceStep == TypeInv /\ QueueInv /\ OnceInv /\ [Next]_vars => OnceInv'
  BY HandlerOnce, LoopOnce, OutsideOnce DEF Next, RunStep, Terminated

\* No message reaches the application twice: not when the broker repeats a PUBLISH or
\* a PUBREL, not when it uses an id again while a repeated packet of the earlier
\* message is still under way, and not when the session closes during the callback.
THEOREM DeliveredOnce == Spec => []OnceAtMost
<1>1. OnceInv => OnceAtMost
  BY DEF OnceInv, OnceAtMost
<1>2. TypeInv => TypeOK
  BY DEF TypeInv
<1>3. TypeInv /\ QueueInv /\ [Next]_vars => QueueInv'
  BY <1>2, QueueStep
<1> QED
  BY <1>1, <1>3, TypeInit, TypeStep, QueueInit, OnceInit, OnceStep, PTL DEF Spec

-----------------------------------------------------------------------------
(* What was acknowledged is kept, and what was sent is answered *)

\* What the client has answered and the broker has not taken yet, oldest first.
Answers == toBroker \o writing

Has(q, p) == \E k \in 1..Len(q) : q[k] = p
In(q, t, m) == \E p \in Packet : Has(q, p) /\ p.type = t /\ p.msg = m

Live == connected /\ network = "up"

\* The cycle left no error for which run is about to close the session.
Healthy == ~ (runPc = "after" /\ runRc = "error" /\ runSock = Fd)

\* An answer is about the message that was sent with its id, and the client holds
\* what it answers for: the stored publication, or the application has it.  A
\* PUBCOMP under the id of a message the broker has released is that message's own.
Given(a) ==
    /\ a.type \in {"PUBACK", "PUBREC", "PUBCOMP"} => a.msg \in Msg /\ a.id = id[a.msg]
    /\ a.type = "PUBACK" => qos[a.msg] = 1 /\ exchange[a.msg] = "sent" /\ Taken(a.msg)
    /\ a.type = "PUBREC" => qos[a.msg] = 2 /\ Active(a.msg) /\ (Stored(a.msg) \/ Taken(a.msg))
    /\ a.type = "PUBCOMP" =>
          /\ qos[a.msg] = 2 /\ exchange[a.msg] \in {"released", "done"} /\ Taken(a.msg)
          /\ \A m \in Msg : a.id = id[m] /\ exchange[m] = "released" => a.msg = m

\* One PUBACK per message; a PUBCOMP under the id of a message that is not released
\* yet is an earlier message's and precedes its PUBRECs, later it follows them.
OneAck(q) ==
    \A j, k \in 1..Len(q) :
        q[j].type = "PUBACK" /\ q[k].type = "PUBACK" /\ q[j].msg = q[k].msg => j = k
RecThenComp(q) ==
    \A m \in Msg : \A j, k \in 1..Len(q) :
        q[j].type = "PUBREC" /\ q[j].msg = m /\ q[k].type = "PUBCOMP" /\ q[k].id = id[m] =>
            IF exchange[m] = "sent" THEN k < j ELSE j < k

\* A PUBREL is the released message's that has its id.
Release(p) ==
    p.type = "PUBREL" =>
        /\ p.msg \in Msg /\ p.id = id[p.msg] /\ qos[p.msg] = 2
        /\ exchange[p.msg] \in {"released", "done"}
        /\ \A m \in Msg : p.id = id[m] /\ exchange[m] = "released" => p.msg = m

\* A released message is stored until the PUBCOMP for it is on its way.
Held ==
    \A m \in Msg : exchange[m] = "released" =>
        IF Taken(m) THEN In(Answers, "PUBCOMP", m) ELSE Stored(m)

AnswerInv ==
    /\ \A a \in Packet : Has(Answers, a) => Given(a)
    /\ OneAck(Answers) /\ RecThenComp(Answers)
    /\ \A p \in Packet : Has(toClient, p) => Release(p)
    /\ Held

\* What an open exchange waits for is on its way.
WayInv ==
    \A m \in Msg :
        /\ exchange[m] = "sent" =>
              \/ In(toClient, "PUBLISH", m)
              \/ In(Answers, IF qos[m] = 1 THEN "PUBACK" ELSE "PUBREC", m)
        /\ exchange[m] = "released" /\ ~Taken(m) => In(toClient, "PUBREL", m)

DoneInv ==
    /\ tostop => ~connected
    /\ network # "up" => toBroker = <<>>
    /\ runPc = "callback" => \A m \in Msg : Queued(m) => delivered[m] > 0
    /\ \A m \in Msg : qos[m] = 0 => exchange[m] \in {"new", "done"}
    /\ \A m \in Msg : qos[m] = 1 => exchange[m] # "released"
    /\ connected => \A m \in Msg : exchange[m] = "done" /\ qos[m] > 0 => Taken(m)

AckInv == DoneInv /\ (Live => AnswerInv) /\ (Live /\ Healthy => WayInv)

LEMMA AckInit == Init => AckInv
<1> SUFFICES ASSUME Init PROVE AckInv
  OBVIOUS
<1>1. Answers = <<>> /\ Len(Answers) = 0 /\ Len(toClient) = 0
  BY EmptyType DEF Init, Answers
<1>2. AnswerInv /\ WayInv
  BY <1>1 DEF Init, AnswerInv, WayInv, Held, Has, OneAck, RecThenComp
<1> QED
  BY <1>2 DEF Init, AckInv, DoneInv

\* What a sequence holds after one more packet was appended, or the first was read.
LEMMA HasAppend ==
  ASSUME NEW q \in Seq(Packet), NEW p \in Packet
  PROVE  /\ \A a : Has(Append(q, p), a) <=> Has(q, a) \/ a = p
         /\ \A t, m : In(Append(q, p), t, m) <=> In(q, t, m) \/ (p.type = t /\ p.msg = m)
<1> DEFINE r == Append(q, p)
<1>1. /\ Len(q) \in Nat /\ Len(r) = Len(q) + 1 /\ r[Len(r)] = p
      /\ \A k \in 1..Len(q) : r[k] = q[k]
  OBVIOUS
<1> HIDE DEF r
<1>2. \A a : Has(r, a) <=> Has(q, a) \/ a = p
  <2> SUFFICES ASSUME NEW a PROVE Has(r, a) <=> Has(q, a) \/ a = p
    OBVIOUS
  <2>1. Has(q, a) \/ a = p => Has(r, a)
    BY <1>1 DEF Has
  <2>2. ASSUME NEW k \in 1..Len(r), r[k] = a PROVE Has(q, a) \/ a = p
    BY <1>1, <2>2 DEF Has
  <2> QED
    BY <2>1, <2>2 DEF Has
<1> QED
  BY <1>2 DEF r, In

LEMMA HasTail ==
  ASSUME NEW q \in Seq(Packet), q # <<>>
  PROVE  /\ \A a : Has(Tail(q), a) => Has(q, a)
         /\ \A a : Has(q, a) => a = Head(q) \/ Has(Tail(q), a)
         /\ \A t, m : In(q, t, m) => In(Tail(q), t, m) \/ (Head(q).type = t /\ Head(q).msg = m)
<1> DEFINE r == Tail(q)
<1>1. /\ Len(q) \in Nat /\ Len(r) = Len(q) - 1 /\ Head(q) = q[1]
      /\ \A k \in 1..Len(r) : r[k] = q[k + 1] /\ k + 1 \in 1..Len(q)
  OBVIOUS
<1> HIDE DEF r
<1>2. \A a : Has(r, a) => Has(q, a)
  BY <1>1 DEF Has
<1>3. ASSUME NEW a, NEW k \in 1..Len(q), q[k] = a PROVE a = Head(q) \/ Has(r, a)
  <2>1. CASE k = 1
    BY <1>1, <1>3, <2>1
  <2>2. CASE k > 1
    <3>1. k - 1 \in 1..Len(r) /\ r[k - 1] = q[k]
      BY <1>1, <1>3, <2>2
    <3> QED
      BY <1>3, <3>1 DEF Has
  <2> QED
    BY <2>1, <2>2
<1>4. \A a : Has(q, a) => a = Head(q) \/ Has(r, a)
  BY <1>3 DEF Has
<1>5. \A t, m : In(q, t, m) => In(r, t, m) \/ (Head(q).type = t /\ Head(q).msg = m)
  BY <1>4 DEF In
<1> QED
  BY <1>2, <1>4, <1>5 DEF r

\* Packets of a sequence whose first was read.
LEMMA TailPackets ==
  ASSUME NEW q \in Seq(Packet), q # <<>>
  PROVE  /\ Len(q) \in Nat /\ Len(Tail(q)) = Len(q) - 1 /\ Tail(q) \in Seq(Packet)
         /\ 1 \in 1..Len(q) /\ Head(q) = q[1] /\ Head(q) \in Packet
         /\ \A k \in 1..Len(Tail(q)) : Tail(q)[k] = q[k + 1] /\ k + 1 \in 1..Len(q) /\ k + 1 > 1
  OBVIOUS

LEMMA OneEntry ==
  ASSUME NEW S, NEW q \in Seq(S), Len(q) <= 1, q # <<>>
  PROVE  Len(q) = 1 /\ q[1] \in S /\ Head(q) = q[1] /\ Tail(q) = <<>>
<1>1. Len(q) \in Nat /\ Len(q) # 0 /\ Head(q) = q[1]
  BY EmptySeq
<1>2. Len(q) = 1
  BY <1>1
<1>3. q[1] \in S
  BY <1>2
<1>4. Tail(q) \in Seq(S) /\ Len(Tail(q)) = 0
  BY <1>2
<1> QED
  BY <1>1, <1>2, <1>3, <1>4, EmptySeq

\* How the answers under way change.
LEMMA AnswersType ==
  ASSUME TypeOK
  PROVE  Answers \in Seq(Packet)
  BY DEF TypeOK, Answers

LEMMA AnswersAppend ==
  ASSUME TypeOK, ~Busy, NEW a \in Packet,
         \/ toBroker' = Append(toBroker, a) /\ writing' = writing
         \/ toBroker' = toBroker /\ writing' = <<a>>
  PROVE  Answers' = Append(Answers, a)
<1>1. toBroker \in Seq(Packet) /\ Append(toBroker, a) \in Seq(Packet) /\ writing = <<>>
  BY DEF TypeOK, Busy
<1>2. Answers = toBroker
  BY <1>1, ConcatEmptySeq DEF Answers
<1>3. Answers' = Append(toBroker, a)
  BY <1>1, ConcatEmptySeq, AppendIsConcat DEF Answers
<1> QED
  BY <1>2, <1>3

LEMMA AnswersWritten ==
  ASSUME TypeOK, Busy, toBroker' = Append(toBroker, Head(writing)), writing' = <<>>
  PROVE  Answers' = Answers
<1>1. toBroker \in Seq(Packet) /\ writing \in Seq(Packet) /\ Len(writing) <= 1 /\ writing # <<>>
  BY DEF TypeOK, Busy
<1>2. Head(writing) \in Packet /\ writing = <<Head(writing)>>
  <2>1. Len(writing) = 1 /\ writing[1] \in Packet /\ Head(writing) = writing[1]
    BY <1>1, OneEntry
  <2> DEFINE s == <<writing[1]>>
  <2>2. s \in Seq(Packet) /\ Len(s) = Len(writing) /\ \A i \in 1..Len(s) : s[i] = writing[i]
    BY <2>1
  <2>3. s = writing
    BY <1>1, <2>2, SeqEqual
  <2> QED
    BY <2>1, <2>3
<1>3. toBroker' \in Seq(Packet) /\ toBroker' = toBroker \o writing
  BY <1>1, <1>2, AppendIsConcat
<1> QED
  BY <1>3, ConcatEmptySeq DEF Answers

LEMMA AnswersTaken ==
  ASSUME TypeOK, toBroker # <<>>, toBroker' = Tail(toBroker), UNCHANGED writing
  PROVE  Answers # <<>> /\ Head(Answers) = Head(toBroker) /\ Answers' = Tail(Answers)
<1>1. toBroker \in Seq(Packet) /\ writing \in Seq(Packet)
  BY DEF TypeOK
<1> QED
  BY <1>1 DEF Answers

\* What an answer or a PUBREL says still holds after a step of the client.
LEMMA GivenStays ==
  ASSUME UNCHANGED <<qos, id, exchange>>,
         \A m \in Msg : Taken(m) => Taken(m)',
         \A m \in Msg : Stored(m) => Stored(m)' \/ Taken(m)'
  PROVE  /\ \A a : Given(a) => Given(a)'
         /\ \A p : Release(p) => Release(p)'
<1>1. ASSUME NEW a, Given(a) PROVE Given(a)'
  <2>1. a.type \in {"PUBACK", "PUBREC", "PUBCOMP"} => a.msg \in Msg /\ a.id = id[a.msg]
    BY <1>1 DEF Given
  <2>2. a.type = "PUBACK" => qos[a.msg] = 1 /\ exchange[a.msg] = "sent" /\ Taken(a.msg)'
    BY <1>1, <2>1 DEF Given
  <2>3. a.type = "PUBREC" => qos[a.msg] = 2 /\ Active(a.msg) /\ (Stored(a.msg)' \/ Taken(a.msg)')
    BY <1>1, <2>1 DEF Given
  <2>4. a.type = "PUBCOMP" =>
          /\ qos[a.msg] = 2 /\ exchange[a.msg] \in {"released", "done"} /\ Taken(a.msg)'
          /\ \A m \in Msg : a.id = id[m] /\ exchange[m] = "released" => a.msg = m
    BY <1>1, <2>1 DEF Given
  <2> QED
    BY <2>1, <2>2, <2>3, <2>4 DEF Given, Active
<1>2. \A p : Release(p) => Release(p)'
  BY DEF Release
<1> QED
  BY <1>1, <1>2

\* The client reads, queues or hands on, and answers nothing.
LEMMA AnswersStay ==
  ASSUME TypeOK, AnswerInv, UNCHANGED <<qos, id, exchange>>, Answers' = Answers,
         toClient' = toClient \/ (toClient # <<>> /\ toClient' = Tail(toClient)),
         \A m \in Msg : Taken(m) => Taken(m)',
         \A m \in Msg : Stored(m) => Stored(m)' \/ Taken(m)',
         \A m \in Msg : exchange[m] = "released" /\ Taken(m)' => Taken(m)
  PROVE  AnswerInv'
<1>1. \A a \in Packet : Has(Answers, a)' => Given(a)'
  BY GivenStays DEF AnswerInv
<1>2. OneAck(Answers) /\ RecThenComp(Answers)
  BY DEF AnswerInv
<1>3. OneAck(Answers)' /\ RecThenComp(Answers)'
  BY <1>2 DEF OneAck, RecThenComp
<1>4. \A p \in Packet : Has(toClient, p)' => Release(p)'
  <2>1. CASE toClient' = toClient
    BY <2>1, GivenStays DEF AnswerInv
  <2>2. CASE toClient # <<>> /\ toClient' = Tail(toClient)
    BY <2>2, GivenStays, HasTail DEF AnswerInv, TypeOK
  <2> QED
    BY <2>1, <2>2
<1>5. Held'
  BY DEF AnswerInv, Held
<1> QED
  BY <1>1, <1>3, <1>4, <1>5 DEF AnswerInv

\* The client has answered the packet it has read, if it has: one more answer.
LEMMA AnswerAdded ==
  ASSUME TypeOK, AnswerInv, UNCHANGED <<qos, id, exchange>>,
         NEW a \in Packet, Answers' = Append(Answers, a), Given(a)',
         toClient' = toClient \/ (toClient # <<>> /\ toClient' = Tail(toClient)),
         \A m \in Msg : Taken(m) => Taken(m)',
         \A m \in Msg : Stored(m) => Stored(m)' \/ Taken(m)',
         \A m \in Msg : exchange[m] = "released" /\ Taken(m)' =>
            Taken(m) \/ (a.type = "PUBCOMP" /\ a.msg = m),
         a.type = "PUBACK" => ~In(Answers, "PUBACK", a.msg),
         \A m \in Msg : a.type = "PUBREC" /\ a.msg = m /\ exchange[m] # "sent" =>
            \A k \in 1..Len(Answers) : ~ (Answers[k].type = "PUBCOMP" /\ Answers[k].id = id[m]),
         \A m \in Msg : a.type = "PUBCOMP" /\ a.id = id[m] /\ exchange[m] = "sent" =>
            ~In(Answers, "PUBREC", m)
  PROVE  AnswerInv'
<1>0. Answers \in Seq(Packet)
  BY AnswersType
<1> DEFINE L == Len(Answers')
<1>1. /\ Len(Answers) \in Nat /\ L = Len(Answers) + 1 /\ Answers'[L] = a
      /\ \A k \in 1..L : k = L \/ (k \in 1..Len(Answers) /\ k < L /\ Answers'[k] = Answers[k])
  BY <1>0
<1> HIDE DEF L
<1>2. \A b \in Packet : Has(Answers, b)' => Given(b)'
  BY <1>0, HasAppend, GivenStays DEF AnswerInv
<1>3. OneAck(Answers')
  <2>1. \A k \in 1..Len(Answers) : Answers[k].type = "PUBACK" => ~ (a.type = "PUBACK" /\ Answers[k].msg = a.msg)
    BY <1>0 DEF In, Has
  <2> QED
    BY <1>1, <2>1 DEF AnswerInv, OneAck, L
<1>4. RecThenComp(Answers)'
  <2>1. ASSUME NEW m \in Msg, NEW j \in 1..L, NEW k \in 1..L,
               Answers'[j].type = "PUBREC", Answers'[j].msg = m,
               Answers'[k].type = "PUBCOMP", Answers'[k].id = id[m]
        PROVE  IF exchange[m] = "sent" THEN k < j ELSE j < k
    <3>1. CASE j \in 1..Len(Answers) /\ k \in 1..Len(Answers)
      BY <1>1, <2>1, <3>1 DEF AnswerInv, RecThenComp
    <3>2. CASE j = L
      <4>1. a.type = "PUBREC" /\ a.msg = m /\ k # L
        BY <1>1, <2>1, <3>2
      <4>2. k \in 1..Len(Answers) /\ k < L /\ Answers[k].type = "PUBCOMP" /\ Answers[k].id = id[m]
        BY <1>1, <2>1, <4>1
      <4> QED
        BY <3>2, <4>1, <4>2
    <3>3. CASE k = L
      <4>1. a.type = "PUBCOMP" /\ a.id = id[m] /\ j # L
        BY <1>1, <2>1, <3>3
      <4>2. j \in 1..Len(Answers) /\ j < L /\ Answers[j].type = "PUBREC" /\ Answers[j].msg = m
        BY <1>1, <2>1, <4>1
      <4>3. In(Answers, "PUBREC", m)
        BY <1>0, <4>2 DEF In, Has
      <4> QED
        BY <3>3, <4>1, <4>2, <4>3
    <3> QED
      BY <1>1, <3>1, <3>2, <3>3
  <2> QED
    BY <2>1 DEF RecThenComp, L
<1>5. \A p \in Packet : Has(toClient, p)' => Release(p)'
  <2>1. CASE toClient' = toClient
    BY <2>1, GivenStays DEF AnswerInv
  <2>2. CASE toClient # <<>> /\ toClient' = Tail(toClient)
    BY <2>2, GivenStays, HasTail DEF AnswerInv, TypeOK
  <2> QED
    BY <2>1, <2>2
<1>6. Held'
  <2>1. \A t, m : In(Answers', t, m) <=> In(Answers, t, m) \/ (a.type = t /\ a.msg = m)
    BY <1>0, HasAppend
  <2>2. ASSUME NEW m \in Msg, exchange[m] = "released"
        PROVE  IF Taken(m)' THEN In(Answers', "PUBCOMP", m) ELSE Stored(m)'
    BY <2>1, <2>2 DEF AnswerInv, Held
  <2> QED
    BY <2>2 DEF Held
<1>7. OneAck(Answers)'
  BY <1>3 DEF OneAck
<1> QED
  BY <1>2, <1>4, <1>5, <1>6, <1>7 DEF AnswerInv, L

\* Steps that leave the exchanges and what is under way alone, or end the session.
LEMMA QuietAck ==
  ASSUME TypeOK, AckInv, UNCHANGED <<qos, id, exchange>>,
         connected' => connected, network' = "up" => network = "up",
         tostop' => tostop \/ ~connected',
         network' # "up" => toBroker' = <<>>,
         connected' => \A m \in Msg : Taken(m)' <=> Taken(m),
         runPc' = "callback" => \A m \in Msg : Queued(m)' => delivered'[m] > 0,
         Live' => Answers' = Answers /\ UNCHANGED <<toClient, inboundMsgs>>,
         Live' /\ Healthy' => Healthy
  PROVE  AckInv'
<1>1. DoneInv'
  BY DEF AckInv, DoneInv
<1>2. Live' => Live
  BY DEF Live
<1>3. ASSUME Live' PROVE AnswerInv'
  <2>1. /\ Answers' = Answers /\ toClient' = toClient /\ AnswerInv
        /\ \A m \in Msg : (Taken(m)' <=> Taken(m)) /\ (Stored(m)' <=> Stored(m))
    BY <1>2, <1>3 DEF AckInv, Live, Stored
  <2> QED
    BY <2>1, AnswersStay
<1>4. ASSUME Live', Healthy' PROVE WayInv'
  <2>1. /\ Answers' = Answers /\ toClient' = toClient /\ WayInv
        /\ \A m \in Msg : Taken(m)' <=> Taken(m)
    BY <1>2, <1>4 DEF AckInv, Live
  <2> QED
    BY <2>1 DEF WayInv
<1> QED
  BY <1>1, <1>3, <1>4 DEF AckInv

\* A packet of another kind is left on the socket: no exchange is concerned.
LEMMA InterruptedAck == ASSUME TypeOK, AckInv, PublishInterrupted PROVE AckInv'
<1> DEFINE a == [type |-> "PUBLISH", id |-> 0, qos |-> 0, dup |-> FALSE, msg |-> NoMsg]
<1>1. /\ a \in Packet /\ a.type = "PUBLISH" /\ ~Busy /\ writing' = <<a>>
      /\ UNCHANGED <<clientVars, toBroker, toClient, network, brokerVars, disc, delivered, stopVars, runVars>>
  BY InboundAssumption DEF PublishInterrupted, Packet, Id
<1> HIDE DEF a
<1>2. Answers' = Append(Answers, a) /\ Answers \in Seq(Packet)
  BY <1>1, AnswersAppend, AnswersType
<1>3. /\ \A m \in Msg : (Taken(m)' <=> Taken(m)) /\ (Stored(m)' <=> Stored(m)) /\ (Queued(m)' <=> Queued(m))
      /\ UNCHANGED <<qos, id, exchange, delivered, connected, network, toBroker, toClient, tostop, runPc>>
      /\ (Live' <=> Live) /\ (Healthy' <=> Healthy)
  BY <1>1 DEF Taken, Queued, Stored, Live, Healthy, clientVars, brokerVars, stopVars, runVars
<1>4. DoneInv'
  BY <1>3 DEF AckInv, DoneInv
<1>5. ASSUME Live' PROVE AnswerInv'
  <2>1. Given(a)'
    BY <1>1 DEF Given
  <2> QED
    BY <1>1, <1>2, <1>3, <1>5, <2>1, AnswerAdded DEF AckInv
<1>6. ASSUME Live', Healthy' PROVE WayInv'
  <2>1. \A t, m : In(Answers, t, m) => In(Answers', t, m)
    BY <1>1, <1>2, HasAppend
  <2>2. WayInv
    BY <1>3, <1>6 DEF AckInv
  <2> QED
    BY <1>3, <2>1, <2>2 DEF WayInv
<1> QED
  BY <1>4, <1>5, <1>6 DEF AckInv

\* The application closes the session, or begins to.
LEMMA AppAck == TypeOK /\ QueueInv /\ AckInv /\ AppStep => AckInv'
<1> SUFFICES ASSUME TypeOK, QueueInv, AckInv, AppStep PROVE AckInv'
  OBVIOUS
<1>1. CASE DisconnectStart
  <2>1. /\ UNCHANGED <<clientVars, netVars, brokerVars, delivered, stopVars, runVars>>
    BY <1>1 DEF DisconnectStart
  <2>2. /\ \A m \in Msg : (Taken(m)' <=> Taken(m)) /\ (Queued(m)' <=> Queued(m))
        /\ UNCHANGED <<qos, id, exchange, connected, network, tostop, toBroker, toClient, inboundMsgs, runPc, delivered>>
        /\ Answers' = Answers /\ (Healthy' <=> Healthy)
    BY <2>1 DEF Taken, Queued, Answers, Healthy, clientVars, netVars, brokerVars, stopVars, runVars
  <2> QED
    BY <2>2, QuietAck DEF AckInv, DoneInv
<1>2. CASE PublishError \/ DisconnectDrained \/ DisconnectTimedOut \/ DisconnectClosed
  <2>1. CloseSession /\ UNCHANGED <<brokerVars, delivered, runVars>>
    BY <1>2 DEF PublishError, DisconnectDrained, DisconnectTimedOut, DisconnectClosed, DisconnectClose
  <2>2. /\ connected' = FALSE /\ messageQueue' = <<>> /\ Len(messageQueue') = 0
        /\ UNCHANGED <<qos, id, exchange, network, toBroker, runPc>>
    BY <2>1, EmptyType DEF CloseSession, brokerVars, runVars
  <2>3. ~Live' /\ \A m \in Msg : ~Queued(m)'
    BY <2>2 DEF Live, Queued
  <2> QED
    BY <2>2, <2>3, QuietAck DEF AckInv, DoneInv
<1> QED
  BY <1>1, <1>2, InterruptedAck DEF AppStep

\* The loop of the thread around the handlers, the network and the kernel.
LEMMA LoopAck ==
  TypeOK /\ QueueInv /\ AckInv
    /\ (\/ RunSelect \/ ContinueWrite \/ RunStops \/ RunLosesConnection
        \/ RunDelivers \/ RunGoesOn \/ CallbackReturns \/ NetworkFails \/ TcpGivesUp
        \/ UNCHANGED vars) => AckInv'
<1> SUFFICES ASSUME TypeOK, QueueInv, AckInv,
                    \/ RunSelect \/ ContinueWrite \/ RunStops \/ RunLosesConnection
                    \/ RunDelivers \/ RunGoesOn \/ CallbackReturns \/ NetworkFails \/ TcpGivesUp
                    \/ UNCHANGED vars
             PROVE  AckInv'
  OBVIOUS
<1>1. CASE RunSelect \/ RunStops \/ RunGoesOn
  <2>1. UNCHANGED <<clientVars, netVars, brokerVars, delivered>>
    BY <1>1 DEF RunSelect, RunStops, RunGoesOn, appVars
  <2>2. /\ \A m \in Msg : (Taken(m)' <=> Taken(m)) /\ (Queued(m)' <=> Queued(m))
        /\ UNCHANGED <<qos, id, exchange, connected, network, toBroker, toClient, inboundMsgs, delivered>>
        /\ Answers' = Answers
    BY <2>1 DEF Taken, Queued, Answers, clientVars, netVars, brokerVars
  <2>3. runPc' # "callback" /\ (tostop' => tostop)
    BY <1>1 DEF RunSelect, RunStops, RunGoesOn, EndThread, stopVars
  <2>4. connected => Healthy
    <3>1. CASE RunSelect
      BY <3>1 DEF RunSelect, Healthy
    <3>2. CASE RunStops
      BY <3>2 DEF RunStops, AckInv, DoneInv
    <3>3. CASE RunGoesOn
      BY <3>3 DEF RunGoesOn, Healthy, QueueInv
    <3> QED
      BY <1>1, <3>1, <3>2, <3>3
  <2> QED
    BY <2>2, <2>3, <2>4, QuietAck DEF AckInv, DoneInv, Live
<1>2. CASE ContinueWrite
  <2>1. /\ Busy /\ toBroker' = Sent(Head(writing)) /\ writing' = <<>>
        /\ UNCHANGED <<clientVars, toClient, network, brokerVars, delivered, stopVars, runVars>>
    BY <1>2 DEF ContinueWrite, appVars
  <2>2. network = "up" => Answers' = Answers
    BY <2>1, AnswersWritten DEF Sent
  <2>3. network # "up" => toBroker' = toBroker
    BY <2>1 DEF Sent
  <2>4. /\ \A m \in Msg : (Taken(m)' <=> Taken(m)) /\ (Queued(m)' <=> Queued(m))
        /\ UNCHANGED <<qos, id, exchange, connected, network, tostop, toClient, inboundMsgs, runPc, delivered>>
        /\ (Healthy' <=> Healthy)
    BY <2>1 DEF Taken, Queued, Healthy, clientVars, brokerVars, stopVars, runVars
  <2> QED
    BY <2>2, <2>3, <2>4, QuietAck DEF AckInv, DoneInv, Live
<1>3. CASE RunLosesConnection
  <2>1. CloseSession /\ UNCHANGED <<brokerVars, delivered>> /\ runPc' = "dead"
    BY <1>3 DEF RunLosesConnection, EndThread, appVars
  <2>2. /\ connected' = FALSE /\ UNCHANGED <<qos, id, exchange, network, toBroker>>
    BY <2>1 DEF CloseSession, brokerVars
  <2> QED
    BY <2>1, <2>2, QuietAck DEF AckInv, DoneInv, Live
<1>4. CASE RunDelivers
  <2> DEFINE h == Head(messageQueue)
  <2>1. /\ messageQueue # <<>> /\ delivered' = [delivered EXCEPT ![h] = @ + 1] /\ runPc = "after"
        /\ UNCHANGED <<clientVars, netVars, brokerVars, stopVars, runSock, runRc>>
        /\ runRc = "ok"
    BY <1>4 DEF RunDelivers
  <2>2. /\ h \in Msg /\ h = messageQueue[1] /\ Len(messageQueue) = 1
    <3>1. messageQueue \in Seq(Msg) /\ Len(messageQueue) <= 1
      BY <2>1 DEF TypeOK, QueueInv
    <3> QED
      BY <2>1, <3>1, OneEntry
  <2> HIDE DEF h
  <2>3. /\ Queued(h) /\ delivered'[h] > 0 /\ \A m \in Msg : Queued(m) => m = h
        /\ \A m \in Msg \ {h} : delivered'[m] = delivered[m]
    BY <2>1, <2>2 DEF Queued, TypeOK
  <2>4. /\ UNCHANGED <<qos, id, exchange, connected, network, tostop, toBroker, toClient, inboundMsgs, messageQueue>>
        /\ Answers' = Answers /\ Healthy
    BY <2>1 DEF Answers, Healthy, clientVars, netVars, brokerVars, stopVars
  <2>5. \A m \in Msg : (Taken(m)' <=> Taken(m)) /\ (Queued(m)' => delivered'[m] > 0)
    BY <2>3, <2>4 DEF Taken, Queued
  <2> QED
    BY <2>4, <2>5, QuietAck DEF AckInv, DoneInv, Live
<1>5. CASE CallbackReturns
  <2>1. /\ runPc = "callback" /\ runPc' # "callback" /\ (tostop' => tostop)
        /\ UNCHANGED <<connected, inboundMsgs, netVars, brokerVars, delivered>>
        /\ messageQueue' = IF messageQueue = <<>> THEN <<>> ELSE Tail(messageQueue)
    BY <1>5 DEF CallbackReturns, EndThread, stopVars, appVars
  <2>2. /\ UNCHANGED <<qos, id, exchange, network, toBroker, toClient>>
        /\ Answers' = Answers /\ Healthy
    BY <2>1 DEF Answers, Healthy, netVars, brokerVars
  <2>3. \A m \in Msg : Queued(m)' => Queued(m)
    <3>1. messageQueue \in Seq(Msg) /\ Len(messageQueue) <= 1
      BY <2>1 DEF TypeOK, QueueInv
    <3>2. messageQueue' = <<>> /\ Len(messageQueue') = 0
      BY <2>1, <3>1, EmptyType, OneEntry
    <3> QED
      BY <3>2 DEF Queued
  <2>4. \A m \in Msg : Taken(m)' <=> Taken(m)
    BY <2>1, <2>3 DEF Taken, AckInv, DoneInv
  <2> QED
    BY <2>1, <2>2, <2>4, QuietAck DEF AckInv, DoneInv, Live
<1>6. CASE NetworkFails
  <2>1. /\ network' # "up" /\ toBroker' = <<>>
        /\ UNCHANGED <<clientVars, brokerVars, delivered, stopVars, runVars>>
    BY <1>6 DEF NetworkFails, appVars
  <2>2. /\ \A m \in Msg : (Taken(m)' <=> Taken(m)) /\ (Queued(m)' <=> Queued(m))
        /\ UNCHANGED <<qos, id, exchange, connected, tostop, runPc, delivered>>
    BY <2>1 DEF Taken, Queued, clientVars, brokerVars, stopVars, runVars
  <2> QED
    BY <2>1, <2>2, QuietAck DEF AckInv, DoneInv, Live
<1>7. CASE TcpGivesUp
  <2>1. /\ network # "up" /\ network' # "up" /\ UNCHANGED toBroker
        /\ UNCHANGED <<clientVars, brokerVars, delivered, stopVars, runVars>>
    BY <1>7 DEF TcpGivesUp, appVars
  <2>2. /\ \A m \in Msg : (Taken(m)' <=> Taken(m)) /\ (Queued(m)' <=> Queued(m))
        /\ UNCHANGED <<qos, id, exchange, connected, tostop, runPc, delivered>>
    BY <2>1 DEF Taken, Queued, clientVars, brokerVars, stopVars, runVars
  <2> QED
    BY <2>1, <2>2, QuietAck DEF AckInv, DoneInv, Live
<1>8. CASE UNCHANGED vars
  <2>1. UNCHANGED <<clientVars, netVars, brokerVars, delivered, stopVars, runVars>>
    BY <1>8 DEF vars, appVars
  <2>2. /\ \A m \in Msg : (Taken(m)' <=> Taken(m)) /\ (Queued(m)' <=> Queued(m))
        /\ UNCHANGED <<qos, id, exchange, connected, network, tostop, toBroker, toClient, inboundMsgs, runPc, delivered>>
        /\ Answers' = Answers /\ (Healthy' <=> Healthy)
    BY <2>1 DEF Taken, Queued, Answers, Healthy, clientVars, netVars, brokerVars, stopVars, runVars
  <2> QED
    BY <2>2, QuietAck DEF AckInv, DoneInv
<1> QED
  BY <1>1, <1>2, <1>3, <1>4, <1>5, <1>6, <1>7, <1>8

\* What a cycle leaves under way: what the handler left, unless it was closed.
LEMMA EndCycleAck ==
  ASSUME TypeOK, AckInv, runPc = "cycle",
         NEW inb, NEW queue, NEW tb, NEW wr, NEW tc, NEW rc,
         EndCycle(inb, queue, tb, wr, tc, rc), network # "up" => tb = <<>>,
         connected' => \A m \in Msg : Taken(m) => Taken(m)',
         Live' => AnswerInv', Live' /\ rc # "error" => WayInv',
         Live' /\ runSock # Fd => WayInv'
  PROVE  AckInv'
<1>1. /\ runPc' = "after" /\ runRc' = rc /\ UNCHANGED <<qos, id, exchange, network, runSock>>
      /\ toBroker' = tb /\ (connected' => connected) /\ (tostop' => tostop \/ ~connected')
  BY DEF EndCycle, StopThread, brokerVars, stopVars
<1>2. DoneInv'
  BY <1>1 DEF AckInv, DoneInv
<1>3. Live' /\ Healthy' => WayInv'
  BY <1>1 DEF Healthy
<1> QED
  BY <1>2, <1>3 DEF AckInv

\* The changes of a cycle that ends with the connection as it was.
LEMMA EndCycleLive ==
  ASSUME NEW inb, NEW queue, NEW tb, NEW wr, NEW tc, NEW rc,
         EndCycle(inb, queue, tb, wr, tc, rc), Live'
  PROVE  /\ Live /\ UNCHANGED <<qos, id, exchange, delivered>>
         /\ inboundMsgs' = inb /\ messageQueue' = queue
         /\ toBroker' = tb /\ writing' = wr /\ toClient' = tc
  BY DEF EndCycle, Live, brokerVars, appVars

\* A cycle without a packet, or with one that is ignored.
LEMMA IdleAck ==
  ASSUME TypeOK, AckInv, runPc = "cycle", CycleIdle \/ CycleReadError
  PROVE  AckInv'
<1>1. PICK rc : /\ EndCycle(inboundMsgs, messageQueue, toBroker, writing, toClient, rc)
                /\ Live => CycleIdle
  BY DEF CycleIdle, CycleReadError, Live
<1>2. connected' => \A m \in Msg : (Taken(m)' <=> Taken(m)) /\ (Stored(m)' <=> Stored(m))
  BY <1>1 DEF EndCycle, Taken, Queued, Stored, appVars
<1>3. ASSUME Live' PROVE AnswerInv' /\ WayInv'
  <2>1. /\ Live /\ UNCHANGED <<qos, id, exchange, toClient, toBroker, writing>> /\ connected'
    BY <1>1, <1>3, EndCycleLive DEF Live
  <2>2. Answers' = Answers /\ AnswerInv /\ WayInv
    BY <2>1 DEF Answers, AckInv, Healthy
  <2>3. AnswerInv'
    BY <1>2, <2>1, <2>2, AnswersStay
  <2> QED
    BY <1>2, <2>1, <2>2, <2>3 DEF WayInv
<1> QED
  BY <1>1, <1>2, <1>3, EndCycleAck DEF AckInv, DoneInv

\* The answer is not possible: an error for which run closes the session.
LEMMA RefusedAck ==
  ASSUME TypeOK, AckInv, runPc = "cycle", runSock = Fd, toClient # <<>>, Ignore("error")
  PROVE  AckInv'
<1>1. EndCycle(inboundMsgs, messageQueue, toBroker, writing, Tail(toClient), "error")
  BY DEF Ignore
<1>2. connected' => \A m \in Msg : (Taken(m)' <=> Taken(m)) /\ (Stored(m)' <=> Stored(m))
  BY <1>1 DEF EndCycle, Taken, Queued, Stored, appVars
<1>3. ASSUME Live' PROVE AnswerInv'
  <2>1. /\ Live /\ UNCHANGED <<qos, id, exchange, toBroker, writing>> /\ toClient' = Tail(toClient) /\ connected'
    BY <1>1, <1>3, EndCycleLive DEF Live
  <2>2. Answers' = Answers /\ AnswerInv
    BY <2>1 DEF Answers, AckInv
  <2> QED
    BY <1>2, <2>1, <2>2, AnswersStay
<1> QED
  BY <1>1, <1>2, <1>3, EndCycleAck DEF AckInv, DoneInv

\* What an acknowledgement leaves while the network works: one more answer.
LEMMA AcknowledgeLive ==
  ASSUME TypeOK, ~Busy, NEW ack \in Packet, NEW inb, NEW queue,
         Acknowledge(ack, inb, queue), Live'
  PROVE  /\ Live /\ UNCHANGED <<qos, id, exchange, delivered>>
         /\ inboundMsgs' = inb /\ messageQueue' = queue /\ toClient' = Tail(toClient)
         /\ Answers' = Append(Answers, ack)
<1>1. PICK tb, wr, rc :
         /\ EndCycle(inb, queue, tb, wr, Tail(toClient), rc)
         /\ network # "reset" => (tb = Sent(ack) /\ wr = writing) \/ (tb = toBroker /\ wr = <<ack>>)
  BY DEF Acknowledge
<1>2. /\ Live /\ UNCHANGED <<qos, id, exchange, delivered>>
      /\ inboundMsgs' = inb /\ messageQueue' = queue /\ toClient' = Tail(toClient)
      /\ toBroker' = tb /\ writing' = wr
  BY <1>1, EndCycleLive
<1>3. (tb = Append(toBroker, ack) /\ wr = writing) \/ (tb = toBroker /\ wr = <<ack>>)
  BY <1>1, <1>2 DEF Live, Sent
<1> QED
  BY <1>2, <1>3, AnswersAppend

\* A handler that answers keeps the invariant when what it leaves is sound.
LEMMA AcknowledgeAck ==
  ASSUME TypeOK, AckInv, runPc = "cycle", runSock = Fd, NEW ack, NEW inb, NEW queue,
         Acknowledge(ack, inb, queue),
         connected' => \A m \in Msg : Taken(m) => Taken(m)',
         Live' => AnswerInv' /\ WayInv'
  PROVE  AckInv'
<1>1. PICK tb, wr, rc :
         /\ EndCycle(inb, queue, tb, wr, Tail(toClient), rc)
         /\ tb = Sent(ack) \/ tb = toBroker
  BY DEF Acknowledge
<1>2. network # "up" => tb = <<>>
  BY <1>1 DEF Sent, AckInv, DoneInv
<1> QED
  BY <1>1, <1>2, EndCycleAck

\* The publication a handler has read, of a message the broker still waits about.
LEMMA PublishHead ==
  ASSUME TypeInv, OnceInv, AckInv, connected, toClient # <<>>, Head(toClient).type = "PUBLISH"
  PROVE  LET p == Head(toClient)
         IN  /\ p \in Packet /\ p.msg \in Msg /\ p.id = id[p.msg] /\ p.qos = qos[p.msg]
             /\ ~Taken(p.msg) /\ (p.qos > 0 => Active(p.msg))
<1> DEFINE p == Head(toClient)
<1>1. toClient \in Seq(FromBrokerPacket) /\ TypeOK
  BY DEF TypeInv
<1>2. p \in FromBrokerPacket /\ 1 \in 1..Len(toClient) /\ toClient[1] = p
  BY <1>1, ChannelEnds, HeadOnce
<1>3. p \in Packet /\ p.msg \in Msg /\ p.qos \in 0..2
  BY <1>2 DEF FromBrokerPacket, Packet
<1>4. exchange[p.msg] # "new" /\ ~Taken(p.msg) /\ p.id = id[p.msg] /\ p.qos = qos[p.msg]
  BY <1>2, <1>3 DEF OnceInv, Order, Known, IsPublish
<1>5. p.qos > 0 => exchange[p.msg] # "done"
  BY <1>3, <1>4 DEF AckInv, DoneInv
<1>6. exchange[p.msg] \in {"new", "sent", "released", "done"}
  BY <1>1, <1>3 DEF TypeOK
<1> QED
  BY <1>3, <1>4, <1>5, <1>6 DEF Active

\* After the client has read a packet: what it read about an open exchange, it has
\* answered or queued.
LEMMA WayStays ==
  ASSUME TypeOK, WayInv, UNCHANGED <<qos, id, exchange>>,
         toClient # <<>>, toClient' = Tail(toClient),
         \A t, m : In(Answers, t, m) => In(Answers', t, m),
         \A m \in Msg : Taken(m) => Taken(m)',
         \A m \in Msg : Head(toClient).type = "PUBLISH" /\ Head(toClient).msg = m /\ exchange[m] = "sent" =>
            In(Answers', IF qos[m] = 1 THEN "PUBACK" ELSE "PUBREC", m),
         \A m \in Msg : Head(toClient).type = "PUBREL" /\ Head(toClient).msg = m /\ exchange[m] = "released" =>
            Taken(m)'
  PROVE  WayInv'
<1>1. \A t, m : In(toClient, t, m) =>
         In(toClient', t, m) \/ (Head(toClient).type = t /\ Head(toClient).msg = m)
  BY HasTail DEF TypeOK
<1>2. ASSUME NEW m \in Msg, exchange[m] = "sent"
      PROVE  \/ In(toClient', "PUBLISH", m)
             \/ In(Answers', IF qos[m] = 1 THEN "PUBACK" ELSE "PUBREC", m)
  BY <1>1, <1>2 DEF WayInv
<1>3. ASSUME NEW m \in Msg, exchange[m] = "released", ~Taken(m)'
      PROVE  In(toClient', "PUBREL", m)
  BY <1>1, <1>3 DEF WayInv
<1> QED
  BY <1>2, <1>3 DEF WayInv

\* A publication at QoS 0 or 1 is queued.
LEMMA QueuedTaken ==
  ASSUME TypeOK, NEW m \in Msg, messageQueue = <<>>, messageQueue' = Append(messageQueue, m),
         UNCHANGED delivered
  PROVE  \A n \in Msg : Taken(n)' <=> Taken(n) \/ n = m
<1>1. Len(messageQueue) = 0 /\ Len(messageQueue') = 1 /\ messageQueue'[1] = m
  BY EmptyType
<1> QED
  BY <1>1 DEF Taken, Queued

LEMMA Publish0Ack ==
  ASSUME TypeInv, QueueInv, OnceInv, AckInv, HandlePublish0
  PROVE  AckInv'
<1> DEFINE p == Head(toClient)
<1>0. /\ TypeOK /\ runPc = "cycle" /\ toClient # <<>> /\ p.type = "PUBLISH" /\ p.qos = 0
      /\ messageQueue = <<>> /\ connected
      /\ EndCycle(inboundMsgs, Append(messageQueue, p.msg), toBroker, writing, Tail(toClient), "ok")
  BY DEF HandlePublish0, Reading, TypeInv, QueueInv, NoBacklog
<1>1. /\ p \in Packet /\ p.msg \in Msg /\ qos[p.msg] = 0 /\ ~Taken(p.msg)
  BY <1>0, PublishHead
<1> HIDE DEF p
<1>2. exchange[p.msg] \in {"new", "done"}
  BY <1>1 DEF AckInv, DoneInv
<1>3. ASSUME connected' PROVE \A m \in Msg : Taken(m)' <=> Taken(m) \/ m = p.msg
  <2>1. messageQueue' = Append(messageQueue, p.msg) /\ UNCHANGED delivered
    BY <1>0, <1>3 DEF EndCycle, appVars
  <2> QED
    BY <1>0, <1>1, <2>1, QueuedTaken
<1>4. ASSUME Live' PROVE AnswerInv' /\ WayInv'
  <2>1. /\ Live /\ UNCHANGED <<qos, id, exchange, toBroker, writing, inboundMsgs>>
        /\ toClient' = Tail(toClient) /\ connected'
    BY <1>0, <1>4, EndCycleLive DEF Live
  <2>2. /\ Answers' = Answers /\ AnswerInv /\ WayInv
        /\ \A m \in Msg : Stored(m)' <=> Stored(m)
    BY <1>0, <2>1 DEF Answers, AckInv, Healthy, Stored
  <2>3. AnswerInv'
    BY <1>0, <1>2, <1>3, <2>1, <2>2, AnswersStay
  <2>4. WayInv'
    BY <1>0, <1>2, <1>3, <2>1, <2>2, WayStays DEF p
  <2> QED
    BY <2>3, <2>4
<1> QED
  BY <1>0, <1>3, <1>4, EndCycleAck DEF AckInv, DoneInv

LEMMA Publish1Ack ==
  ASSUME TypeInv, QueueInv, OnceInv, AckInv, HandlePublish1
  PROVE  AckInv'
<1>a. PICK p : p = Head(toClient)
  OBVIOUS
<1> DEFINE a == Reply(p, "PUBACK")
<1>0. /\ TypeOK /\ runPc = "cycle" /\ runSock = Fd /\ toClient # <<>> /\ p.type = "PUBLISH" /\ p.qos = 1
      /\ messageQueue = <<>> /\ connected
      /\ \/ Ignore("error")
         \/ ~Busy /\ Acknowledge(a, inboundMsgs, Append(messageQueue, p.msg))
  BY <1>a DEF HandlePublish1, Reading, TypeInv, QueueInv, NoBacklog
<1>1. p \in Packet /\ p.msg \in Msg /\ p.id = id[p.msg] /\ qos[p.msg] = 1 /\ ~Taken(p.msg) /\ Active(p.msg)
  BY <1>a, <1>0, PublishHead
<1>2. a \in Packet /\ a.type = "PUBACK" /\ a.msg = p.msg /\ a.id = p.id
  BY <1>1, ReplyType DEF Reply, Packet
<1> HIDE DEF a
<1>3. exchange[p.msg] = "sent"
  BY <1>1 DEF AckInv, DoneInv, Active
<1>4. CASE Ignore("error")
  BY <1>0, <1>4, RefusedAck
<1>5. CASE ~Busy /\ Acknowledge(a, inboundMsgs, Append(messageQueue, p.msg))
  <2>1. ASSUME connected' PROVE \A m \in Msg : Taken(m)' <=> Taken(m) \/ m = p.msg
    <3>1. messageQueue' = Append(messageQueue, p.msg) /\ UNCHANGED delivered
      BY <1>5, <2>1 DEF Acknowledge, EndCycle, appVars
    <3> QED
      BY <1>0, <1>1, <3>1, QueuedTaken
  <2>2. ASSUME Live' PROVE AnswerInv' /\ WayInv'
    <3>1. /\ Live /\ UNCHANGED <<qos, id, exchange, inboundMsgs>> /\ connected'
          /\ toClient' = Tail(toClient) /\ Answers' = Append(Answers, a) /\ Answers \in Seq(Packet)
      BY <1>0, <1>2, <1>5, <2>2, AcknowledgeLive, AnswersType DEF Live
    <3>2. AnswerInv /\ WayInv /\ \A m \in Msg : (Stored(m)' <=> Stored(m))
      BY <1>0, <3>1 DEF AckInv, Healthy, Stored
    <3>3. \A m \in Msg : Taken(m)' <=> Taken(m) \/ m = p.msg
      BY <2>1, <3>1
    <3>4. Given(a)'
      <4>1. Taken(p.msg)'
        BY <1>1, <3>3
      <4> QED
        BY <1>1, <1>2, <1>3, <3>1, <4>1 DEF Given
    <3>5. ~In(Answers, "PUBACK", a.msg)
      BY <1>1, <1>2, <3>2 DEF AnswerInv, Given, In
    <3>6. AnswerInv'
      BY <1>0, <1>2, <1>3, <3>1, <3>2, <3>3, <3>4, <3>5, AnswerAdded
    <3>7. \A t, m : In(Answers', t, m) <=> In(Answers, t, m) \/ (a.type = t /\ a.msg = m)
      BY <1>2, <3>1, HasAppend
    <3>8. WayInv'
      BY <1>0, <1>1, <1>2, <3>1, <3>2, <3>3, <3>7, <1>a, WayStays
    <3> QED
      BY <3>6, <3>8
  <2> QED
    BY <1>0, <1>5, <2>1, <2>2, AcknowledgeAck
<1> QED
  BY <1>0, <1>4, <1>5

LEMMA Publish2Ack ==
  ASSUME TypeInv, QueueInv, OnceInv, AckInv, HandlePublish2
  PROVE  AckInv'
<1>a. PICK p : p = Head(toClient)
  OBVIOUS
<1> DEFINE a == Reply(p, "PUBREC")
           stored == (inboundMsgs \ EntryOf(p)) \cup {[msgid |-> p.id, msg |-> p.msg]}
<1>0. /\ TypeOK /\ runPc = "cycle" /\ runSock = Fd /\ toClient # <<>> /\ p.type = "PUBLISH" /\ p.qos = 2
      /\ connected
      /\ \/ Ignore("error")
         \/ ~Busy /\ Acknowledge(a, stored, messageQueue)
  BY <1>a DEF HandlePublish2, Reading, TypeInv, QueueInv
<1>1. p \in Packet /\ p.msg \in Msg /\ p.id = id[p.msg] /\ qos[p.msg] = 2 /\ ~Taken(p.msg) /\ Active(p.msg)
  BY <1>a, <1>0, PublishHead
<1>2. a \in Packet /\ a.type = "PUBREC" /\ a.msg = p.msg /\ a.id = p.id
  BY <1>1, ReplyType DEF Reply, Packet
\* A stored entry whose place the new one takes is of the same message.
<1>3. \A e \in EntryOf(p) : e.msg = p.msg
  <2> SUFFICES ASSUME NEW e \in EntryOf(p) PROVE e.msg = p.msg
    OBVIOUS
  <2>1. e \in inboundMsgs /\ e.msgid = p.id /\ e.msg \in Msg
    BY <1>0 DEF EntryOf, TypeOK, Message
  <2>2. id[e.msg] = id[p.msg] /\ qos[e.msg] = 2 /\ exchange[e.msg] # "new" /\ Stored(e.msg)
    BY <1>1, <2>1 DEF OnceInv, Stored
  <2>3. ~Taken(e.msg)
    BY <2>1, <2>2 DEF OnceInv
  <2>4. Active(e.msg)
    BY <1>0, <2>1, <2>2, <2>3 DEF AckInv, DoneInv, Active, TypeOK
  <2> QED
    BY <1>1, <2>1, <2>2, <2>4 DEF OnceInv
<1>4. ASSUME inboundMsgs' = stored
      PROVE  Stored(p.msg)' /\ \A m \in Msg : Stored(m) => Stored(m)'
  <2>1. \A m \in Msg, e \in inboundMsgs : e.msg = m => e \in stored \/ m = p.msg
    BY <1>3
  <2>2. \E e \in stored : e.msg = p.msg
    <3>1. [msgid |-> p.id, msg |-> p.msg] \in stored
      OBVIOUS
    <3> HIDE DEF stored
    <3> QED
      BY <3>1
  <2> HIDE DEF stored
  <2> QED
    BY <1>4, <2>1, <2>2 DEF Stored
<1> HIDE DEF a, stored
<1>5. CASE Ignore("error")
  BY <1>0, <1>5, RefusedAck
<1>6. CASE ~Busy /\ Acknowledge(a, stored, messageQueue)
  <2>1. ASSUME connected' PROVE \A m \in Msg : Taken(m)' <=> Taken(m)
    BY <1>6, <2>1 DEF Acknowledge, EndCycle, appVars, Taken, Queued
  <2>2. ASSUME Live' PROVE AnswerInv' /\ WayInv'
    <3>1. /\ Live /\ UNCHANGED <<qos, id, exchange>> /\ connected' /\ inboundMsgs' = stored
          /\ toClient' = Tail(toClient) /\ Answers' = Append(Answers, a) /\ Answers \in Seq(Packet)
      BY <1>0, <1>2, <1>6, <2>2, AcknowledgeLive, AnswersType DEF Live
    <3>2. AnswerInv /\ WayInv
      BY <1>0, <3>1 DEF AckInv, Healthy
    <3>3. Given(a)'
      <4>1. Stored(p.msg)' /\ Active(p.msg)'
        BY <1>1, <1>4, <3>1 DEF Active
      <4> QED
        BY <1>1, <1>2, <3>1, <4>1 DEF Given
    <3>4. ASSUME exchange[p.msg] # "sent", NEW k \in 1..Len(Answers),
                 Answers[k].type = "PUBCOMP", Answers[k].id = id[p.msg]
          PROVE  FALSE
      <4>1. Answers[k] \in Packet /\ Has(Answers, Answers[k]) /\ exchange[p.msg] = "released"
        BY <1>1, <3>1, <3>4 DEF Has, Active
      <4>2. Given(Answers[k])
        BY <3>2, <4>1 DEF AnswerInv
      <4>3. Answers[k].msg = p.msg /\ Taken(p.msg)
        BY <1>1, <3>4, <4>1, <4>2 DEF Given
      <4> QED
        BY <1>1, <4>3
    <3>5. AnswerInv'
      BY <1>0, <1>1, <1>2, <1>4, <2>1, <3>1, <3>2, <3>3, <3>4, AnswerAdded
    <3>6. \A t, m : In(Answers', t, m) <=> In(Answers, t, m) \/ (a.type = t /\ a.msg = m)
      BY <1>2, <3>1, HasAppend
    <3>7. WayInv'
      BY <1>a, <1>0, <1>1, <1>2, <2>1, <3>1, <3>2, <3>6, WayStays
    <3> QED
      BY <3>5, <3>7
  <2> QED
    BY <1>0, <1>6, <2>1, <2>2, AcknowledgeAck
<1> QED
  BY <1>0, <1>5, <1>6

\* The PUBREL a handler has read: the entry stored under its id is of a message
\* that is released, not handed on yet, and the PUBREL is its own; without an entry,
\* what was released under the id is taken and its PUBCOMP under way.
LEMMA PubrelHead ==
  ASSUME TypeInv, OnceInv, AckInv, Live, toClient # <<>>, NEW p, p = Head(toClient), p.type = "PUBREL"
  PROVE  /\ p \in Packet /\ Release(p)
         /\ \A e \in EntryOf(p) : /\ e \in inboundMsgs /\ e.msg = p.msg /\ ~Taken(p.msg)
                                  /\ exchange[p.msg] = "released"
         /\ EntryOf(p) = {} => Taken(p.msg)
         /\ \A m \in Msg : id[m] = p.id /\ exchange[m] = "sent" => ~In(Answers, "PUBREC", m)
<1>0. /\ TypeOK /\ AnswerInv /\ p \in Packet /\ 1 \in 1..Len(toClient) /\ toClient[1] = p /\ Has(toClient, p)
  BY ChannelEnds, HeadOnce DEF TypeInv, TypeOK, AckInv, Has
<1>1. Release(p) /\ p.msg \in Msg /\ p.id = id[p.msg] /\ qos[p.msg] = 2 /\ exchange[p.msg] \in {"released", "done"}
  BY <1>0 DEF AnswerInv, Release
<1>2. \A m \in Msg : id[m] = p.id /\ qos[m] = 2 /\ exchange[m] = "sent" => ~Stored(m)
  BY <1>0 DEF OnceInv, Order, SentFirst, IsPubrel
<1>3. ASSUME NEW e \in EntryOf(p)
      PROVE  e \in inboundMsgs /\ e.msg = p.msg /\ ~Taken(p.msg) /\ exchange[p.msg] = "released"
  <2>1. e \in inboundMsgs /\ e.msgid = p.id /\ e.msg \in Msg /\ Stored(e.msg)
    BY <1>0 DEF EntryOf, TypeOK, Message, Stored
  <2>2. id[e.msg] = p.id /\ qos[e.msg] = 2 /\ exchange[e.msg] # "new" /\ ~Taken(e.msg)
    BY <2>1 DEF OnceInv
  <2>3. exchange[e.msg] = "released"
    BY <1>0, <1>2, <2>1, <2>2 DEF AckInv, DoneInv, Live, TypeOK
  <2>4. p.msg = e.msg
    BY <1>1, <2>1, <2>2, <2>3 DEF Release
  <2> QED
    BY <2>1, <2>2, <2>3, <2>4
<1>4. EntryOf(p) = {} => Taken(p.msg)
  <2> SUFFICES ASSUME EntryOf(p) = {}, ~Taken(p.msg) PROVE FALSE
    OBVIOUS
  <2>1. exchange[p.msg] = "released" /\ Stored(p.msg)
    BY <1>0, <1>1 DEF AckInv, DoneInv, Live, AnswerInv, Held
  <2>2. PICK e \in inboundMsgs : e.msg = p.msg
    BY <2>1 DEF Stored
  <2>3. e.msgid = p.id
    BY <1>1, <2>2 DEF OnceInv
  <2> QED
    BY <2>2, <2>3 DEF EntryOf
<1>5. ASSUME NEW m \in Msg, id[m] = p.id, exchange[m] = "sent", In(Answers, "PUBREC", m) PROVE FALSE
  <2>1. PICK r \in Packet : Has(Answers, r) /\ r.type = "PUBREC" /\ r.msg = m
    BY <1>5 DEF In
  <2>2. qos[m] = 2 /\ (Stored(m) \/ Taken(m))
    BY <1>0, <2>1 DEF AnswerInv, Given
  <2> QED
    BY <1>2, <1>5, <2>2 DEF OnceInv
<1> QED
  BY <1>0, <1>1, <1>3, <1>4, <1>5

LEMMA PubrelAck ==
  ASSUME TypeInv, QueueInv, OnceInv, AckInv, HandlePubrel
  PROVE  AckInv'
<1>a. PICK p : p = Head(toClient)
  OBVIOUS
<1> DEFINE a == Reply(p, "PUBCOMP")
<1>0. /\ TypeOK /\ runPc = "cycle" /\ runSock = Fd /\ toClient # <<>> /\ p.type = "PUBREL"
      /\ connected /\ messageQueue = <<>>
      /\ \/ EntryOf(p) = {} /\ Ignore("ok")
         \/ Ignore("error")
         \/ EntryOf(p) = {} /\ ~Busy /\ Acknowledge(a, inboundMsgs, messageQueue)
         \/ ~Busy /\ \E e \in EntryOf(p) : Acknowledge(a, inboundMsgs \ {e}, Append(messageQueue, e.msg))
  BY <1>a DEF HandlePubrel, Reading, TypeInv, QueueInv, NoBacklog
<1>1. ASSUME Live
      PROVE  /\ p \in Packet /\ Release(p)
             /\ \A e \in EntryOf(p) : /\ e \in inboundMsgs /\ e.msg = p.msg /\ ~Taken(p.msg)
                                      /\ exchange[p.msg] = "released"
             /\ EntryOf(p) = {} => Taken(p.msg)
             /\ \A m \in Msg : id[m] = p.id /\ exchange[m] = "sent" => ~In(Answers, "PUBREC", m)
  BY <1>a, <1>0, <1>1, PubrelHead
<1>2. p \in Packet => a \in Packet /\ a.type = "PUBCOMP" /\ a.msg = p.msg /\ a.id = p.id
  BY ReplyType DEF Reply, Packet
<1> HIDE DEF a
<1>3. CASE EntryOf(p) = {} /\ Ignore("ok")
  <2>1. EndCycle(inboundMsgs, messageQueue, toBroker, writing, Tail(toClient), "ok")
    BY <1>3 DEF Ignore
  <2>2. connected' => \A m \in Msg : (Taken(m)' <=> Taken(m)) /\ (Stored(m)' <=> Stored(m))
    BY <2>1 DEF EndCycle, Taken, Queued, Stored, appVars
  <2>3. ASSUME Live' PROVE AnswerInv' /\ WayInv'
    <3>1. /\ Live /\ UNCHANGED <<qos, id, exchange, toBroker, writing>>
          /\ toClient' = Tail(toClient) /\ connected'
      BY <2>1, <2>3, EndCycleLive DEF Live
    <3>2. Answers' = Answers /\ AnswerInv /\ WayInv
      BY <1>0, <3>1 DEF Answers, AckInv, Healthy
    <3>3. AnswerInv'
      BY <1>0, <2>2, <3>1, <3>2, AnswersStay
    <3>4. WayInv'
      BY <1>a, <1>0, <1>1, <1>3, <2>2, <3>1, <3>2, WayStays
    <3> QED
      BY <3>3, <3>4
  <2> QED
    BY <1>0, <2>1, <2>2, <2>3, EndCycleAck DEF AckInv, DoneInv
<1>4. CASE Ignore("error")
  BY <1>0, <1>4, RefusedAck
<1>5. CASE EntryOf(p) = {} /\ ~Busy /\ Acknowledge(a, inboundMsgs, messageQueue)
  <2>1. ASSUME connected' PROVE \A m \in Msg : (Taken(m)' <=> Taken(m)) /\ (Stored(m)' <=> Stored(m))
    BY <1>5, <2>1 DEF Acknowledge, EndCycle, appVars, Taken, Queued, Stored
  <2>2. ASSUME Live' PROVE AnswerInv' /\ WayInv'
    <3>1. Live
      BY <1>5, <2>2 DEF Acknowledge, EndCycle, Live
    <3>2. /\ UNCHANGED <<qos, id, exchange>> /\ connected'
          /\ toClient' = Tail(toClient) /\ Answers' = Append(Answers, a) /\ Answers \in Seq(Packet)
      BY <1>0, <1>1, <1>2, <1>5, <2>2, <3>1, AcknowledgeLive, AnswersType DEF Live
    <3>3. AnswerInv /\ WayInv
      BY <1>0, <3>1 DEF AckInv, Healthy
    <3>4. Release(p) /\ Taken(p.msg) /\ p \in Packet
      BY <1>1, <1>5, <3>1
    <3>5. Given(a)'
      <4>1. Taken(p.msg)'
        BY <2>1, <3>2, <3>4, <1>0 DEF Release
      <4> QED
        BY <1>0, <1>2, <3>2, <3>4, <4>1 DEF Given, Release
    <3>6. AnswerInv'
      BY <1>0, <1>1, <1>2, <2>1, <3>1, <3>2, <3>3, <3>4, <3>5, AnswerAdded
    <3>7. \A t, m : In(Answers', t, m) <=> In(Answers, t, m) \/ (a.type = t /\ a.msg = m)
      BY <1>2, <3>2, <3>4, HasAppend
    <3>8. WayInv'
      BY <1>a, <1>0, <2>1, <3>2, <3>3, <3>4, <3>7, WayStays
    <3> QED
      BY <3>6, <3>8
  <2> QED
    BY <1>0, <1>5, <2>1, <2>2, AcknowledgeAck
<1>6. ASSUME ~Busy, NEW e \in EntryOf(p), Acknowledge(a, inboundMsgs \ {e}, Append(messageQueue, e.msg))
      PROVE  AckInv'
  <2>1. e \in inboundMsgs /\ e.msg \in Msg
    BY <1>0 DEF EntryOf, TypeOK, Message
  <2>2. ASSUME connected' PROVE \A m \in Msg : Taken(m)' <=> Taken(m) \/ m = e.msg
    <3>1. messageQueue' = Append(messageQueue, e.msg) /\ UNCHANGED delivered
      BY <1>6, <2>2 DEF Acknowledge, EndCycle, appVars
    <3> QED
      BY <1>0, <2>1, <3>1, QueuedTaken
  <2>3. ASSUME Live' PROVE AnswerInv' /\ WayInv'
    <3>1. Live
      BY <1>6, <2>3 DEF Acknowledge, EndCycle, Live
    <3>2. /\ p \in Packet /\ Release(p) /\ e.msg = p.msg /\ exchange[p.msg] = "released"
      BY <1>1, <3>1
    <3>3. /\ UNCHANGED <<qos, id, exchange>> /\ connected' /\ inboundMsgs' = inboundMsgs \ {e}
          /\ toClient' = Tail(toClient) /\ Answers' = Append(Answers, a) /\ Answers \in Seq(Packet)
      BY <1>0, <1>2, <1>6, <2>3, <3>2, AcknowledgeLive, AnswersType DEF Live
    <3>4. AnswerInv /\ WayInv
      BY <1>0, <3>1 DEF AckInv, Healthy
    <3>5. \A m \in Msg : Taken(m)' <=> Taken(m) \/ m = p.msg
      BY <2>2, <3>2, <3>3
    <3>6. \A m \in Msg : Stored(m) => Stored(m)' \/ Taken(m)'
      BY <3>2, <3>3, <3>5 DEF Stored
    <3>7. Given(a)'
      <4>1. Taken(p.msg)'
        BY <1>0, <3>2, <3>5 DEF Release
      <4> QED
        BY <1>0, <1>2, <3>2, <3>3, <4>1 DEF Given, Release
    <3>8. AnswerInv'
      BY <1>0, <1>1, <1>2, <3>1, <3>2, <3>3, <3>4, <3>5, <3>6, <3>7, AnswerAdded
    <3>9. \A t, m : In(Answers', t, m) <=> In(Answers, t, m) \/ (a.type = t /\ a.msg = m)
      BY <1>2, <3>2, <3>3, HasAppend
    <3>10. WayInv'
      BY <1>a, <1>0, <3>3, <3>4, <3>5, <3>9, WayStays
    <3> QED
      BY <3>8, <3>10
  <2> QED
    BY <1>0, <1>6, <2>2, <2>3, AcknowledgeAck
<1> QED
  BY <1>0, <1>3, <1>4, <1>5, <1>6

-----------------------------------------------------------------------------
(* The broker's steps *)

\* What the broker has taken is about the message it says, if an exchange goes on.
LEMMA TakenIsOwn ==
  ASSUME TypeOK, OnceInv, AnswerInv, NEW p \in Packet, Has(Answers, p)
  PROVE  \A m \in Acknowledged(p) :
            /\ m \in Msg /\ m = p.msg /\ p.id = id[m]
            /\ <<p.type, qos[m], exchange[m]>> \in
                  {<<"PUBACK", 1, "sent">>, <<"PUBREC", 2, "sent">>,
                   <<"PUBREC", 2, "released">>, <<"PUBCOMP", 2, "released">>}
<1> SUFFICES ASSUME NEW m \in Acknowledged(p) PROVE m = p.msg
  BY DEF Acknowledged
<1>1. Given(p)
  BY DEF AnswerInv
<1>2. /\ m \in Msg /\ id[m] = p.id /\ Active(m)
      /\ p.type \in {"PUBACK", "PUBREC", "PUBCOMP"}
      /\ p.type = "PUBCOMP" => exchange[m] = "released"
  BY DEF Acknowledged, Active
<1>3. CASE p.type = "PUBCOMP"
  BY <1>1, <1>2, <1>3 DEF Given
<1>4. CASE p.type \in {"PUBACK", "PUBREC"}
  <2>1. p.msg \in Msg /\ id[p.msg] = p.id /\ Active(p.msg)
    BY <1>1, <1>4 DEF Given, Active
  <2> QED
    BY <1>2, <2>1 DEF OnceInv
<1> QED
  BY <1>2, <1>3, <1>4

\* An answer that is due is acknowledged: it carries the exchange on.
LEMMA DueIsAcknowledged ==
  ASSUME AnswerInv, NEW p \in Packet, Has(Answers, p), NEW m \in Msg, p.msg = m,
         \/ p.type = "PUBACK" /\ exchange[m] = "sent"
         \/ p.type = "PUBREC" /\ exchange[m] = "sent"
         \/ p.type = "PUBCOMP" /\ exchange[m] = "released"
  PROVE  m \in Acknowledged(p)
<1>1. Given(p)
  BY DEF AnswerInv
<1> QED
  BY <1>1 DEF Given, Acknowledged

\* The broker takes an answer: the exchange goes on, and a PUBREC is answered.
LEMMA TakesAck ==
  ASSUME TypeInv, QueueInv, OnceInv, AckInv, BrokerTakes
  PROVE  AckInv'
<1>a. PICK p : p = Head(toBroker)
  OBVIOUS
<1>b. PICK Ack : Ack = Acknowledged(p)
  OBVIOUS
<1> DEFINE next == IF p.type = "PUBREC" THEN "released" ELSE "done"
<1>0. /\ TypeOK /\ toBroker # <<>> /\ toBroker' = Tail(toBroker)
      /\ UNCHANGED <<qos, id, connected, messageQueue, inboundMsgs, delivered, writing, network, tostop, runPc, runRc, runSock>>
      /\ exchange' = [m \in Msg |-> IF m \in Ack THEN next ELSE exchange[m]]
      /\ Ack \subseteq Msg
  BY <1>a, <1>b DEF BrokerTakes, TypeInv, clientVars, appVars, stopVars, runVars, Acknowledged
<1>1. /\ Answers \in Seq(Packet) /\ Answers # <<>> /\ p = Head(Answers) /\ Answers' = Tail(Answers)
  BY <1>a, <1>0, AnswersType, AnswersTaken
<1>2. /\ p \in Packet /\ Has(Answers, p) /\ Answers[1] = p /\ 1 \in 1..Len(Answers) /\ Len(Answers) \in Nat
      /\ Len(Answers') = Len(Answers) - 1
      /\ \A k \in 1..Len(Answers') : Answers'[k] = Answers[k + 1] /\ k + 1 \in 1..Len(Answers) /\ k + 1 > 1
  BY <1>1, TailPackets DEF Has
<1>3. /\ network = "up"
      /\ \A m \in Msg : (Taken(m)' <=> Taken(m)) /\ (Stored(m)' <=> Stored(m)) /\ (Queued(m)' <=> Queued(m))
      /\ (Live' <=> Live) /\ (Healthy' <=> Healthy)
  BY <1>0 DEF AckInv, DoneInv, Taken, Queued, Stored, Live, Healthy
<1>4. \A m \in Msg : exchange'[m] = IF m \in Ack THEN next ELSE exchange[m]
  BY <1>0
<1>5. \A m \in Ack : /\ m \in Msg
                     /\ <<p.type, qos[m], exchange[m]>> \in
                            {<<"PUBACK", 1, "sent">>, <<"PUBREC", 2, "sent">>,
                             <<"PUBREC", 2, "released">>, <<"PUBCOMP", 2, "released">>}
  BY <1>b DEF Acknowledged
<1> HIDE DEF next
<1>6. ASSUME Live
      PROVE  /\ AnswerInv /\ Given(p)
             /\ \A m \in Ack : m = p.msg /\ p.id = id[m]
             /\ \A m \in Msg : p.msg = m /\ p.type \in {"PUBACK", "PUBREC"} /\ exchange[m] = "sent" => m \in Ack
             /\ \A m \in Msg : p.msg = m /\ p.type = "PUBCOMP" /\ exchange[m] = "released" => m \in Ack
  BY <1>b, <1>0, <1>2, <1>6, TakenIsOwn, DueIsAcknowledged DEF AckInv, AnswerInv
<1>7. DoneInv'
  <2>1. \A m \in Msg : qos[m] = 0 => exchange'[m] \in {"new", "done"}
    BY <1>4, <1>5 DEF AckInv, DoneInv
  <2>2. \A m \in Msg : qos[m] = 1 => exchange'[m] # "released"
    BY <1>4, <1>5 DEF AckInv, DoneInv, next
  <2>3. ASSUME connected, NEW m \in Msg, exchange'[m] = "done", qos[m] > 0 PROVE Taken(m)
    <3>1. CASE m \in Ack
      <4>1. Live
        BY <1>3, <2>3 DEF Live
      <4>2. m = p.msg /\ Given(p) /\ p.type \in {"PUBACK", "PUBCOMP"}
        BY <1>4, <1>5, <1>6, <2>3, <3>1, <4>1 DEF next
      <4> QED
        BY <4>2 DEF Given
    <3>2. CASE m \notin Ack
      BY <1>4, <2>3, <3>2 DEF AckInv, DoneInv
    <3> QED
      BY <3>1, <3>2
  <2> QED
    BY <1>0, <1>3, <2>1, <2>2, <2>3 DEF AckInv, DoneInv
\* A PUBREC that starts the release finds no PUBCOMP and no PUBREL under its id.
<1>8. ASSUME Live, NEW m \in Ack, exchange[m] = "sent", p.type = "PUBREC"
      PROVE  /\ ~Taken(m) /\ Stored(m)
             /\ \A k \in 1..Len(Answers) : ~ (Answers[k].type = "PUBCOMP" /\ Answers[k].id = id[m])
             /\ \A k \in 1..Len(toClient) : ~IsPubrel(toClient[k], m)
  <2>1. m \in Msg /\ qos[m] = 2 /\ m = p.msg /\ Given(p) /\ AnswerInv
    BY <1>5, <1>6, <1>8
  <2>2. ~Taken(m) /\ Stored(m)
    BY <1>8, <2>1 DEF Given, OnceInv
  <2>3. \A k \in 1..Len(toClient) : ~IsPubrel(toClient[k], m)
    BY <1>8, <2>1, <2>2 DEF OnceInv, Order, SentFirst
  <2>4. ASSUME NEW k \in 1..Len(Answers), Answers[k].type = "PUBCOMP", Answers[k].id = id[m]
        PROVE  FALSE
    <3>1. Answers[1].type = "PUBREC" /\ Answers[1].msg = m /\ 1 \in 1..Len(Answers)
      BY <1>2, <1>8, <2>1
    <3>2. k < 1
      BY <1>8, <2>1, <2>4, <3>1 DEF AnswerInv, RecThenComp
    <3> QED
      BY <3>2
  <2> QED
    BY <2>2, <2>3, <2>4
<1>9. ASSUME Live PROVE \A b \in Packet : Has(Answers', b) => Given(b)'
  <2> SUFFICES ASSUME NEW b \in Packet, Has(Answers', b) PROVE Given(b)'
    OBVIOUS
  <2>1. PICK k \in 1..Len(Answers) : k > 1 /\ Answers[k] = b
    BY <1>2 DEF Has
  <2>2. Given(b)
    BY <1>6, <1>9, <2>1 DEF AnswerInv, Has
  <2>3. b.type \in {"PUBACK", "PUBREC", "PUBCOMP"} => b.msg \in Msg /\ b.id = id'[b.msg]
    BY <1>0, <2>2 DEF Given
  <2>4. b.type = "PUBACK" => qos'[b.msg] = 1 /\ exchange'[b.msg] = "sent" /\ Taken(b.msg)'
    <3> SUFFICES ASSUME b.type = "PUBACK"
                 PROVE  qos'[b.msg] = 1 /\ exchange'[b.msg] = "sent" /\ Taken(b.msg)'
      OBVIOUS
    <3>1. b.msg \in Msg /\ qos[b.msg] = 1 /\ exchange[b.msg] = "sent" /\ Taken(b.msg)'
      BY <1>3, <2>2 DEF Given
    <3>2. b.msg \notin Ack
      <4>1. b.msg \in Ack => p.type = "PUBACK" /\ p.msg = b.msg
        BY <1>5, <1>6, <1>9, <3>1
      <4> QED
        BY <1>2, <1>6, <1>9, <2>1, <4>1 DEF AnswerInv, OneAck
    <3> QED
      BY <1>0, <1>4, <3>1, <3>2
  <2>5. b.type = "PUBREC" => qos'[b.msg] = 2 /\ Active(b.msg)' /\ (Stored(b.msg)' \/ Taken(b.msg)')
    <3> SUFFICES ASSUME b.type = "PUBREC"
                 PROVE  qos'[b.msg] = 2 /\ Active(b.msg)' /\ (Stored(b.msg)' \/ Taken(b.msg)')
      OBVIOUS
    <3>1. b.msg \in Msg /\ qos[b.msg] = 2 /\ Active(b.msg) /\ (Stored(b.msg)' \/ Taken(b.msg)')
      BY <1>3, <2>2 DEF Given
    <3>2. b.msg \in Ack => p.type = "PUBREC"
      <4> SUFFICES ASSUME b.msg \in Ack, p.type # "PUBREC" PROVE FALSE
        OBVIOUS
      <4>1. p.type = "PUBCOMP" /\ exchange[b.msg] = "released" /\ p.id = id[b.msg]
        BY <1>5, <1>6, <1>9, <3>1
      <4>2. k < 1
        BY <1>2, <1>6, <1>9, <2>1, <3>1, <4>1 DEF AnswerInv, RecThenComp
      <4> QED
        BY <2>1, <4>2
    <3> QED
      BY <1>0, <1>4, <3>1, <3>2 DEF Active, next
  <2>6. b.type = "PUBCOMP" =>
          /\ qos'[b.msg] = 2 /\ exchange'[b.msg] \in {"released", "done"} /\ Taken(b.msg)'
          /\ \A m \in Msg : b.id = id'[m] /\ exchange'[m] = "released" => b.msg = m
    <3> SUFFICES ASSUME b.type = "PUBCOMP"
                 PROVE  /\ qos'[b.msg] = 2 /\ exchange'[b.msg] \in {"released", "done"} /\ Taken(b.msg)'
                        /\ \A m \in Msg : b.id = id'[m] /\ exchange'[m] = "released" => b.msg = m
      OBVIOUS
    <3>1. b.msg \in Msg /\ qos[b.msg] = 2 /\ exchange[b.msg] \in {"released", "done"} /\ Taken(b.msg)'
      BY <1>3, <2>2 DEF Given
    <3>2. ASSUME NEW m \in Msg, b.id = id[m], exchange'[m] = "released" PROVE b.msg = m
      <4>1. CASE exchange[m] = "released"
        BY <2>2, <3>2, <4>1 DEF Given
      <4>2. CASE exchange[m] # "released"
        <5>1. m \in Ack /\ p.type = "PUBREC" /\ exchange[m] = "sent"
          BY <1>4, <1>5, <3>2, <4>2 DEF next
        <5> QED
          BY <1>8, <1>9, <2>1, <3>2, <5>1
      <4> QED
        BY <4>1, <4>2
    <3> QED
      BY <1>0, <1>4, <3>1, <3>2 DEF next
  <2> QED
    BY <2>3, <2>4, <2>5, <2>6 DEF Given
<1>10. ASSUME Live PROVE OneAck(Answers') /\ RecThenComp(Answers)'
  <2>1. OneAck(Answers')
    <3> SUFFICES ASSUME NEW j \in 1..Len(Answers'), NEW k \in 1..Len(Answers'),
                        Answers'[j].type = "PUBACK", Answers'[k].type = "PUBACK",
                        Answers'[j].msg = Answers'[k].msg
                 PROVE  j = k
      BY DEF OneAck
    <3>1. j + 1 = k + 1
      BY <1>2, <1>6, <1>10 DEF AnswerInv, OneAck
    <3> QED
      BY <3>1
  <2>2. ASSUME NEW m \in Msg, NEW j \in 1..Len(Answers'), NEW k \in 1..Len(Answers'),
               Answers'[j].type = "PUBREC", Answers'[j].msg = m,
               Answers'[k].type = "PUBCOMP", Answers'[k].id = id[m]
        PROVE  IF exchange'[m] = "sent" THEN k < j ELSE j < k
    <3>0. /\ j + 1 \in 1..Len(Answers) /\ Answers[j + 1].type = "PUBREC" /\ Answers[j + 1].msg = m
          /\ k + 1 \in 1..Len(Answers) /\ Answers[k + 1].type = "PUBCOMP" /\ Answers[k + 1].id = id[m]
      BY <1>2, <2>2
    <3>1. IF exchange[m] = "sent" THEN k + 1 < j + 1 ELSE j + 1 < k + 1
      BY <1>6, <1>10, <3>0 DEF AnswerInv, RecThenComp
    <3>2. CASE m \notin Ack
      BY <1>4, <3>1, <3>2
    <3>3. CASE m \in Ack
      <4>1. exchange'[m] # "sent"
        BY <1>4, <3>3 DEF next
      <4>2. exchange[m] # "sent"
        <5> SUFFICES ASSUME exchange[m] = "sent" PROVE FALSE
          OBVIOUS
        <5>1. Answers[j + 1] \in Packet /\ Given(Answers[j + 1])
          BY <1>1, <1>6, <1>10, <3>0 DEF AnswerInv, Has
        <5>2. qos[m] = 2
          BY <3>0, <5>1 DEF Given
        <5>3. p.type = "PUBREC"
          BY <1>5, <3>3, <5>2
        <5> QED
          BY <1>8, <1>10, <3>0, <3>3, <5>3
      <4> QED
        BY <3>1, <4>1, <4>2
    <3> QED
      BY <3>2, <3>3
  <2> QED
    BY <1>0, <2>1, <2>2 DEF RecThenComp
<1>11. \/ UNCHANGED toClient /\ (Live => p.type # "PUBREC" \/ Ack = {})
       \/ /\ p.type = "PUBREC" /\ Ack # {}
          /\ \E m \in Ack : toClient' = Append(toClient,
                [type |-> "PUBREL", id |-> p.id, qos |-> qos[m], dup |-> FALSE, msg |-> m])
  BY <1>a, <1>b DEF BrokerTakes, FromBroker, Reaches, Live, QueueInv
<1>12. ASSUME Live PROVE /\ \A b \in Packet : Has(toClient', b) =>
                               \/ Has(toClient, b)
                               \/ b.type = "PUBREL" /\ p.type = "PUBREC" /\ p.msg \in Ack
                                  /\ b.msg = p.msg /\ b.id = p.id
                         /\ \A t, m : In(toClient, t, m) => In(toClient', t, m)
                         /\ p.type = "PUBREC" => \A m \in Ack : In(toClient', "PUBREL", m)
  <2>1. CASE UNCHANGED toClient /\ (p.type # "PUBREC" \/ Ack = {})
    BY <2>1
  <2>2. ASSUME p.type = "PUBREC", NEW m \in Ack, NEW r,
               r = [type |-> "PUBREL", id |-> p.id, qos |-> qos[m], dup |-> FALSE, msg |-> m],
               toClient' = Append(toClient, r)
        PROVE  /\ \A b \in Packet : Has(toClient', b) =>
                               \/ Has(toClient, b)
                               \/ b.type = "PUBREL" /\ p.type = "PUBREC" /\ p.msg \in Ack
                                  /\ b.msg = p.msg /\ b.id = p.id
               /\ \A t, n : In(toClient, t, n) => In(toClient', t, n)
               /\ \A n \in Ack : In(toClient', "PUBREL", n)
    <3>1. r \in Packet /\ r.type = "PUBREL" /\ r.id = p.id /\ r.msg = m
      BY <1>0, <1>2, <2>2 DEF Packet, TypeOK
    <3>2. toClient \in Seq(Packet) /\ m = p.msg /\ \A n \in Ack : n = m
      BY <1>0, <1>6, <1>12 DEF TypeOK
    <3>3. /\ \A b : Has(toClient', b) <=> Has(toClient, b) \/ b = r
          /\ \A t, n : In(toClient', t, n) <=> In(toClient, t, n) \/ (r.type = t /\ r.msg = n)
      <4>1. toClient' = Append(toClient, r)
        BY <2>2
      <4> QED
        BY <3>1, <3>2, <4>1, HasAppend
    <3> QED
      BY <2>2, <3>1, <3>2, <3>3
  <2> QED
    BY <1>11, <1>12, <2>1, <2>2
<1>13. ASSUME Live PROVE \A b \in Packet : Has(toClient', b) => Release(b)'
  <2> SUFFICES ASSUME NEW b \in Packet, Has(toClient', b), b.type = "PUBREL" PROVE Release(b)'
    BY DEF Release
  <2>1. CASE Has(toClient, b)
    <3>1. Release(b)
      BY <1>6, <1>13, <2>1 DEF AnswerInv
    <3>2. ASSUME NEW m \in Msg, b.id = id[m], exchange'[m] = "released" PROVE b.msg = m
      <4>1. CASE exchange[m] = "released"
        BY <3>1, <3>2, <4>1 DEF Release
      <4>2. CASE exchange[m] # "released"
        <5>1. m \in Ack /\ p.type = "PUBREC" /\ exchange[m] = "sent"
          BY <1>4, <1>5, <3>2, <4>2 DEF next
        <5>2. PICK k \in 1..Len(toClient) : toClient[k] = b
          BY <2>1 DEF Has
        <5> QED
          BY <1>8, <1>13, <3>2, <5>1, <5>2 DEF IsPubrel
      <4> QED
        BY <4>1, <4>2
    <3>3. b.msg \in Msg /\ exchange'[b.msg] \in {"released", "done"}
      BY <1>4, <3>1 DEF Release, next
    <3> QED
      BY <1>0, <3>1, <3>2, <3>3 DEF Release
  <2>2. CASE p.type = "PUBREC" /\ p.msg \in Ack /\ b.msg = p.msg /\ b.id = p.id
    <3>1. b.msg \in Msg /\ qos[b.msg] = 2 /\ exchange'[b.msg] = "released" /\ b.id = id[b.msg] /\ Active(b.msg)
      BY <1>4, <1>5, <1>6, <1>13, <2>2 DEF next, Active
    <3>2. ASSUME NEW m \in Msg, b.id = id[m], exchange'[m] = "released" PROVE b.msg = m
      <4>1. Active(m)
        BY <1>4, <1>5, <3>2 DEF Active
      <4> QED
        BY <3>1, <3>2, <4>1 DEF OnceInv
    <3> QED
      BY <1>0, <3>1, <3>2 DEF Release
  <2> QED
    BY <1>12, <1>13, <2>1, <2>2
<1>14. \A t, m : In(Answers, t, m) => In(Answers', t, m) \/ (p.type = t /\ p.msg = m)
  BY <1>1, HasTail
<1>15. ASSUME Live PROVE Held'
  <2>1. ASSUME NEW m \in Msg, exchange'[m] = "released"
        PROVE  IF Taken(m) THEN In(Answers', "PUBCOMP", m) ELSE Stored(m)
    <3>1. CASE m \notin Ack
      BY <1>4, <1>6, <1>14, <1>15, <2>1, <3>1 DEF AnswerInv, Held
    <3>2. CASE m \in Ack
      <4>1. p.type = "PUBREC" /\ exchange[m] \in {"sent", "released"}
        BY <1>4, <1>5, <2>1, <3>2 DEF next
      <4> QED
        BY <1>6, <1>8, <1>14, <1>15, <3>2, <4>1 DEF AnswerInv, Held
    <3> QED
      BY <3>1, <3>2
  <2> QED
    BY <1>3, <2>1 DEF Held
<1>16. Live => AnswerInv'
  <2>1. Live => OneAck(Answers)'
    BY <1>10 DEF OneAck
  <2> QED
    BY <1>9, <1>10, <1>13, <1>15, <2>1 DEF AnswerInv
<1>17. ASSUME Live, Healthy PROVE WayInv'
  <2>0. WayInv
    BY <1>17 DEF AckInv
  <2>1. ASSUME NEW m \in Msg, exchange'[m] = "sent"
        PROVE  \/ In(toClient', "PUBLISH", m)
               \/ In(Answers', IF qos[m] = 1 THEN "PUBACK" ELSE "PUBREC", m)
    <3>1. m \notin Ack /\ exchange[m] = "sent"
      BY <1>4, <2>1 DEF next
    <3>2. ~ (p.msg = m /\ p.type \in {"PUBACK", "PUBREC"})
      BY <1>6, <1>17, <3>1
    <3> QED
      BY <1>12, <1>14, <1>17, <2>0, <3>1, <3>2 DEF WayInv
  <2>2. ASSUME NEW m \in Msg, exchange'[m] = "released", ~Taken(m)
        PROVE  In(toClient', "PUBREL", m)
    <3>1. CASE m \notin Ack
      BY <1>4, <1>12, <1>17, <2>0, <2>2, <3>1 DEF WayInv
    <3>2. CASE m \in Ack
      BY <1>4, <1>12, <1>17, <2>2, <3>2 DEF next
    <3> QED
      BY <3>1, <3>2
  <2> QED
    BY <1>0, <1>3, <2>1, <2>2 DEF WayInv
<1> QED
  BY <1>3, <1>7, <1>16, <1>17 DEF AckInv

\* The broker sends a message for the first time: under an id no open exchange has.
LEMMA PublishesAck ==
  ASSUME TypeInv, QueueInv, OnceInv, AckInv, NEW m \in Msg, BrokerPublishes(m)
  PROVE  AckInv'
<1>1. PICK i \in IF qos[m] = 0 THEN {0} ELSE FreeIds :
         id' = [id EXCEPT ![m] = i] /\ FromBroker("PUBLISH", m, i, FALSE)
  BY DEF BrokerPublishes
<1>2. /\ TypeOK /\ exchange[m] = "new" /\ network = "up" /\ i \in Id
      /\ exchange' = [exchange EXCEPT ![m] = IF qos[m] = 0 THEN "done" ELSE "sent"]
      /\ UNCHANGED <<qos, connected, messageQueue, inboundMsgs, delivered, writing, toBroker, network, tostop, runPc, runRc, runSock>>
  BY <1>1, InboundAssumption DEF BrokerPublishes, Reaches, TypeInv, FreeIds, Id, clientVars, appVars, stopVars, runVars
<1>3. /\ exchange'[m] = (IF qos[m] = 0 THEN "done" ELSE "sent") /\ qos[m] \in 0..2
      /\ \A n \in Msg : n # m => id'[n] = id[n] /\ exchange'[n] = exchange[n]
  BY <1>1, <1>2 DEF TypeOK
<1>4. /\ \A n \in Msg : (Taken(n)' <=> Taken(n)) /\ (Stored(n)' <=> Stored(n)) /\ (Queued(n)' <=> Queued(n))
      /\ (Live' <=> Live) /\ (Healthy' <=> Healthy) /\ Answers' = Answers
  BY <1>2 DEF Taken, Queued, Stored, Live, Healthy, Answers
<1> DEFINE p == [type |-> "PUBLISH", id |-> i, qos |-> qos[m], dup |-> FALSE, msg |-> m]
<1>5. p \in Packet /\ p.type = "PUBLISH" /\ p.msg = m /\ toClient' = Append(toClient, p)
  BY <1>1, <1>2, <1>3 DEF FromBroker, Packet
<1> HIDE DEF p
<1>6. /\ \A b : Has(toClient', b) <=> Has(toClient, b) \/ b = p
      /\ \A t, n : In(toClient', t, n) <=> In(toClient, t, n) \/ (p.type = t /\ p.msg = n)
  <2>1. toClient \in Seq(Packet)
    BY <1>2 DEF TypeOK
  <2> QED
    BY <1>5, <2>1, HasAppend
<1>7. DoneInv'
  BY <1>2, <1>3, <1>4 DEF AckInv, DoneInv
<1>8. ASSUME Live, NEW b \in Packet, Has(Answers, b) PROVE Given(b)'
  <2>1. Given(b)
    BY <1>8 DEF AckInv, AnswerInv
  <2>2. b.type \in {"PUBACK", "PUBREC", "PUBCOMP"} => b.msg \in Msg /\ b.msg # m
    BY <1>2, <2>1 DEF Given, Active
  <2>3. \A n \in Msg : b.id = id'[n] /\ exchange'[n] = "released" => n # m
    BY <1>3
  <2>4. b.type \in {"PUBACK", "PUBREC", "PUBCOMP"} => b.id = id'[b.msg] /\ exchange'[b.msg] = exchange[b.msg]
    BY <1>3, <2>1, <2>2 DEF Given
  <2>5. b.type = "PUBACK" => qos'[b.msg] = 1 /\ exchange'[b.msg] = "sent" /\ Taken(b.msg)'
    BY <1>2, <1>4, <2>1, <2>2, <2>4 DEF Given
  <2>6. b.type = "PUBREC" => qos'[b.msg] = 2 /\ Active(b.msg)' /\ (Stored(b.msg)' \/ Taken(b.msg)')
    BY <1>2, <1>4, <2>1, <2>2, <2>4 DEF Given, Active
  <2>7. b.type = "PUBCOMP" =>
          /\ qos'[b.msg] = 2 /\ exchange'[b.msg] \in {"released", "done"} /\ Taken(b.msg)'
          /\ \A n \in Msg : b.id = id'[n] /\ exchange'[n] = "released" => b.msg = n
    BY <1>2, <1>3, <1>4, <2>1, <2>2, <2>3, <2>4 DEF Given
  <2> QED
    BY <2>2, <2>4, <2>5, <2>6, <2>7 DEF Given
<1>9. ASSUME Live PROVE OneAck(Answers)' /\ RecThenComp(Answers)'
  <2>1. OneAck(Answers) /\ RecThenComp(Answers) /\ \A b \in Packet : Has(Answers, b) => Given(b)
    BY <1>9 DEF AckInv, AnswerInv
  <2>2. \A k \in 1..Len(Answers) : ~ (Answers[k].type = "PUBREC" /\ Answers[k].msg = m)
    <3>1. \A k \in 1..Len(Answers) : Answers[k] \in Packet /\ Has(Answers, Answers[k])
      BY <1>2, AnswersType DEF Has
    <3> QED
      BY <1>2, <2>1, <3>1 DEF Given, Active
  <2>3. OneAck(Answers)'
    BY <1>4, <2>1 DEF OneAck
  <2>4. RecThenComp(Answers)'
    BY <1>3, <1>4, <2>1, <2>2 DEF RecThenComp
  <2> QED
    BY <2>3, <2>4
<1>10. ASSUME Live, NEW b \in Packet, Has(toClient', b) PROVE Release(b)'
  <2>1. CASE Has(toClient, b)
    <3>1. Release(b)
      BY <1>10, <2>1 DEF AckInv, AnswerInv
    <3>2. b.type = "PUBREL" => b.msg \in Msg /\ b.msg # m
      BY <1>2, <3>1 DEF Release
    <3>3. \A n \in Msg : exchange'[n] = "released" => n # m
      BY <1>3
    <3> QED
      BY <1>2, <1>3, <3>1, <3>2, <3>3 DEF Release
  <2>2. CASE b = p
    BY <1>5, <2>2 DEF Release
  <2> QED
    BY <1>6, <1>10, <2>1, <2>2
<1>11. ASSUME Live PROVE AnswerInv'
  <2>1. Held'
    <3>1. Held
      BY <1>11 DEF AckInv, AnswerInv
    <3> QED
      BY <1>3, <1>4, <3>1 DEF Held
  <2>2. (\A b \in Packet : Has(Answers, b) => Given(b))'
    BY <1>4, <1>8, <1>11
  <2>3. (\A b \in Packet : Has(toClient, b) => Release(b))'
    BY <1>10, <1>11
  <2> QED
    BY <1>9, <1>11, <2>1, <2>2, <2>3 DEF AnswerInv
<1>12. ASSUME Live, Healthy PROVE WayInv'
  <2>1. WayInv
    BY <1>12 DEF AckInv
  <2>2. ASSUME NEW n \in Msg, exchange'[n] = "sent"
        PROVE  \/ In(toClient', "PUBLISH", n)
               \/ In(Answers, IF qos[n] = 1 THEN "PUBACK" ELSE "PUBREC", n)
    BY <1>3, <1>5, <1>6, <2>1, <2>2 DEF WayInv
  <2>3. ASSUME NEW n \in Msg, exchange'[n] = "released", ~Taken(n) PROVE In(toClient', "PUBREL", n)
    BY <1>3, <1>6, <2>1, <2>3 DEF WayInv
  <2> QED
    BY <1>2, <1>4, <2>2, <2>3 DEF WayInv
<1> QED
  BY <1>4, <1>7, <1>11, <1>12 DEF AckInv

\* The broker repeats a packet: one more of the same kind for the client.
LEMMA ResendsAck ==
  ASSUME TypeInv, QueueInv, OnceInv, AckInv, NEW m \in Msg, BrokerResends(m)
  PROVE  AckInv'
<1>1. PICK t \in {"PUBLISH", "PUBREL"}, d \in BOOLEAN :
         /\ FromBroker(t, m, id[m], d) /\ (t = "PUBREL" => exchange[m] = "released")
  BY DEF BrokerResends
<1>2. /\ TypeOK /\ qos[m] = 2
      /\ UNCHANGED <<qos, id, exchange, connected, messageQueue, inboundMsgs, delivered, writing, toBroker, network, tostop, runPc, runRc, runSock>>
  BY DEF BrokerResends, TypeInv, clientVars, appVars, stopVars, runVars
<1>3. /\ \A n \in Msg : (Taken(n)' <=> Taken(n)) /\ (Stored(n)' <=> Stored(n)) /\ (Queued(n)' <=> Queued(n))
      /\ (Live' <=> Live) /\ (Healthy' <=> Healthy) /\ Answers' = Answers
  BY <1>2 DEF Taken, Queued, Stored, Live, Healthy, Answers
<1> DEFINE p == [type |-> t, id |-> id[m], qos |-> qos[m], dup |-> d, msg |-> m]
<1>4. p \in Packet /\ p.type = t /\ p.msg = m /\ p.id = id[m] /\ toClient' = Append(toClient, p)
  BY <1>1, <1>2 DEF FromBroker, Packet, TypeOK
<1> HIDE DEF p
<1>5. /\ \A b : Has(toClient', b) <=> Has(toClient, b) \/ b = p
      /\ \A u, n : In(toClient', u, n) <=> In(toClient, u, n) \/ (p.type = u /\ p.msg = n)
  <2>1. toClient \in Seq(Packet)
    BY <1>2 DEF TypeOK
  <2> QED
    BY <1>4, <2>1, HasAppend
<1>6. DoneInv'
  BY <1>2, <1>3 DEF AckInv, DoneInv
<1>7. ASSUME Live PROVE AnswerInv'
  <2>0. AnswerInv
    BY <1>7 DEF AckInv
  <2>1. /\ \A b : Given(b) => Given(b)'
        /\ \A b : Release(b) => Release(b)'
    BY <1>2, <1>3, GivenStays
  <2>2. (\A b \in Packet : Has(Answers, b) => Given(b))'
    BY <1>3, <2>0, <2>1 DEF AnswerInv
  <2>3. OneAck(Answers)' /\ RecThenComp(Answers)'
    BY <1>2, <1>3, <2>0 DEF AnswerInv, OneAck, RecThenComp
  <2>4. ASSUME NEW b \in Packet, Has(toClient', b) PROVE Release(b)'
    <3>1. CASE Has(toClient, b)
      BY <2>0, <2>1, <3>1 DEF AnswerInv
    <3>2. CASE b = p /\ t = "PUBREL"
      <4>1. exchange[m] = "released" /\ Active(m)
        BY <1>1, <3>2 DEF Active
      <4>2. \A n \in Msg : id[m] = id[n] /\ exchange[n] = "released" => n = m
        BY <4>1 DEF OnceInv, Active
      <4> QED
        BY <1>2, <1>4, <3>2, <4>1, <4>2 DEF Release
    <3>3. CASE b = p /\ t # "PUBREL"
      BY <1>4, <3>3 DEF Release
    <3> QED
      BY <1>5, <2>4, <3>1, <3>2, <3>3
  <2>5. Held'
    BY <1>2, <1>3, <2>0 DEF AnswerInv, Held
  <2>6. (\A b \in Packet : Has(toClient, b) => Release(b))'
    BY <2>4
  <2> QED
    BY <2>2, <2>3, <2>5, <2>6 DEF AnswerInv
<1>8. ASSUME Live, Healthy PROVE WayInv'
  <2>1. WayInv
    BY <1>8 DEF AckInv
  <2> QED
    BY <1>2, <1>3, <1>5, <2>1 DEF WayInv
<1> QED
  BY <1>3, <1>6, <1>7, <1>8 DEF AckInv

LEMMA AckStep == TypeInv /\ QueueInv /\ OnceInv /\ AckInv /\ [Next]_vars => AckInv'
<1> SUFFICES ASSUME TypeInv, QueueInv, OnceInv, AckInv, [Next]_vars PROVE AckInv'
  OBVIOUS
<1>1. TypeOK
  BY DEF TypeInv
<1>2. CASE CycleIdle \/ CycleReadError
  <2>1. runPc = "cycle"
    BY <1>2 DEF CycleIdle, CycleReadError
  <2> QED
    BY <1>1, <1>2, <2>1, IdleAck
<1>3. CASE HandlePublish0 \/ HandlePublish1 \/ HandlePublish2 \/ HandlePubrel
  BY <1>3, Publish0Ack, Publish1Ack, Publish2Ack, PubrelAck
<1>4. CASE BrokerStep
  BY <1>4, TakesAck, PublishesAck, ResendsAck DEF BrokerStep
<1> QED
  BY <1>1, <1>2, <1>3, <1>4, AppAck, LoopAck DEF Next, RunStep, Terminated

\* What is under way in either direction.
LEMMA ConcatHas ==
  ASSUME NEW q \in Seq(Packet), NEW r \in Seq(Packet)
  PROVE  q \o r \in Seq(Packet) /\ \A b : Has(q \o r, b) <=> Has(q, b) \/ Has(r, b)
<1> DEFINE s == q \o r
<1>1. /\ s \in Seq(Packet) /\ Len(q) \in Nat /\ Len(r) \in Nat /\ Len(s) = Len(q) + Len(r)
      /\ \A i \in 1..Len(s) : s[i] = IF i <= Len(q) THEN q[i] ELSE r[i - Len(q)]
  BY ConcatProperties
<1> HIDE DEF s
<1>2. ASSUME NEW b, Has(s, b) PROVE Has(q, b) \/ Has(r, b)
  <2>1. PICK i \in 1..Len(s) : s[i] = b
    BY <1>2 DEF Has
  <2>2. i \in 1..Len(q) \/ i - Len(q) \in 1..Len(r)
    BY <1>1
  <2> QED
    BY <1>1, <2>1, <2>2 DEF Has
<1>3. ASSUME NEW b, Has(q, b) PROVE Has(s, b)
  BY <1>1, <1>3 DEF Has
<1>4. ASSUME NEW b, Has(r, b) PROVE Has(s, b)
  <2>1. PICK i \in 1..Len(r) : r[i] = b
    BY <1>4 DEF Has
  <2>2. i + Len(q) \in 1..Len(s) /\ s[i + Len(q)] = b
    BY <1>1, <2>1
  <2> QED
    BY <2>2 DEF Has
<1> QED
  BY <1>1, <1>2, <1>3, <1>4 DEF s

LEMMA PathHas ==
  ASSUME NEW q \in Seq(Packet), NEW r \in Seq(Packet), NEW s \in Seq(Packet)
  PROVE  \A b : Has(s, b) \/ Has(r \o q, b) => Has(q \o r \o s, b)
<1>1. q \o r \in Seq(Packet)
  BY ConcatHas
<1> QED
  BY <1>1, ConcatHas

LEMMA AckInvariant == Spec => [](TypeInv /\ QueueInv /\ OnceInv /\ AckInv)
<1>1. TypeInv /\ QueueInv /\ [Next]_vars => QueueInv'
  BY QueueStep DEF TypeInv
<1> QED
  BY <1>1, TypeInit, TypeStep, QueueInit, OnceInit, OnceStep, AckInit, AckStep, PTL DEF Spec

\* Once the broker may forget a message, the application has it or is next to get
\* it, or the session was closed: a PUBACK is written only for what was queued, a
\* PUBCOMP only for what was released to the queue, whatever is repeated or reused.
THEOREM AcknowledgedIsKept == Spec => []AckedIsKept
<1>1. ASSUME QueueInv, AckInv PROVE AckedIsKept
  <2> SUFFICES ASSUME NEW m \in Msg, exchange[m] = "done", qos[m] > 0, connected
               PROVE  delivered[m] > 0 \/ m \in {messageQueue[i] : i \in 1..Len(messageQueue)}
    BY DEF AckedIsKept
  <2>1. Taken(m)
    BY <1>1 DEF AckInv, DoneInv
  <2> QED
    BY <2>1 DEF Taken, Queued
<1> QED
  BY <1>1, AckInvariant, PTL

\* No acknowledgement is dropped: while the network works, the packet an open
\* exchange waits for is on its way, or the cycle that could not answer because the
\* socket was busy ended in the error for which run closes the session.
THEOREM NoAnswerDropped == Spec => []AckUnderWay
<1>1. ASSUME TypeInv, AckInv PROVE AckUnderWay
  <2> DEFINE path == writing \o toBroker \o toClient
             Expected(m) == IF exchange[m] = "released" THEN {"PUBREL", "PUBCOMP"}
                            ELSE {"PUBLISH", IF qos[m] = 1 THEN "PUBACK" ELSE "PUBREC"}
  <2> SUFFICES ASSUME connected, network = "up", NEW m \in Msg, exchange[m] \in {"sent", "released"},
                      ~ (runPc = "after" /\ runRc = "error")
               PROVE  \E i \in 1..Len(path) : path[i].msg = m /\ path[i].type \in Expected(m)
    BY DEF AckUnderWay
  <2>1. AnswerInv /\ WayInv
    BY <1>1 DEF AckInv, Live, Healthy
  <2>2. \E t \in Expected(m) : In(toClient, t, m) \/ In(Answers, t, m)
    BY <2>1 DEF AnswerInv, Held, WayInv
  <2>3. /\ writing \in Seq(Packet) /\ toBroker \in Seq(Packet) /\ toClient \in Seq(Packet)
    BY <1>1 DEF TypeInv, TypeOK
  <2> HIDE DEF Expected
  <2>4. \A b : Has(toClient, b) \/ Has(Answers, b) => Has(path, b)
    BY <2>3, PathHas DEF Answers
  <2>5. PICK t \in Expected(m), b \in Packet :
           (Has(toClient, b) \/ Has(Answers, b)) /\ b.type = t /\ b.msg = m
    BY <2>2 DEF In
  <2>6. Has(path, b)
    BY <2>4, <2>5
  <2> HIDE DEF path
  <2> QED
    BY <2>5, <2>6 DEF Has
<1> QED
  BY <1>1, AckInvariant, PTL
=============================================================================
