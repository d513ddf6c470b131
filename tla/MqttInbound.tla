----------------------------- MODULE MqttInbound -----------------------------
(***************************************************************************)
(* The inbound half of one MQTT connection of the DataLogger service: what *)
(* the broker publishes to it, the acknowledgements the library returns,   *)
(* and the messageArrived callback (message_arrived of mqtt.c, which       *)
(* always answers 1).                                                      *)
(*                                                                         *)
(* The background thread holds mqttclient_mutex in a cycle and after it,   *)
(* but not in select and not in the callback.  Application threads appear  *)
(* only where they reach into the connection: a publication that is        *)
(* written in part or cannot be written, and mqtt_disconnect.              *)
(***************************************************************************)
EXTENDS Naturals, Sequences, FiniteSets

CONSTANTS
    Msg,          \* the messages the broker publishes
    NoMsg,        \* no message
    QoSs,         \* their qualities of service
    MaxId,        \* the broker uses the ids 1..MaxId
    MaxPublish    \* bound: publications that disturb the connection

ASSUME InboundAssumption ==
    MaxId \in Nat /\ MaxPublish \in Nat /\ QoSs \subseteq 0..2 /\ NoMsg \notin Msg

VARIABLES
    \* the client structure
    connected, socket, inboundMsgs, messageQueue,
    \* the socket: the partially written packet, both directions, the network
    writing, toBroker, toClient, network,
    \* the broker: per message its quality, id and state; what it sent twice
    qos, id, exchange, resent,
    \* the application: mqtt_disconnect, disturbing publications, callbacks made
    disc, published, delivered,
    \* the background thread
    running, tostop, runPc, runSock, runRc

clientVars == <<connected, socket, inboundMsgs, messageQueue>>
netVars    == <<writing, toBroker, toClient, network>>
brokerVars == <<qos, id, exchange, resent>>
appVars    == <<disc, published, delivered>>
stopVars   == <<running, tostop>>
runVars    == <<runPc, runSock, runRc>>
vars == <<clientVars, netVars, brokerVars, appVars, stopVars, runVars>>

-----------------------------------------------------------------------------
Fd == 1
Id == 0..MaxId

Packet == [type : {"PUBLISH", "PUBACK", "PUBREC", "PUBREL", "PUBCOMP"},
           id : Id, qos : 0..2, dup : BOOLEAN, msg : Msg \cup {NoMsg}]

\* An entry of inboundMsgs: a QoS 2 publication that waits for its PUBREL.
Message == [msgid : 1..MaxId, msg : Msg]

\* Mutant: an acknowledgement carries the next id.
ReplyNextId(p, t) == [p EXCEPT !.type = t, !.dup = FALSE, !.id = p.id + 1]

Reply(p, t) == [p EXCEPT !.type = t, !.dup = FALSE]

Sent(p) == IF network = "up" THEN Append(toBroker, p) ELSE toBroker

\* Socket_noPendingWrites.
Busy == writing # <<>>

EntryOf(p) == {e \in inboundMsgs : e.msgid = p.id}

Init ==
    /\ connected = TRUE /\ socket = Fd /\ inboundMsgs = {} /\ messageQueue = <<>>
    /\ writing = <<>> /\ toBroker = <<>> /\ toClient = <<>> /\ network = "up"
    /\ qos \in [Msg -> QoSs] /\ id = [m \in Msg |-> 0]
    /\ exchange = [m \in Msg |-> "new"] /\ resent = {}
    /\ disc = "no" /\ published = 0 /\ delivered = [m \in Msg |-> 0]
    /\ running = TRUE /\ tostop = FALSE
    /\ runPc = "select" /\ runSock = 0 /\ runRc = "ok"

-----------------------------------------------------------------------------
\* The socket is closed and, because cleansession = 1, both lists are emptied.
CloseSession ==
    /\ connected' = FALSE /\ socket' = 0
    /\ inboundMsgs' = {} /\ messageQueue' = <<>>
    /\ writing' = <<>> /\ toClient' = <<>>
    /\ UNCHANGED <<toBroker, network>>

StopThread == tostop' = (tostop \/ running) /\ UNCHANGED running

-----------------------------------------------------------------------------
(* Application threads *)

\* publish5 left its packet incomplete on the socket.
PublishInterrupted ==
    /\ connected /\ ~Busy /\ network # "reset" /\ published < MaxPublish
    /\ published' = published + 1
    /\ writing' = <<[type |-> "PUBLISH", id |-> 0, qos |-> 0, dup |-> FALSE, msg |-> NoMsg]>>
    /\ UNCHANGED <<clientVars, toBroker, toClient, network, brokerVars, disc, delivered,
                   stopVars, runVars>>

\* publish5 could not write and closes the session.
PublishError ==
    /\ connected /\ ~Busy /\ network = "reset" /\ published < MaxPublish
    /\ published' = published + 1
    /\ CloseSession /\ StopThread
    /\ UNCHANGED <<brokerVars, disc, delivered, runVars>>

DisconnectStart ==
    /\ disc = "no" /\ connected
    /\ disc' = "draining"
    /\ UNCHANGED <<clientVars, netVars, brokerVars, published, delivered, stopVars, runVars>>

\* The QoS 2 exchanges are over, the time is up, or there was nothing to close.
DisconnectClose(from) ==
    /\ disc = from
    /\ disc' = "done"
    /\ CloseSession /\ StopThread
    /\ UNCHANGED <<brokerVars, published, delivered, runVars>>

DisconnectDrained  == inboundMsgs = {} /\ DisconnectClose("draining")
DisconnectTimedOut == inboundMsgs # {} /\ DisconnectClose("draining")
DisconnectClosed   == ~connected /\ DisconnectClose("no")

-----------------------------------------------------------------------------
(* The background thread: select and the end of a partial write *)

Ready == socket = Fd /\ (toClient # <<>> \/ network = "reset") /\ ~Busy

RunSelect ==
    /\ runPc = "select"
    /\ runSock' = IF Ready THEN Fd ELSE 0
    /\ runRc' = "error" /\ runPc' = "cycle"
    /\ UNCHANGED <<clientVars, netVars, brokerVars, appVars, stopVars>>

ContinueWrite ==
    /\ runPc = "select" /\ Busy /\ network # "silent"
    /\ toBroker' = Sent(Head(writing))
    /\ writing' = <<>>
    /\ UNCHANGED <<clientVars, toClient, network, brokerVars, appVars, stopVars, runVars>>

-----------------------------------------------------------------------------
(* The background thread: one cycle *)

\* The end of a cycle: what the handler left, or a session closed by keepalive.
EndCycle(inbound, queue, tb, wr, tc, rc) ==
    /\ runPc' = "after" /\ runRc' = rc
    /\ \/ /\ inboundMsgs' = inbound /\ messageQueue' = queue
          /\ toBroker' = tb /\ writing' = wr /\ toClient' = tc
          /\ UNCHANGED <<connected, socket, network, stopVars>>
       \/ /\ connected /\ StopThread
          /\ connected' = FALSE /\ socket' = 0
          /\ inboundMsgs' = {} /\ messageQueue' = <<>>
          /\ writing' = <<>> /\ toClient' = <<>> /\ toBroker' = tb
          /\ UNCHANGED network
    /\ UNCHANGED <<brokerVars, appVars, runSock>>

Reading(type) ==
    /\ runPc = "cycle" /\ runSock = Fd /\ socket = Fd
    /\ toClient # <<>> /\ Head(toClient).type = type

\* The handler changes nothing but its return code.
Ignore(rc) == EndCycle(inboundMsgs, messageQueue, toBroker, writing, Tail(toClient), rc)

\* An acknowledgement is written whole, in part, or not at all; the handler's
\* other changes are made all the same.
Acknowledge(ack, inbound, queue) ==
    LET End(tb, wr, rc) == EndCycle(inbound, queue, tb, wr, Tail(toClient), rc)
    IN  \/ network # "reset" /\ End(Sent(ack), writing, "ok")
        \/ network # "reset" /\ End(toBroker, <<ack>>, "ok")
        \/ network = "reset" /\ End(toBroker, writing, "error")

CycleIdle ==
    /\ runPc = "cycle" /\ (runSock = 0 \/ socket = 0)
    /\ EndCycle(inboundMsgs, messageQueue, toBroker, writing, toClient, runRc)

CycleReadError ==
    /\ runPc = "cycle" /\ runSock = Fd /\ socket = Fd
    /\ toClient = <<>> /\ network = "reset"
    /\ EndCycle(inboundMsgs, messageQueue, toBroker, writing, toClient, "error")

\* Mutant: an acknowledgement that cannot be sent now is forgotten.
HandlePublish1Silent ==
    LET p == Head(toClient) IN
    /\ Reading("PUBLISH") /\ p.qos = 1
    /\ \/ Busy /\ Ignore("ok")
       \/ ~Busy /\ Acknowledge(Reply(p, "PUBACK"), inboundMsgs, Append(messageQueue, p.msg))

\* Mutant: a publication whose PUBACK was not written at once is left aside.
HandlePublish1Partial ==
    LET p == Head(toClient)
        puback == Reply(p, "PUBACK")
        End(queue, tb, wr, rc) == EndCycle(inboundMsgs, queue, tb, wr, Tail(toClient), rc)
    IN  /\ Reading("PUBLISH") /\ p.qos = 1
        /\ \/ Busy /\ Ignore("error")
           \/ ~Busy /\ network # "reset"
                    /\ End(Append(messageQueue, p.msg), Sent(puback), writing, "ok")
           \/ ~Busy /\ network # "reset" /\ End(messageQueue, toBroker, <<puback>>, "ok")
           \/ ~Busy /\ network = "reset" /\ End(messageQueue, toBroker, writing, "error")

HandlePublish0 ==
    LET p == Head(toClient) IN
    /\ Reading("PUBLISH") /\ p.qos = 0
    /\ EndCycle(inboundMsgs, Append(messageQueue, p.msg), toBroker, writing, Tail(toClient), "ok")

HandlePublish1 ==
    LET p == Head(toClient) IN
    /\ Reading("PUBLISH") /\ p.qos = 1
    /\ \/ Busy /\ Ignore("error")
       \/ ~Busy /\ Acknowledge(Reply(p, "PUBACK"), inboundMsgs, Append(messageQueue, p.msg))

\* Stored until the PUBREL; a second copy takes the place of the first.
HandlePublish2 ==
    LET p == Head(toClient)
        stored == (inboundMsgs \ EntryOf(p)) \cup {[msgid |-> p.id, msg |-> p.msg]}
    IN  /\ Reading("PUBLISH") /\ p.qos = 2
        /\ \/ Busy /\ Ignore("error")
           \/ ~Busy /\ Acknowledge(Reply(p, "PUBREC"), stored, messageQueue)

\* Mutant: the entry stays in the list.
HandlePubrelKeeps ==
    LET p == Head(toClient) IN
    /\ Reading("PUBREL")
    /\ \/ EntryOf(p) = {} /\ ~p.dup /\ Ignore("ok")
       \/ (EntryOf(p) # {} \/ p.dup) /\ Busy /\ Ignore("error")
       \/ EntryOf(p) = {} /\ p.dup /\ ~Busy
             /\ Acknowledge(Reply(p, "PUBCOMP"), inboundMsgs, messageQueue)
       \/ ~Busy /\ \E e \in EntryOf(p) :
             Acknowledge(Reply(p, "PUBCOMP"), inboundMsgs, Append(messageQueue, e.msg))

\* Mutant: a PUBREL that cannot be answered now is forgotten.
HandlePubrelSilent ==
    LET p == Head(toClient) IN
    /\ Reading("PUBREL")
    /\ \/ EntryOf(p) = {} /\ ~p.dup /\ Ignore("ok")
       \/ (EntryOf(p) # {} \/ p.dup) /\ Busy /\ Ignore("ok")
       \/ EntryOf(p) = {} /\ p.dup /\ ~Busy
             /\ Acknowledge(Reply(p, "PUBCOMP"), inboundMsgs, messageQueue)
       \/ ~Busy /\ \E e \in EntryOf(p) :
             Acknowledge(Reply(p, "PUBCOMP"), inboundMsgs \ {e}, Append(messageQueue, e.msg))

\* The publication is released to the queue.  An unknown id is answered only if
\* the packet is marked as a duplicate.
HandlePubrel ==
    LET p == Head(toClient) IN
    /\ Reading("PUBREL")
    /\ \/ EntryOf(p) = {} /\ ~p.dup /\ Ignore("ok")
       \/ (EntryOf(p) # {} \/ p.dup) /\ Busy /\ Ignore("error")
       \/ EntryOf(p) = {} /\ p.dup /\ ~Busy
             /\ Acknowledge(Reply(p, "PUBCOMP"), inboundMsgs, messageQueue)
       \/ ~Busy /\ \E e \in EntryOf(p) :
             Acknowledge(Reply(p, "PUBCOMP"), inboundMsgs \ {e}, Append(messageQueue, e.msg))

-----------------------------------------------------------------------------
(* The background thread: after a cycle *)

EndThread == running' = FALSE /\ tostop' = FALSE /\ runPc' = "dead"

RunStops ==
    /\ runPc = "after" /\ tostop
    /\ EndThread
    /\ UNCHANGED <<clientVars, netVars, brokerVars, appVars, runSock, runRc>>

RunLosesConnection ==
    /\ runPc = "after" /\ ~tostop /\ runSock = socket
    /\ runRc = "error" /\ connected
    /\ CloseSession /\ EndThread
    /\ UNCHANGED <<brokerVars, appVars, runSock, runRc>>

\* messageArrived is called with the first entry of the queue, without the mutex.
RunDelivers ==
    /\ runPc = "after" /\ ~tostop /\ runSock = socket
    /\ runRc = "ok" /\ messageQueue # <<>>
    /\ delivered' = [delivered EXCEPT ![Head(messageQueue)] = @ + 1]
    /\ runPc' = "callback"
    /\ UNCHANGED <<clientVars, netVars, brokerVars, disc, published, stopVars, runSock, runRc>>

RunGoesOn ==
    /\ runPc = "after" /\ ~tostop
    /\ runSock = socket => IF runRc = "error" THEN ~connected ELSE messageQueue = <<>>
    /\ runPc' = "select"
    /\ UNCHANGED <<clientVars, netVars, brokerVars, appVars, stopVars, runSock, runRc>>

\* Mutant: the entry is not removed.
CallbackReturnsKeeps ==
    /\ runPc = "callback"
    /\ IF tostop THEN EndThread ELSE runPc' = "select" /\ UNCHANGED stopVars
    /\ UNCHANGED <<clientVars, netVars, brokerVars, appVars, runSock, runRc>>

\* The entry is removed if it is still in the queue.
CallbackReturns ==
    /\ runPc = "callback"
    /\ messageQueue' = IF messageQueue = <<>> THEN <<>> ELSE Tail(messageQueue)
    /\ IF tostop THEN EndThread ELSE runPc' = "select" /\ UNCHANGED stopVars
    /\ UNCHANGED <<connected, socket, inboundMsgs, netVars, brokerVars, appVars, runSock, runRc>>

-----------------------------------------------------------------------------
(* The broker, the network and the kernel *)

Reaches == socket = Fd /\ network = "up"

FreeIds == (1..MaxId) \ {id[m] : m \in {n \in Msg : exchange[n] \in {"sent", "released"}}}

FromBroker(type, m, i, dup) ==
    toClient' = Append(toClient, [type |-> type, id |-> i, qos |-> qos[m], dup |-> dup, msg |-> m])

BrokerPublishes(m) ==
    /\ exchange[m] = "new" /\ Reaches
    /\ \E i \in IF qos[m] = 0 THEN {0} ELSE FreeIds :
          id' = [id EXCEPT ![m] = i] /\ FromBroker("PUBLISH", m, i, FALSE)
    /\ exchange' = [exchange EXCEPT ![m] = IF qos[m] = 0 THEN "done" ELSE "sent"]
    /\ UNCHANGED <<clientVars, writing, toBroker, network, qos, resent, appVars, stopVars, runVars>>

\* A broker may repeat a packet of a QoS 2 exchange that was not answered yet;
\* MQTT 3.1 marks a repeated PUBREL as a duplicate, 3.1.1 does not.
BrokerResends(m) ==
    /\ qos[m] = 2 /\ m \notin resent /\ Reaches
    /\ resent' = resent \cup {m}
    /\ \/ exchange[m] = "sent" /\ FromBroker("PUBLISH", m, id[m], TRUE)
       \/ exchange[m] = "released" /\ \E d \in BOOLEAN : FromBroker("PUBREL", m, id[m], d)
    /\ UNCHANGED <<clientVars, writing, toBroker, network, qos, id, exchange, appVars,
                   stopVars, runVars>>

\* The message whose exchange an acknowledgement carries on, if there is one.
Acknowledged(p) ==
    {m \in Msg : /\ id[m] = p.id
                 /\ <<p.type, qos[m], exchange[m]>> \in
                        {<<"PUBACK", 1, "sent">>, <<"PUBREC", 2, "sent">>,
                         <<"PUBREC", 2, "released">>, <<"PUBCOMP", 2, "released">>}}

\* The broker takes the next packet; a PUBREC it expects is answered by a PUBREL.
BrokerTakes ==
    LET p == Head(toBroker)
        next == IF p.type = "PUBREC" THEN "released" ELSE "done"
    IN  /\ toBroker # <<>>
        /\ toBroker' = Tail(toBroker)
        /\ exchange' = [m \in Msg |-> IF m \in Acknowledged(p) THEN next ELSE exchange[m]]
        /\ \/ /\ p.type = "PUBREC" /\ Reaches
              /\ \E m \in Acknowledged(p) : FromBroker("PUBREL", m, p.id, FALSE)
           \/ /\ p.type # "PUBREC" \/ ~Reaches \/ Acknowledged(p) = {}
              /\ UNCHANGED toClient
        /\ UNCHANGED <<clientVars, writing, network, qos, id, resent, appVars, stopVars, runVars>>

NetworkFails ==
    /\ network = "up"
    /\ \/ network' = "reset" /\ toClient' = <<>>
       \/ network' = "silent" /\ UNCHANGED toClient
    /\ toBroker' = <<>>
    /\ UNCHANGED <<clientVars, writing, brokerVars, appVars, stopVars, runVars>>

TcpGivesUp ==
    /\ network = "silent" /\ network' = "reset"
    /\ UNCHANGED <<clientVars, writing, toBroker, toClient, brokerVars, appVars, stopVars, runVars>>

-----------------------------------------------------------------------------
AppStep ==
    \/ PublishInterrupted \/ PublishError
    \/ DisconnectStart \/ DisconnectDrained \/ DisconnectTimedOut \/ DisconnectClosed

RunStep ==
    \/ RunSelect \/ ContinueWrite
    \/ CycleIdle \/ CycleReadError
    \/ HandlePublish0 \/ HandlePublish1 \/ HandlePublish2 \/ HandlePubrel
    \/ RunStops \/ RunLosesConnection \/ RunDelivers \/ RunGoesOn
    \/ CallbackReturns

BrokerStep == BrokerTakes \/ \E m \in Msg : BrokerPublishes(m) \/ BrokerResends(m)

\* The connection is closed and the background thread has ended.
Terminated == runPc = "dead" /\ UNCHANGED vars

Next ==
    \/ AppStep \/ RunStep \/ BrokerStep
    \/ NetworkFails \/ TcpGivesUp
    \/ Terminated

Spec == Init /\ [][Next]_vars

\* The background thread runs and message_arrived returns, the broker takes what
\* it is sent, TCP gives up on a silent peer, and a socket that is polled again and
\* again takes the rest of a write.
Fairness ==
    /\ WF_vars(RunStep) /\ SF_vars(ContinueWrite)
    /\ WF_vars(BrokerTakes) /\ WF_vars(TcpGivesUp)

FairSpec == Spec /\ Fairness

-----------------------------------------------------------------------------
(* Properties *)

\* Every variable holds a value of its type; no id is stored twice.
TypeOK ==
    /\ connected \in BOOLEAN /\ socket \in {0, Fd}
    /\ inboundMsgs \subseteq Message /\ messageQueue \in Seq(Msg)
    /\ \A e, f \in inboundMsgs : e.msgid = f.msgid => e = f
    /\ writing \in Seq(Packet) /\ Len(writing) <= 1
    /\ toBroker \in Seq(Packet) /\ toClient \in Seq(Packet)
    /\ network \in {"up", "silent", "reset"}
    /\ qos \in [Msg -> 0..2] /\ id \in [Msg -> Id]
    /\ exchange \in [Msg -> {"new", "sent", "released", "done"}] /\ resent \subseteq Msg
    /\ disc \in {"no", "draining", "done"} /\ published \in 0..MaxPublish
    /\ delivered \in [Msg -> Nat]
    /\ running \in BOOLEAN /\ tostop \in BOOLEAN
    /\ runPc \in {"select", "cycle", "after", "callback", "dead"}
    /\ runSock \in {0, Fd} /\ runRc \in {"ok", "error"}

\* A QoS 2 message reaches the application once, even if the broker repeats its
\* PUBLISH or its PUBREL; so does every message that is sent once.
OnceAtMost == \A m \in Msg : delivered[m] <= 1

\* The library answers for what it acknowledged: once the broker may forget a QoS
\* 1 or 2 message, the application has it or is next to get it, or the session was
\* closed.
AckedIsKept ==
    \A m \in Msg : exchange[m] = "done" /\ qos[m] > 0 =>
        delivered[m] > 0 \/ m \in {messageQueue[i] : i \in 1..Len(messageQueue)} \/ ~connected

\* While the network works, each open exchange has a packet under way or the cycle
\* that could not answer it is about to close the session: no acknowledgement is
\* dropped because the socket was busy with another packet.
AckUnderWay ==
    LET path == writing \o toBroker \o toClient
        Expected(m) == IF exchange[m] = "released" THEN {"PUBREL", "PUBCOMP"}
                       ELSE {"PUBLISH", IF qos[m] = 1 THEN "PUBACK" ELSE "PUBREC"}
    IN  connected /\ network = "up" =>
            \A m \in Msg : exchange[m] \in {"sent", "released"} =>
                \/ \E i \in 1..Len(path) : path[i].msg = m /\ path[i].type \in Expected(m)
                \/ runPc = "after" /\ runRc = "error"

\* No message waits in the queue for another packet to arrive: what a cycle
\* queued, the same pass of the loop hands over.
NoBacklog == runPc \in {"select", "cycle"} => messageQueue = <<>>

\* A QoS 1 or 2 message that was sent reaches the application unless the
\* connection is lost or closed.
SentIsDelivered ==
    \A m \in Msg : exchange[m] # "new" /\ qos[m] > 0 ~> (delivered[m] > 0 \/ ~connected)

\* What MQTTClient.h says of the messageArrived callback: the message is the
\* application's to free.  So it stays in the queue, untouched by the library, until
\* the callback returns.  (Checked to fail: a thread that closes the session empties
\* the queue and frees the message the callback is working on.)
CallbackOwnsMessage == runPc = "callback" => messageQueue # <<>>

=============================================================================
