---------------------------- MODULE MqttSession ----------------------------
(***************************************************************************)
(* The outbound half of one MQTT connection of the DataLogger service.     *)
(*                                                                         *)
(* Application threads call mqtt_publish and mqtt_disconnect (mqtt.c); the *)
(* Paho library's background thread (MQTTClient_run) moves packets between *)
(* the socket and the session.  The library keeps its state under one      *)
(* mutex (mqttclient_mutex): an action below is what a thread does between *)
(* taking that mutex and releasing it.  The only steps outside it are      *)
(* select (RunSelect, ContinueWrite) and the returns to the application.   *)
(*                                                                         *)
(* Init is the state in which mqtt_open_connection returns 0.  The broker, *)
(* TCP and the kernel are external.                                        *)
(***************************************************************************)
EXTENDS Naturals, Sequences, FiniteSets

CONSTANTS
    Thread,       \* application threads that share the global client handle
    Msg,          \* the messages they publish
    NoMsg,        \* no message
    QoSs,         \* the qualities of service the application uses
    MaxInflight,  \* Clients.maxInflightMessages: 1, because reliable = 1
    MAX_MSG_ID    \* 65535 in the code

ASSUME SessionAssumption ==
    /\ MaxInflight \in Nat \ {0}
    /\ MAX_MSG_ID \in Nat
    /\ MaxInflight < MAX_MSG_ID
    /\ QoSs \subseteq 0..2
    /\ NoMsg \notin Msg

VARIABLES
    \* the client structure
    connected, connect_state, socket, outboundMsgs, msgID,
    \* the socket: the partially written packet, both directions, the network
    writing, toBroker, toClient, network,
    \* the broker
    brokerIds, received,
    \* the application: per thread, then per message, then the process
    pc, cur, token, qos, result,
    \* the background thread and the callbacks it made
    running, tostop, runPc, runSock, runRc, confirmed, lost

clientVars == <<connected, connect_state, socket, outboundMsgs, msgID>>
netVars    == <<writing, toBroker, toClient, network>>
brokerVars == <<brokerIds, received>>
appVars    == <<pc, cur, token, qos, result>>
runVars    == <<runPc, runSock, runRc>>
stopVars   == <<running, tostop>>
cbVars     == <<confirmed, lost>>
vars == <<clientVars, netVars, brokerVars, appVars, runVars, stopVars, cbVars>>

-----------------------------------------------------------------------------
Fd == 1          \* the descriptor of the connection; net.socket is 0 once closed
MsgId == 1..MAX_MSG_ID
Token == 0..MAX_MSG_ID

Packet == [type : {"PUBLISH", "PUBACK", "PUBREC", "PUBREL", "PUBCOMP"},
           id : Token, qos : 0..2, msg : Msg]

\* An entry of outboundMsgs.  "msg" is the identity of the stored publication;
\* the code never uses the order of the list, only look-ups by msgid.
Message == [msgid : MsgId, qos : 1..2,
            next : {"PUBACK", "PUBREC", "PUBCOMP"}, msg : Msg]

Pc == {"idle", "publishing", "blocked", "writing", "waiting",
       "draining", "stopping", "done", "exited"}

Exited == \E t \in Thread : pc[t] = "exited"

\* What the application has not handed to mqtt_publish yet.
Fresh == {m \in Msg : result[m] = "new"}

IdsInUse == {e.msgid : e \in outboundMsgs}

\* How far the search of MQTTProtocol_assignMsgId goes from msgID to reach an id.
Ahead(id) == IF id > msgID THEN id - msgID ELSE id + MAX_MSG_ID - msgID

\* The search gives up when it is back at msgID, which it never tries.
FreeIds == MsgId \ (IdsInUse \cup {msgID})

\* Mutant: the id does not wrap around at MAX_MSG_ID.
AssignMsgIdUnwrapped == {msgID + 1}

\* Mutant: the search for an unused id is left out.
AssignMsgIdUnsearched == IF msgID = MAX_MSG_ID THEN {1} ELSE {msgID + 1}

\* The id assigned: the first free one after msgID, wrapping at MAX_MSG_ID; none
\* (0 in the code) if no id is free.
AssignMsgId == {id \in FreeIds : \A x \in FreeIds : Ahead(id) <= Ahead(x)}

\* Mutant: the wrap comes one id late.
NextIdLate(id) == IF id > MAX_MSG_ID THEN 1 ELSE id + 1

\* The loop of MQTTProtocol_assignMsgId itself; 0 is "none free".
NextId(id) == IF id = MAX_MSG_ID THEN 1 ELSE id + 1
Search[id \in Nat] ==
    IF id \notin IdsInUse THEN id
    ELSE IF NextId(id) = msgID THEN 0 ELSE Search[NextId(id)]

\* Mutant: one message too many.
FullOffByOne == Cardinality(outboundMsgs) > MaxInflight \/ writing # <<>>

\* The condition on which publish5 keeps a caller waiting.
Full == Cardinality(outboundMsgs) >= MaxInflight \/ writing # <<>>

NewEntry(m, id) == [msgid |-> id, qos |-> qos[m],
                    next |-> IF qos[m] = 2 THEN "PUBREC" ELSE "PUBACK",
                    msg |-> m]
PublishPacket(m, id) == [type |-> "PUBLISH", id |-> id, qos |-> qos[m], msg |-> m]
Reply(p, t) == [p EXCEPT !.type = t]

\* The bytes a write hands to TCP reach the broker unless the network is gone.
Sent(p) == IF network = "up" THEN Append(toBroker, p) ELSE toBroker

\* A write is refused while an earlier one is incomplete, or by a reset connection.
WriteFails == writing # <<>> \/ network = "reset"

-----------------------------------------------------------------------------
Init ==
    /\ connected = TRUE /\ connect_state = "NOT_IN_PROGRESS" /\ socket = Fd
    /\ outboundMsgs = {} /\ msgID = 0
    /\ writing = <<>> /\ toBroker = <<>> /\ toClient = <<>> /\ network = "up"
    /\ brokerIds = {} /\ received = {}
    /\ pc = [t \in Thread |-> "idle"]
    /\ cur = [t \in Thread |-> NoMsg]
    /\ token = [t \in Thread |-> 0]
    /\ qos \in [Msg -> QoSs]
    /\ result = [m \in Msg |-> "new"]
    /\ running = TRUE /\ tostop = FALSE
    /\ runPc = "select" /\ runSock = 0 /\ runRc = "ok"
    /\ confirmed = {} /\ lost = 0

-----------------------------------------------------------------------------
\* Closing the session: the socket is closed, and because cleansession = 1
\* the message lists are emptied and the id counter starts again.
CloseSession ==
    /\ connected' = FALSE /\ connect_state' = "NOT_IN_PROGRESS" /\ socket' = 0
    /\ outboundMsgs' = {} /\ msgID' = 0
    /\ writing' = <<>> /\ toClient' = <<>>

\* Mutant: the background thread is not told to end.
StopThreadForgotten == UNCHANGED stopVars

\* MQTTClient_stop once no client is connected: tell the background thread to end.
StopThread == tostop' = (tostop \/ running) /\ UNCHANGED running

-----------------------------------------------------------------------------
(* mqtt_publish: MQTTClient_publishMessage, then MQTTClient_waitForCompletion *)

\* The application calls mqtt_publish for a message.
Call(t, m) ==
    /\ pc[t] = "idle" /\ m \in Fresh
    /\ pc' = [pc EXCEPT ![t] = "publishing"]
    /\ cur' = [cur EXCEPT ![t] = m]
    /\ result' = [result EXCEPT ![m] = "called"]
    /\ UNCHANGED <<clientVars, netVars, brokerVars, token, qos,
                   runVars, stopVars, cbVars>>

\* publish5 returns an error and mqtt_publish ends the process.
ExitProcess(t) ==
    /\ pc' = [u \in Thread |-> "exited"] /\ runPc' = "dead"
    /\ result' = [result EXCEPT ![cur[t]] = "refused"]
    /\ UNCHANGED <<cur, token, qos>>

\* Mutant: a caller that is already blocked does not look at the connection again.
PublishRefusedOnce(t) ==
    /\ pc[t] = "publishing" /\ ~connected
    /\ ExitProcess(t)
    /\ UNCHANGED <<clientVars, netVars, brokerVars, runSock, runRc, stopVars, cbVars>>

PublishRefused(t) ==
    /\ pc[t] \in {"publishing", "blocked"} /\ ~connected
    /\ ExitProcess(t)
    /\ UNCHANGED <<clientVars, netVars, brokerVars, runSock, runRc, stopVars, cbVars>>

PublishBlocks(t) ==
    /\ pc[t] = "publishing" /\ connected /\ Full
    /\ pc' = [pc EXCEPT ![t] = "blocked"]
    /\ UNCHANGED <<clientVars, netVars, brokerVars, cur, token, qos, result, runVars, stopVars, cbVars>>

\* Nothing holds the publication back any longer.
CanStart(t) == pc[t] \in {"publishing", "blocked"} /\ connected /\ ~Full

\* The early return for "no id" is left out: IdAlwaysFound says it is never taken.
IdsFor(m) == IF qos[m] > 0 THEN AssignMsgId ELSE {0}

\* At QoS 1 and 2 the message is kept until its exchange completes.
StoreMessage(m, id) ==
    /\ IF qos[m] > 0
       THEN outboundMsgs' = outboundMsgs \cup {NewEntry(m, id)} /\ msgID' = id
       ELSE UNCHANGED <<outboundMsgs, msgID>>
    /\ UNCHANGED <<connected, connect_state, socket>>

\* publishMessage leaves the caller's token alone at QoS 0, and mqtt_publish
\* declares it without a value: it holds whatever was on the stack.
ReturnToken(t, ids) ==
    \E x \in IF qos[cur[t]] > 0 THEN ids ELSE Token :
        token' = [token EXCEPT ![t] = x]

PublishSent(t) ==
    /\ CanStart(t) /\ ~WriteFails
    /\ \E id \in IdsFor(cur[t]) :
        /\ StoreMessage(cur[t], id)
        /\ toBroker' = Sent(PublishPacket(cur[t], id))
        /\ ReturnToken(t, {id})
        /\ pc' = [pc EXCEPT ![t] = "waiting"]
        /\ UNCHANGED <<writing, toClient, network, brokerVars, cur, qos, result, runVars, stopVars, cbVars>>

\* The kernel took only part of the packet: the caller waits for the rest.
PublishInterrupted(t) ==
    /\ CanStart(t) /\ ~WriteFails
    /\ \E id \in IdsFor(cur[t]) :
        /\ StoreMessage(cur[t], id)
        /\ writing' = <<PublishPacket(cur[t], id)>>
        /\ pc' = [pc EXCEPT ![t] = "writing"]
        /\ UNCHANGED <<toBroker, toClient, network, brokerVars, cur, token, qos,
                       result, runVars, stopVars, cbVars>>

\* The write fails: the session closes, and publish5 still returns SUCCESS for
\* qos > 0, with the token of the message it has just dropped.
PublishError(t) ==
    /\ CanStart(t) /\ WriteFails
    /\ \E id \in IdsFor(cur[t]) :
        /\ CloseSession /\ StopThread
        /\ token' = [token EXCEPT ![t] = id]
        /\ pc' = [pc EXCEPT ![t] = "stopping"]
        /\ UNCHANGED <<toBroker, network, brokerVars, cur, qos, result,
                       runVars, cbVars>>

\* The rest of the packet is written, or the connection is gone.  publish5 reads
\* the token from msg, which the background thread has freed if the exchange
\* completed or the session closed in the meantime.
WriteFinished(t) ==
    LET m == cur[t]
        stored == {e.msgid : e \in {f \in outboundMsgs : f.msg = m}}
    IN  /\ pc[t] = "writing" /\ (writing = <<>> \/ ~connected)
        /\ IF qos[m] > 0 \/ connected
           THEN /\ ReturnToken(t, IF stored = {} THEN Token ELSE stored)
                /\ pc' = [pc EXCEPT ![t] = "waiting"]
                /\ UNCHANGED <<cur, qos, result, runPc>>
           ELSE ExitProcess(t)
        /\ UNCHANGED <<clientVars, netVars, brokerVars, runSock, runRc, stopVars, cbVars>>

\* waitForCompletion returns rc and mqtt_publish returns.
ReturnFromWait(t, rc) ==
    /\ pc' = [pc EXCEPT ![t] = "idle"]
    /\ cur' = [cur EXCEPT ![t] = NoMsg]
    /\ token' = [token EXCEPT ![t] = 0]
    /\ result' = [result EXCEPT ![cur[t]] = rc]
    /\ UNCHANGED <<clientVars, netVars, brokerVars, qos, runVars,
                   stopVars, cbVars>>

WaitDisconnected(t) == pc[t] = "waiting" /\ ~connected /\ ReturnFromWait(t, "DISCONNECTED")

\* Mutant: the list is searched before the connection is looked at.
WaitCompletedFirst(t) ==
    /\ pc[t] = "waiting" /\ token[t] \notin IdsInUse
    /\ ReturnFromWait(t, "SUCCESS")

WaitCompleted(t) ==
    /\ pc[t] = "waiting" /\ connected /\ token[t] \notin IdsInUse
    /\ ReturnFromWait(t, "SUCCESS")

WaitTimedOut(t) == pc[t] = "waiting" /\ ReturnFromWait(t, "FAILURE")

-----------------------------------------------------------------------------
(* mqtt_disconnect: MQTTClient_disconnect(client, 10000) *)

DisconnectStart(t) ==
    /\ pc[t] = "idle" /\ connected
    /\ connect_state' = "DISCONNECTING"
    /\ pc' = [pc EXCEPT ![t] = "draining"]
    /\ UNCHANGED <<connected, socket, outboundMsgs, msgID, netVars, brokerVars,
                   cur, token, qos, result, runVars, stopVars, cbVars>>

DisconnectClose(t) ==
    /\ CloseSession /\ StopThread
    /\ pc' = [pc EXCEPT ![t] = "stopping"]
    /\ UNCHANGED <<toBroker, network, brokerVars, cur, token, qos, result, runVars, cbVars>>

DisconnectDrained(t)  == pc[t] = "draining" /\ outboundMsgs = {} /\ DisconnectClose(t)
DisconnectTimedOut(t) == pc[t] = "draining" /\ outboundMsgs # {} /\ DisconnectClose(t)
DisconnectClosed(t)   == pc[t] = "idle" /\ ~connected /\ DisconnectClose(t)

\* MQTTClient_stop returns: the background thread has ended, or somebody else is
\* stopping it, or the caller has slept a hundred times.  A publisher then starts the connectionLost callback and goes on.
StopWaited(t) ==
    /\ pc[t] = "stopping"
    /\ IF cur[t] = NoMsg
       THEN /\ pc' = [pc EXCEPT ![t] = "done"]
            /\ UNCHANGED <<cur, token, qos, result, runPc, lost>>
       ELSE /\ lost' = lost + 1
            /\ IF qos[cur[t]] > 0
               THEN /\ pc' = [pc EXCEPT ![t] = "waiting"]
                    /\ UNCHANGED <<cur, token, qos, result, runPc>>
               ELSE ExitProcess(t)
    /\ UNCHANGED <<clientVars, netVars, brokerVars, runSock, runRc, stopVars, confirmed>>

-----------------------------------------------------------------------------
(* MQTTClient_run *)

Ready == socket = Fd /\ (toClient # <<>> \/ network = "reset") /\ writing = <<>>

\* select, without the mutex: a socket that has something to read, or 0.
RunSelect ==
    /\ runPc = "select"
    /\ runSock' = IF Ready THEN Fd ELSE 0
    /\ runRc' = "error" /\ runPc' = "cycle"
    /\ UNCHANGED <<clientVars, netVars, brokerVars, appVars, stopVars, cbVars>>

\* The socket can take the rest of a partial write, or reports an error.
ContinueWrite ==
    /\ runPc = "select" /\ writing # <<>> /\ network # "silent"
    /\ toBroker' = Sent(Head(writing))
    /\ writing' = <<>>
    /\ UNCHANGED <<clientVars, toClient, network, brokerVars, appVars, runVars,
                   stopVars, cbVars>>

\* disconnect_internal on the background thread, which does not wait for itself.
LoseConnection == CloseSession /\ lost' = lost + 1

\* Mutant: keepalive does not skip a client that is no longer connected.
EndCycleUnconnected(out, tb, wr, tc, rc) ==
    /\ runPc' = "after" /\ runRc' = rc /\ toBroker' = tb
    /\ \/ /\ outboundMsgs' = out /\ writing' = wr /\ toClient' = tc
          /\ UNCHANGED <<connected, connect_state, socket, msgID, stopVars, lost>>
       \/ LoseConnection /\ StopThread
    /\ UNCHANGED <<network, brokerVars, appVars, runSock>>

\* The end of a cycle (MQTTClient_retry): what the packet handler left, or a closed
\* session, when a ping was not answered in time or not written at once.  What the
\* handler wrote is on its way in either case.  Time is left out: keepalive may
\* close the session in any cycle.
EndCycle(out, tb, wr, tc, rc) ==
    /\ runPc' = "after" /\ runRc' = rc /\ toBroker' = tb
    /\ \/ /\ outboundMsgs' = out /\ writing' = wr /\ toClient' = tc
          /\ UNCHANGED <<connected, connect_state, socket, msgID, stopVars, lost>>
       \/ connected /\ LoseConnection /\ StopThread
    /\ UNCHANGED <<network, brokerVars, appVars, runSock>>

\* The cycle's socket has a packet to read.
Reading(type) ==
    /\ runPc = "cycle" /\ runSock = Fd /\ socket = Fd
    /\ toClient # <<>> /\ Head(toClient).type = type

\* Mutant: the comparison by id always succeeds.
EntryOfAny(p) == outboundMsgs

\* The entry an acknowledgement belongs to, if it is in the list.
EntryOf(p) == {e \in outboundMsgs : e.msgid = p.id}

CycleIdle ==
    /\ runPc = "cycle" /\ (runSock = 0 \/ socket = 0)
    /\ EndCycle(outboundMsgs, toBroker, writing, toClient, runRc)
    /\ UNCHANGED confirmed

CycleReadError ==
    /\ runPc = "cycle" /\ runSock = Fd /\ socket = Fd
    /\ toClient = <<>> /\ network = "reset"
    /\ EndCycle(outboundMsgs, toBroker, writing, toClient, "error")
    /\ UNCHANGED confirmed

\* deliveryComplete follows whatever the handler decided.
HandlePuback ==
    LET p == Head(toClient) IN
    /\ Reading("PUBACK")
    /\ EndCycle(outboundMsgs \ {e \in EntryOf(p) : e.qos = 1},
                toBroker, writing, Tail(toClient), "ok")
    /\ confirmed' = confirmed \cup {p.msg}

HandlePubcomp ==
    LET p == Head(toClient) IN
    /\ Reading("PUBCOMP")
    /\ EndCycle(outboundMsgs \ {e \in EntryOf(p) : e.qos = 2 /\ e.next = "PUBCOMP"},
                toBroker, writing, Tail(toClient), "ok")
    /\ confirmed' = confirmed \cup {p.msg}

\* Mutant: a PUBREC completes the exchange, as a PUBACK does.
HandlePubrecLast ==
    LET p == Head(toClient) IN
    /\ Reading("PUBREC")
    /\ EndCycle(outboundMsgs \ {e \in EntryOf(p) : e.qos = 2},
                toBroker, writing, Tail(toClient), "ok")
    /\ UNCHANGED confirmed

\* Mutant: the entry moves on and no PUBREL is sent.
HandlePubrecSilent ==
    LET p == Head(toClient)
        waits == {e \in EntryOf(p) : e.qos = 2 /\ e.next = "PUBREC"}
    IN  /\ Reading("PUBREC")
        /\ EndCycle((outboundMsgs \ waits) \cup {[e EXCEPT !.next = "PUBCOMP"] : e \in waits},
                    toBroker, writing, Tail(toClient), "ok")
        /\ UNCHANGED confirmed

\* The PUBREL is written, left incomplete, or refused; the entry moves on.
HandlePubrec ==
    LET p == Head(toClient)
        waits == {e \in EntryOf(p) : e.qos = 2 /\ e.next = "PUBREC"}
        moved == {IF e \in waits THEN [e EXCEPT !.next = "PUBCOMP"] ELSE e : e \in outboundMsgs}
        pubrel == Reply(p, "PUBREL")
        End(tb, wr, rc) == EndCycle(moved, tb, wr, Tail(toClient), rc)
    IN  /\ Reading("PUBREC")
        /\ \/ waits = {} /\ End(toBroker, writing, "ok")
           \/ waits # {} /\ ~WriteFails /\ End(Sent(pubrel), writing, "ok")
           \/ waits # {} /\ ~WriteFails /\ End(toBroker, <<pubrel>>, "ok")
           \/ waits # {} /\ WriteFails /\ End(toBroker, writing, "error")
        /\ UNCHANGED confirmed

\* The thread ends: its last step before it releases the mutex.
EndThread == running' = FALSE /\ tostop' = FALSE /\ runPc' = "dead"

RunStops ==
    /\ runPc = "after" /\ tostop
    /\ EndThread
    /\ UNCHANGED <<clientVars, netVars, brokerVars, appVars, runSock, runRc, cbVars>>

\* Mutant: the socket of the cycle is not compared with the client's.
RunLosesAnyConnection ==
    /\ runPc = "after" /\ ~tostop
    /\ runRc = "error" /\ connected
    /\ LoseConnection /\ EndThread
    /\ UNCHANGED <<toBroker, network, brokerVars, appVars, runSock, runRc, confirmed>>

\* The cycle failed on the socket of a connected client.
RunLosesConnection ==
    /\ runPc = "after" /\ ~tostop /\ runSock = socket
    /\ runRc = "error" /\ connected
    /\ LoseConnection /\ EndThread
    /\ UNCHANGED <<toBroker, network, brokerVars, appVars, runSock, runRc, confirmed>>

RunGoesOn ==
    /\ runPc = "after" /\ ~tostop
    /\ ~(runSock = socket /\ runRc = "error" /\ connected)
    /\ runPc' = "select"
    /\ UNCHANGED <<clientVars, netVars, brokerVars, appVars, runSock, runRc,
                   stopVars, cbVars>>

-----------------------------------------------------------------------------
(* The broker, the network and the kernel *)

\* Packets of one kind are answered in the order they came; a broker may take
\* longer over one kind than over another.
FirstOfItsKind(i) ==
    \A j \in 1..(i - 1) :
        <<toBroker[j].type, toBroker[j].qos>> # <<toBroker[i].type, toBroker[i].qos>>

\* The broker takes the i-th packet it was sent and answers it.
BrokerTakes(i) ==
    LET p == toBroker[i]
        Answer(type) == toClient' = IF socket = Fd /\ network = "up"
                                    THEN Append(toClient, Reply(p, type))
                                    ELSE toClient
    IN  /\ FirstOfItsKind(i)
        /\ toBroker' = SubSeq(toBroker, 1, i - 1) \o SubSeq(toBroker, i + 1, Len(toBroker))
        /\ \/ /\ p.type = "PUBLISH" /\ p.qos = 0
              /\ received' = received \cup {p.msg}
              /\ UNCHANGED <<toClient, brokerIds>>
           \/ /\ p.type = "PUBLISH" /\ p.qos = 1
              /\ received' = received \cup {p.msg}
              /\ Answer("PUBACK") /\ UNCHANGED brokerIds
           \/ /\ p.type = "PUBLISH" /\ p.qos = 2
              /\ received' = IF p.id \in brokerIds THEN received
                             ELSE received \cup {p.msg}
              /\ brokerIds' = brokerIds \cup {p.id}
              /\ Answer("PUBREC")
           \/ /\ p.type = "PUBREL"
              /\ brokerIds' = brokerIds \ {p.id}
              /\ Answer("PUBCOMP") /\ UNCHANGED received
        /\ UNCHANGED <<clientVars, writing, network, appVars, runVars, stopVars,
                       cbVars>>

BrokerStep == \E i \in 1..Len(toBroker) : BrokerTakes(i)

\* The peer resets the connection, or stops answering.
NetworkFails ==
    /\ network = "up"
    /\ \/ network' = "reset" /\ toClient' = <<>>
       \/ network' = "silent" /\ UNCHANGED toClient
    /\ toBroker' = <<>>
    /\ UNCHANGED <<clientVars, writing, brokerVars, appVars, runVars, stopVars,
                   cbVars>>

\* TCP gives up retransmitting to a silent peer.
TcpGivesUp ==
    /\ network = "silent" /\ network' = "reset"
    /\ UNCHANGED <<clientVars, writing, toBroker, toClient, brokerVars, appVars,
                   runVars, stopVars, cbVars>>

-----------------------------------------------------------------------------
\* What a thread does once it has called; calling is up to the application.
Proceed(t) ==
    \/ PublishRefused(t) \/ PublishBlocks(t)
    \/ PublishSent(t) \/ PublishInterrupted(t) \/ PublishError(t)
    \/ WriteFinished(t)
    \/ WaitDisconnected(t) \/ WaitCompleted(t) \/ WaitTimedOut(t)
    \/ DisconnectDrained(t) \/ DisconnectTimedOut(t)
    \/ StopWaited(t)

AppStep(t) ==
    \/ \E m \in Msg : Call(t, m)
    \/ DisconnectStart(t) \/ DisconnectClosed(t)
    \/ Proceed(t)

RunStep ==
    \/ RunSelect \/ ContinueWrite
    \/ CycleIdle \/ CycleReadError
    \/ HandlePuback \/ HandlePubrec \/ HandlePubcomp
    \/ RunStops \/ RunLosesConnection \/ RunGoesOn

\* Every thread has disconnected, or the process has ended.
Terminated ==
    /\ runPc = "dead" /\ \A t \in Thread : pc[t] \in {"done", "exited"}
    /\ UNCHANGED vars

Next ==
    \/ \E t \in Thread : AppStep(t)
    \/ RunStep
    \/ BrokerStep \/ NetworkFails \/ TcpGivesUp
    \/ Terminated

Spec == Init /\ [][Next]_vars

\* Scheduling: threads run, the broker answers, TCP gives up on a dead peer, and
\* a socket that is written to infinitely often takes the bytes.
Fairness ==
    /\ \A t \in Thread : WF_vars(Proceed(t))
    /\ WF_vars(RunStep)
    /\ SF_vars(ContinueWrite)
    /\ WF_vars(BrokerStep)
    /\ WF_vars(TcpGivesUp)

FairSpec == Spec /\ Fairness

-----------------------------------------------------------------------------
(* Properties *)

ClientTypeOK ==
    /\ connected \in BOOLEAN /\ connect_state \in {"NOT_IN_PROGRESS", "DISCONNECTING"}
    /\ socket \in {0, Fd} /\ outboundMsgs \subseteq Message /\ msgID \in Token
NetTypeOK ==
    /\ writing \in Seq(Packet) /\ Len(writing) <= 1
    /\ toBroker \in Seq(Packet) /\ toClient \in Seq(Packet)
    /\ network \in {"up", "silent", "reset"}
    /\ brokerIds \subseteq Token /\ received \subseteq Msg
AppTypeOK ==
    /\ pc \in [Thread -> Pc] /\ cur \in [Thread -> Msg \cup {NoMsg}]
    /\ token \in [Thread -> Token] /\ qos \in [Msg -> 0..2]
    /\ result \in [Msg -> {"new", "called", "refused", "SUCCESS", "DISCONNECTED", "FAILURE"}]
RunTypeOK ==
    /\ running \in BOOLEAN /\ tostop \in BOOLEAN
    /\ runPc \in {"select", "cycle", "after", "dead"}
    /\ runSock \in {0, Fd} /\ runRc \in {"ok", "error"}
    /\ confirmed \subseteq Msg /\ lost \in Nat
CallTypeOK ==
    \A t \in Thread :
        pc[t] \in {"publishing", "blocked", "writing", "waiting"} => cur[t] \in Msg

\* Every variable holds a value of its type, at most one write is incomplete, and
\* a thread inside mqtt_publish has a message.
TypeOK == ClientTypeOK /\ NetTypeOK /\ AppTypeOK /\ RunTypeOK /\ CallTypeOK

\* Publishers that blocked and woke up together never start more exchanges than
\* maxInflightMessages allows (publish5 tests the count again under the mutex).
InflightBound == Cardinality(outboundMsgs) <= MaxInflight

\* Two stored messages never share an id, whatever ids wrapped around or were
\* freed in between: acknowledgements and tokens are resolved by id alone.
UniqueIds == \A e, f \in outboundMsgs : e.msgid = f.msgid => e = f

\* "this should never happen as we've waited for spaces in the queue": whoever
\* may start a publication finds an id, however the ids in use are spread.
IdAlwaysFound == ~Full => FreeIds # {}

\* The search by steps finds the id that the definition by distance names, at every position
\* of the counter, also before the first id has been assigned (MQTTProtocol_assignMsgId).
SearchAgrees == ~Full => AssignMsgId = {Search[NextId(msgID)]}

\* While the network works, each stored message has exactly one packet of its
\* exchange under way, of the kind its next acknowledgement calls for: no
\* exchange is stuck and none is acknowledged twice.
ExchangeUnderWay ==
    LET Of(e, q) == {i \in 1..Len(q) : q[i].msg = e.msg /\ q[i].id = e.msgid}
        Expected(e) == IF e.next = "PUBCOMP" THEN {"PUBREL", "PUBCOMP"} ELSE {"PUBLISH", e.next}
        path == writing \o toBroker \o toClient
    IN  connected /\ network = "up" =>
            \A e \in outboundMsgs :
                \E i \in 1..Len(path) : Of(e, path) = {i} /\ path[i].type \in Expected(e)

\* waitForCompletion returns SUCCESS for a QoS 1 or 2 message only after the
\* broker has it and deliveryComplete was called for it; deliveryComplete itself
\* is never called for a message the broker does not have.
SuccessIsHonest ==
    /\ confirmed \subseteq received
    /\ \A m \in Msg : result[m] = "SUCCESS" /\ qos[m] > 0 => m \in confirmed

\* Errors close the session only when the network failed: while it works, nothing
\* but keepalive (at the end of a cycle) and mqtt_disconnect gives it up, although
\* a cycle acts on a socket that was selected before the mutex was taken.
HealthyStaysUp ==
    [][connected /\ ~connected' /\ network = "up" =>
          \/ runPc = "cycle" /\ runPc' = "after"
          \/ \E t \in Thread : pc[t] = "draining" /\ pc'[t] = "stopping"]_vars

\* connectionLost is called at most once however many threads see the fault.
LostOnce == lost <= 1

\* A stored message leaves the list only because it was confirmed or because the
\* whole session closed.
NoSilentDrop ==
    [][\A e \in outboundMsgs :
          \/ e.msg \in {f.msg : f \in outboundMsgs'}
          \/ e.msg \in confirmed'
          \/ ~connected']_vars

\* Every call returns, or the process ends: no caller is left blocked on a full
\* window, on an incomplete write or on a thread that was told to stop.
CallsReturn ==
    LET Returned == {"idle", "done", "exited"}
    IN  \A t \in Thread : pc[t] \notin Returned ~> pc[t] \in Returned

\* A stored message is confirmed unless the connection is lost or closed.
StoredIsConfirmed ==
    \A m \in Msg : m \in {e.msg : e \in outboundMsgs} ~> (m \in confirmed \/ ~connected \/ Exited)

\* Once the session is closed the background thread ends.
ThreadEnds == ~connected ~> (~running \/ Exited)

\* What MQTTClient.h says of the token of a QoS 1 or 2 publish: it represents the
\* message that was accepted.  (Checked to fail: publish5 reads it from a message
\* that its acknowledgement may have freed, and waits for somebody else's.)
TokenIsOwn ==
    \A t \in Thread : \A e \in outboundMsgs :
        pc[t] = "waiting" /\ qos[cur[t]] > 0 /\ e.msgid = token[t] => e.msg = cur[t]

\* "Return success for qos > 0 as the send will be retried automatically": a publisher
\* whose own write failed, and which is about to return SUCCESS once the thread has
\* ended, leaves its message stored for the retry.  (Checked to fail: closing the
\* session has emptied the list.)
FailedSendIsKept ==
    \A t \in Thread :
        pc[t] = "stopping" /\ cur[t] # NoMsg /\ qos[cur[t]] > 0 =>
            cur[t] \in confirmed \cup {e.msg : e \in outboundMsgs}

\* mqtt_publish waits for the publication of its own message, or not at all.
\* (Checked to fail: at QoS 0 it waits for an uninitialised token.)
Qos0DoesNotWait ==
    \A t \in Thread : pc[t] = "waiting" /\ qos[cur[t]] = 0 => token[t] \notin IdsInUse

-----------------------------------------------------------------------------
\* The session keeps the promise made to callers that publish at QoS 1 or 2.
phaseBar ==
    [m \in Msg |-> IF qos[m] = 0 \/ result[m] = "new" THEN "new"
                   ELSE IF m \in confirmed THEN "confirmed"
                   ELSE IF m \in received THEN "received" ELSE "accepted"]
outcomeBar ==
    [m \in Msg |-> IF qos[m] = 0 \/ result[m] \in {"new", "called"} THEN "none"
                   ELSE result[m]]

Promise == INSTANCE DeliveryPromise
               WITH phase <- phaseBar, outcome <- outcomeBar, up <- connected

\* The publisher's view of a connection: see DeliveryPromise.
KeepsPromise == Promise!Spec
=============================================================================
