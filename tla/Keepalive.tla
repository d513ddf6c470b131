------------------------------ MODULE Keepalive -----------------------------
(***************************************************************************)
(* The keep-alive of one MQTT connection over the byte streams of          *)
(* PacketStream: when the library sends a PINGREQ, and when it gives up a  *)
(* broker that says nothing.                                               *)
(*                                                                         *)
(* The background thread waits in select for work, at most one second,     *)
(* reads at most one packet with mqttclient_mutex held and then looks at   *)
(* the clock (MQTTClient_retry).  Application threads publish and          *)
(* disconnect while the mutex is free.  Connecting is one step here, and   *)
(* the thread outlives the connection.                                     *)
(*                                                                         *)
(* A unit of time is the second the thread waits.  A time stamp is modelled*)
(* by its age, counted while the connection lasts and up to one more than  *)
(* the bounds below: the code only asks whether it has reached an interval.*)
(***************************************************************************)
EXTENDS PacketStream

CONSTANTS
    KeepAliveInterval,  \* keepAliveInterval, in seconds
    RetryLoopInterval,  \* retryLoopInterval, in seconds
    PINGREQ, PINGRESP,  \* the header bytes of these packets
    OutPackets,         \* what the application publishes, as lists of buffers
    InPackets           \* what the broker sends unasked

ASSUME KeepaliveAssumption ==
    KeepAliveInterval \in Nat \ {0} /\ RetryLoopInterval \in Nat

ASSUME PacketAssumption ==
    /\ {PINGREQ, PINGRESP} \subseteq Byte
    /\ OutPackets \subseteq Seq(Seq(Byte)) /\ InPackets \subseteq Packet

\* A PINGREQ is known by its first byte, so nothing else that is written holds this byte;
\* and the broker sends a PINGRESP only as an answer.
ASSUME PingAssumption ==
    /\ PINGREQ # 0 /\ \A bufs \in OutPackets : PINGREQ \notin Range(FlattenSeq(bufs))
    /\ \A p \in InPackets : p.type # PINGRESP

VARIABLES
    connected, ping_outstanding,
    lastSent, lastReceived, lastPing,  \* ages; lastPing only while a ping is outstanding
    last,                              \* age of MQTTClient_retry's last look at the clients
    looked,                            \* the thread has been through a cycle in this second
    peerAlive,                         \* the broker reads and answers
    pinged,                            \* PINGREQs it has read on this connection and not answered
    blocked    \* history: a write was incomplete since the last packet was received

ages == <<lastSent, lastReceived, lastPing, last>>
vars == <<streamVars, connected, ping_outstanding, ages, looked, peerAlive, pinged, blocked>>

-----------------------------------------------------------------------------
\* An interval may have passed when the clock is next looked at.
Span == KeepAliveInterval + RetryLoopInterval

MutexFree == at \in {"select", "ready", "after"}
PingReq   == << <<PINGREQ, 0>>, <<>> >>
PingResp  == [type |-> PINGRESP, data |-> <<>>]

\* Mutant: the ping state outlives the connection.
CloseSessionKeepsPing ==
    /\ connected' = FALSE /\ UNCHANGED ping_outstanding
    /\ CloseSocket
    /\ lastSent' = 0 /\ lastReceived' = 0 /\ lastPing' = 0

\* disconnect_internal down to Socket_close.  The DISCONNECT packet it writes goes with
\* the connection.
CloseSession ==
    /\ connected' = FALSE /\ ping_outstanding' = 0
    /\ CloseSocket
    /\ lastSent' = 0 /\ lastReceived' = 0 /\ lastPing' = 0

-----------------------------------------------------------------------------
\* The application.
Connect ==
    /\ at = "select" /\ ~connected
    /\ connected' = TRUE
    /\ lastSent' = 0 /\ lastReceived' = 0
    /\ peerAlive' = TRUE /\ pinged' = 0
    /\ UNCHANGED <<streamVars, ping_outstanding, lastPing, last, looked>>

\* publish5 waits until no write is pending; what it cannot write costs the session.
Publish(bufs) ==
    /\ MutexFree /\ connected /\ noPendingWrites
    /\ \/ /\ Putdatas(bufs, TRUE)
          /\ lastSent' = 0
          /\ UNCHANGED <<readVars, peerVars, broken, connected, ping_outstanding,
                         lastReceived, lastPing, last>>
       \/ /\ Putdatas(bufs, FALSE)
          /\ UNCHANGED <<readVars, peerVars, broken, connected, ping_outstanding, ages>>
       \/ broken /\ CloseSession /\ UNCHANGED <<factory, last>>
    /\ UNCHANGED <<at, looked, peerAlive, pinged>>

Disconnect ==
    /\ MutexFree /\ connected
    /\ CloseSession
    /\ UNCHANGED <<at, factory, last, looked, peerAlive, pinged>>

-----------------------------------------------------------------------------
\* The background thread: MQTTClient_cycle and the end of the loop of MQTTClient_run.
Work == Ready \/ (~noPendingWrites /\ Writable)

\* Mutant: the end of a continued write does not count as a packet sent.
SelectNoStamp ==
    /\ at = "select" /\ (Work \/ ~looked)
    /\ IF noPendingWrites \/ ~Writable THEN UNCHANGED writeVars
       ELSE \E done \in BOOLEAN : ContinueWrite(done)
    /\ factory' = NoFactory
    /\ UNCHANGED <<queue, peerVars, broken, connected, ping_outstanding, ages, looked, peerAlive, pinged>>
    /\ at' = IF Ready' THEN "ready" ELSE "retry"

\* Socket_getReadySocket; a continued write that ends, also by an error, reaches
\* MQTTClient_writeComplete.
Select ==
    /\ at = "select" /\ (Work \/ ~looked)
    /\ \/ (noPendingWrites \/ ~Writable) /\ UNCHANGED <<writeVars, lastSent>>
       \/ ContinueWrite(TRUE)  /\ lastSent' = 0
       \/ ContinueWrite(FALSE) /\ UNCHANGED lastSent
    /\ factory' = NoFactory
    /\ UNCHANGED <<queue, peerVars, broken, connected, ping_outstanding,
                   lastReceived, lastPing, last, looked, peerAlive, pinged>>
    /\ at' = IF Ready' THEN "ready" ELSE "retry"

\* With the mutex the thread finds that the connection is gone.
Gone ==
    /\ at = "ready" /\ ~connected
    /\ at' = "retry"
    /\ UNCHANGED <<readVars, writeVars, peerVars, broken, connected, ping_outstanding, ages,
                   looked, peerAlive, pinged>>

\* MQTTPacket_Factory, which notes the time of every packet it returns.
Factory ==
    /\ connected
    /\ ReadHeader \/ ReadLength \/ ReadData
    /\ lastReceived' = IF at' = "handle" THEN 0 ELSE lastReceived
    /\ UNCHANGED <<writeVars, onTheWay, expected, broken, connected, ping_outstanding,
                   lastSent, lastPing, last, looked, peerAlive, pinged>>

\* handlePingresps; what other packets do is the business of MqttSession and MqttInbound.
Handle ==
    /\ at = "handle"
    /\ ping_outstanding' = IF factory.pack.type = PINGRESP THEN 0 ELSE ping_outstanding
    /\ expected' = Tail(expected)
    /\ at' = "retry"
    /\ UNCHANGED <<readVars, writeVars, onTheWay, arriving, broken, connected, ages, looked,
                   peerAlive, pinged>>

Idle == UNCHANGED <<writeVars, queue, peerVars, broken, connected, ping_outstanding,
                    lastSent, lastReceived, lastPing>>

\* Mutant: only what was sent counts, and a broker that is silent to QoS 0 is not asked.
keepaliveSentOnly ==
    LET expired(age) == age >= KeepAliveInterval IN
    IF ~connected THEN Idle
    ELSE IF ping_outstanding = 1
    THEN IF expired(lastPing) THEN CloseSession ELSE Idle
    ELSE IF ~expired(lastSent) \/ ~noPendingWrites THEN Idle
    ELSE \/ /\ Putdatas(PingReq, TRUE)
            /\ ping_outstanding' = 1 /\ lastSent' = 0 /\ lastPing' = 0
            /\ UNCHANGED <<queue, peerVars, broken, connected, lastReceived>>
         \/ /\ broken \/ Fits(FlattenSeq(PingReq)) < 2
            /\ CloseSession

\* Mutant: a PINGREQ waits for its answer for ever.
keepalivePatient ==
    LET expired(age) == age >= KeepAliveInterval IN
    IF ~connected \/ ping_outstanding = 1 \/ ~noPendingWrites
         \/ ~(expired(lastSent) \/ expired(lastReceived))
    THEN Idle
    ELSE \/ /\ Putdatas(PingReq, TRUE)
            /\ ping_outstanding' = 1 /\ lastSent' = 0 /\ lastPing' = 0
            /\ UNCHANGED <<queue, peerVars, broken, connected, lastReceived>>
         \/ /\ broken \/ Fits(FlattenSeq(PingReq)) < 2
            /\ CloseSession

\* MQTTProtocol_keepalive: an old PINGREQ without its answer ends the session; silence
\* in a direction calls for a PINGREQ, which must be written at once, unless a write is
\* incomplete.
keepalive ==
    LET expired(age) == age >= KeepAliveInterval IN
    IF ~connected THEN Idle
    ELSE IF ping_outstanding = 1
    THEN IF expired(lastPing) THEN CloseSession ELSE Idle
    ELSE IF ~(expired(lastSent) \/ expired(lastReceived)) \/ ~noPendingWrites THEN Idle
    ELSE \/ /\ Putdatas(PingReq, TRUE)
            /\ ping_outstanding' = 1 /\ lastSent' = 0 /\ lastPing' = 0
            /\ UNCHANGED <<queue, peerVars, broken, connected, lastReceived>>
         \/ /\ broken \/ Fits(FlattenSeq(PingReq)) < 2
            /\ CloseSession

\* MQTTClient_retry, the end of a cycle.
Retry ==
    /\ at = "retry"
    /\ IF last > RetryLoopInterval THEN keepalive /\ last' = 0 ELSE Idle /\ UNCHANGED last
    /\ at' = IF factory.rc = "error" THEN "after" ELSE "select"
    /\ looked' = TRUE
    /\ UNCHANGED <<factory, peerAlive, pinged>>

\* The thread takes the mutex again and closes a session whose read failed.
After ==
    /\ at = "after" /\ at' = "select"
    /\ IF connected THEN CloseSession
       ELSE UNCHANGED <<queue, writeVars, peerVars, broken, connected, ping_outstanding,
                      lastSent, lastReceived, lastPing>>
    /\ UNCHANGED <<factory, last, looked, peerAlive, pinged>>

Thread == Select \/ Gone \/ Factory \/ Handle \/ Retry \/ After

-----------------------------------------------------------------------------
\* A second in which select finds nothing to do.
Tick ==
    LET older(age, cap) == IF connected THEN Min2(age + 1, cap) ELSE 0 IN
    /\ at = "select" /\ looked /\ ~Work
    /\ looked' = FALSE
    /\ lastSent' = older(lastSent, Span + 1)
    /\ lastReceived' = older(lastReceived, 2 * Span + 1)
    /\ last' = Min2(last + 1, RetryLoopInterval + 1)
    /\ lastPing' = IF ping_outstanding = 1 THEN older(lastPing, Span + 1) ELSE 0
    /\ UNCHANGED <<streamVars, connected, ping_outstanding, peerAlive, pinged>>

\* The broker: it reads, answers the PINGREQs it has read, sends one packet of its own at a
\* time, or falls silent.
Broker ==
    /\ connected
    /\ \/ /\ peerAlive /\ PeerReads /\ UNCHANGED peerAlive
          /\ pinged' = IF Head(sent) = PINGREQ THEN pinged + 1 ELSE pinged
       \/ /\ peerAlive /\ PeerSends(PingResp) /\ UNCHANGED peerAlive
          /\ sent = <<>> /\ pinged > 0 /\ pinged' = pinged - 1
       \/ /\ peerAlive /\ \E p \in InPackets : PeerSends(p) /\ UNCHANGED peerAlive
          /\ expected = <<>> /\ UNCHANGED pinged
       \/ Arrive /\ UNCHANGED <<peerAlive, pinged>>
       \/ Break /\ peerAlive' = FALSE /\ UNCHANGED pinged
       \/ peerAlive /\ peerAlive' = FALSE /\ UNCHANGED <<streamVars, pinged>>
    /\ UNCHANGED <<connected, ping_outstanding, ages, looked>>

-----------------------------------------------------------------------------
Init ==
    /\ StreamInit
    /\ connected = FALSE /\ ping_outstanding = 0
    /\ lastSent = 0 /\ lastReceived = 0 /\ lastPing = 0 /\ last = RetryLoopInterval + 1
    /\ looked = FALSE /\ peerAlive = TRUE /\ pinged = 0 /\ blocked = FALSE

\* The history variable is set by any incomplete write and cleared by a packet received.
Note ==
    LET received == (at = "data" /\ at' = "handle") \/ (connected' /\ ~connected)
    IN  blocked' = (~noPendingWrites' \/ (blocked /\ ~received))

Step == \/ Connect \/ Disconnect \/ \E bufs \in OutPackets : Publish(bufs)
        \/ Thread \/ Tick \/ Broker

Next == Step /\ Note

Spec == Init /\ [][Next]_vars

\* The thread is scheduled, and time goes by.
FairSpec == Spec /\ WF_vars(Thread /\ Note) /\ WF_vars(Tick /\ Note)

-----------------------------------------------------------------------------
TypeOK ==
    /\ StreamTypeOK
    /\ connected \in BOOLEAN /\ ping_outstanding \in {0, 1}
    /\ {lastSent, lastPing} \subseteq 0..Span + 1 /\ lastReceived \in 0..2 * Span + 1
    /\ last \in 0..RetryLoopInterval + 1
    /\ looked \in BOOLEAN /\ peerAlive \in BOOLEAN /\ pinged \in Nat /\ blocked \in BOOLEAN

\* What the library has been given to write and the broker has not read is exactly what
\* the kernel holds and then the rest of the incomplete packet: no byte is lost, repeated
\* or put between the bytes of another packet (Socket_putdatas, Socket_continueWrite).
\* A connection that has failed may have cut the last packet short.
WriteFramed ==
    IF broken THEN IsPrefix(sent, owed)
    ELSE owed = sent \o From(FlattenSeq(pending.bufs), pending.bytes + 1)

\* The bytes of the packets the broker sent are the bytes the reader keeps, then those
\* that have arrived, then those on their way, and a packet handed on is the next one:
\* reads that stop in the middle of a header or of the data lose nothing (SocketBuffer).
ReadFramed ==
    /\ at = "handle" => expected # <<>> /\ factory.pack = Head(expected)
    /\ FlattenSeq([i \in DOMAIN expected |-> Wire(expected[i])]) =
         (IF at = "handle" THEN Wire(factory.pack) ELSE queue.header \o queue.data)
           \o arriving \o onTheWay

\* While no write is incomplete and no PINGREQ waits for its answer, the client is never
\* silent longer than the interval and the time between two looks at the clock.
GapBound ==
    connected /\ noPendingWrites /\ ping_outstanding = 0 =>
        lastSent <= Span

\* Unless a write was incomplete meanwhile, a connection on which nothing has been
\* received for two such spans has been closed (MQTTProtocol_keepalive).
SilenceBound ==
    connected /\ ~blocked =>
        lastReceived <= 2 * Span

\* ping_outstanding is 1 exactly while a PINGREQ of this very connection has no answer yet: it
\* is on its way, or the broker has it, or its PINGRESP is to be handled.  A ping of an earlier
\* connection is never counted against this one, and no unanswered one is forgotten.
OnePing ==
    connected =>
        Cardinality({i \in DOMAIN owed : owed[i] = PINGREQ}) + pinged
          + Cardinality({i \in DOMAIN expected : expected[i] = PingResp}) = ping_outstanding

\* A broker that has fallen silent loses the connection, or a write stays incomplete.
SilentPeerClosed == (connected /\ ~peerAlive) ~> (~connected \/ ~noPendingWrites)

\* An incomplete write ends if the broker keeps reading (Socket_continueWrites).
WriteEnds == []<>(sent = <<>>) => (~noPendingWrites ~> noPendingWrites)

\* MQTTClient.h: the keep alive interval lets the client detect that the server is no
\* longer available without the long TCP/IP timeout.
DeadPeerDetected == (connected /\ ~peerAlive) ~> ~connected
=============================================================================
