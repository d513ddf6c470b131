----------------------------- MODULE MqttService ----------------------------
(***************************************************************************)
(* Connections of the MQTT service: opening, subscribing, unsubscribing    *)
(* and disconnecting, and the background thread that all of them share.    *)
(*                                                                         *)
(* A caller that expects a CONNACK, SUBACK or UNSUBACK waits on a          *)
(* semaphore of its handle and then reads m->pack, which the background    *)
(* thread has set.  The thread is started by the first connect and told    *)
(* to end by whoever closes the last session; connect, keepalive, read     *)
(* errors and MQTTClient_destroy all depend on it.                         *)
(*                                                                         *)
(* An action is what happens while mqttclient_mutex is held, or one look   *)
(* at shared data without it.  Deliveries are the business of MqttSession  *)
(* and MqttInbound: here a PUBLISH only keeps the thread in a callback.    *)
(***************************************************************************)
EXTENDS Naturals, Sequences, FiniteSets

CONSTANTS
    Threads,    \* application threads
    Owner,      \* the one that opens and disconnects
    MaxOpen,    \* how often mqtt_open_connection is called
    MaxAsks,    \* how many message ids each of these sessions assigns
    Backlog     \* how many packets of the broker wait to be read

ASSUME ServiceAssumption ==
    /\ Owner \in Threads /\ {MaxOpen, Backlog} \subseteq Nat
    /\ MaxAsks \in [1..MaxOpen -> Nat]

VARIABLES
    client,         \* the global handle of mqtt.c; 0 is NULL
    c,              \* the handles, with the Clients record of each
    net,            \* the connection of a handle and what the broker has sent on it
    running, tostop,
    run,            \* the background thread: where it is, and the locals of its loop
    calls,          \* the call each application thread is in
    mutex,          \* the thread that keeps mqttclient_mutex from one action to the next
    terminated,     \* MQTTClient_terminate has freed the library's lists
    undefined,      \* freed memory was used: nothing more is said
    stray,          \* history: a subscribe and an unsubscribe overlapped, one failed with its
                    \* packet half written, or a caller that polls has read an acknowledgement
    late,           \* history: a packet came between the last trywait and the timeout
    raced,          \* history: a connect that went on overlapped the end of the thread
    gaveUp          \* history: MQTTClient_stop waited in vain

library == <<running, tostop, terminated, undefined>>
history == <<stray, late, raced, gaveUp>>
vars == <<client, c, net, run, calls, mutex, library, history>>

-----------------------------------------------------------------------------
Handle == 1..MaxOpen
Fd     == 0..MaxOpen       \* 0 is no socket
Acks   == {"SUBACK", "UNSUBACK"}
None   == [type |-> "none", id |-> 0, ok |-> TRUE]
Packet == [type : Acks \cup {"CONNACK", "PUBLISH"}, id : Nat, ok : BOOLEAN]
Of(type) == [None EXCEPT !.type = type]
Unlocked == mutex = {}

NoNet   == [tcp |-> "none", in |-> <<>>, asked |-> {}, accepted |-> FALSE]
NoCall  == [pc |-> "idle", h |-> 0, version |-> 4, expired |-> FALSE, for |-> None,
            got |-> None, rc |-> "ok", next |-> "idle"]
Fresh   == [life |-> "live", connected |-> FALSE, state |-> "none", fd |-> 0, msgID |-> 0,
            queue |-> FALSE, pack |-> None, sems |-> {}, rc |-> "ok"]
RunLoop == [pc |-> "select", sock |-> 0, rc |-> "error", pack |-> None, h |-> 0]
NoRun   == [RunLoop EXCEPT !.pc = "none"]

Live == {h \in Handle : c[h].life = "live"}

\* ListFindItem(handles, &sock, clientSockCompare).
Found(sock, h) == h \in Live /\ c[h].fd = sock /\ sock # 0

\* A descriptor is used again as soon as it is closed.
NewFd == CHOOSE f \in Fd \ {0} :
            /\ \A h \in Live : c[h].fd # f
            /\ \A g \in Fd \ {0} : (\A h \in Live : c[h].fd # g) => f <= g

\* Socket_getReadySocket finds something to read, or a connect that has ended.
ReadyHandle(h) ==
    /\ h \in Live /\ c[h].fd # 0
    /\ net[h].tcp = "failed" \/ net[h].in # <<>> \/ (c[h].state = "tcp" /\ net[h].tcp = "up")

\* MQTTClient_closeSession, with cleansession = 1.
Closed(m) == [m EXCEPT !.connected = FALSE, !.state = "none", !.fd = 0, !.msgID = 0,
                       !.queue = FALSE]
CloseSession(h) == c' = [c EXCEPT ![h] = Closed(@)] /\ net' = [net EXCEPT ![h] = NoNet]

-----------------------------------------------------------------------------
\* MQTTClient_stop: the session closed was the last one.
InUse(m) == m.life = "live" /\ (m.state # "none" \/ m.connected)
Last(runs, cs) == runs /\ ~tostop /\ \A h \in Handle : ~InUse(cs[h])

\* Mutant: the thread is told to end and not waited for.
StopNoWait(t, next) ==
    /\ tostop' = (tostop \/ Last(running', c'))
    /\ calls' = [calls EXCEPT ![t] = IF next = "idle" THEN NoCall ELSE [@ EXCEPT !.pc = next]]

\* An application thread waits for the background thread before it goes on.
Stop(t, next) ==
    /\ tostop' = (tostop \/ Last(running', c'))
    /\ calls' = [calls EXCEPT ![t] = IF Last(running', c') THEN [@ EXCEPT !.pc = "stopping", !.next = next]
                                     ELSE IF next = "idle" THEN NoCall
                                     ELSE [@ EXCEPT !.pc = next]]

\* The background thread does not wait for itself.
StopSelf == tostop' = (tostop \/ Last(running, c'))

\* The thread has ended, or the wait has taken its ten seconds, which only a callback can
\* outlast.
StopWaited(t) ==
    /\ Unlocked /\ calls[t].pc = "stopping"
    /\ running => run.pc = "callback"
    /\ calls' = [calls EXCEPT ![t] = IF @.next = "idle" THEN NoCall ELSE [@ EXCEPT !.pc = calls[t].next]]
    /\ gaveUp' = (gaveUp \/ running)
    /\ UNCHANGED <<client, c, net, run, mutex, library, stray, late>>

-----------------------------------------------------------------------------
\* One thread of the application opens and disconnects, not during another call, and does
\* not open a connection beside one it has.
Quiet == \A t \in Threads : calls[t].pc = "idle"

\* MQTTClient_create and MQTTClient_setCallbacks.  A handle left behind is out of the
\* application's reach, and what it holds is forgotten.
Open(t) ==
    /\ t = Owner /\ Unlocked /\ Quiet /\ \A h \in Handle : ~InUse(c[h])
    /\ \E h \in Handle :
         /\ c[h].life = "none" /\ \A g \in Handle : g < h => c[g].life # "none"
         /\ c' = [g \in Handle |-> IF g = h THEN Fresh
                                  ELSE [c[g] EXCEPT !.pack = None, !.sems = {}, !.rc = "ok"]]
         /\ client' = h
         /\ calls' = [calls EXCEPT ![t] = [NoCall EXCEPT !.pc = "attempt", !.h = h]]
    /\ terminated' = FALSE /\ stray' = FALSE /\ late' = FALSE
    /\ UNCHANGED <<net, run, mutex, running, tostop, undefined, gaveUp>>

\* Mutant: the thread is started once only.
StartThreadOnce ==
    IF running \/ MaxOpen \in Live THEN UNCHANGED <<run, running>>
    ELSE run' = RunLoop /\ running' = TRUE

\* MQTTClient_connectURIVersion up to its first wait.  The thread that is started counts as
\* running, since connect sleeps a moment before it goes on.
StartThread ==
    IF running THEN UNCHANGED <<run, running>> ELSE run' = RunLoop /\ running' = TRUE

\* A connection that has not come about is closed; left is what is left in m->pack.
CloseAttempt(h, left) ==
    /\ c' = [c EXCEPT ![h] = [Closed(@) EXCEPT !.pack = left]]
    /\ net' = [net EXCEPT ![h] = NoNet]

\* Mutant: a connect that fails leaves the thread alone.
FailThenNoStop(t, left) ==
    /\ CloseAttempt(calls[t].h, left) /\ UNCHANGED tostop
    /\ IF calls[t].version = 4
       THEN /\ mutex' = {t}
            /\ calls' = [calls EXCEPT ![t] =
                           [NoCall EXCEPT !.pc = "attempt", !.h = calls[t].h, !.version = 3,
                                          !.expired = calls[t].expired]]
       ELSE mutex' = {} /\ calls' = [calls EXCEPT ![t] = NoCall]

\* A failed attempt closes its socket; the second one, with MQTT 3.1, follows the first
\* while the mutex is still held.  Only its failure stops the thread.
FailThen(t, left) ==
    /\ CloseAttempt(calls[t].h, left)
    /\ IF calls[t].version = 4
       THEN /\ mutex' = {t} /\ UNCHANGED tostop
            /\ calls' = [calls EXCEPT ![t] =
                           [NoCall EXCEPT !.pc = "attempt", !.h = calls[t].h, !.version = 3,
                                          !.expired = calls[t].expired]]
       ELSE mutex' = {} /\ Stop(t, "idle")

Attempting(t) == mutex \subseteq {t} /\ calls[t].pc = "attempt"

\* No address, no descriptor, or no time left.  Without time connect does not wait for a
\* thread it has started, which MQTTClient_stop may not yet see.
AttemptFails(t) ==
    /\ Attempting(t) /\ StartThread
    /\ \/ FailThen(t, c[calls[t].h].pack)
       \/ /\ calls[t].expired /\ ~running
          /\ CloseSession(calls[t].h)
          /\ mutex' = {} /\ calls' = [calls EXCEPT ![t] = NoCall] /\ UNCHANGED tostop
    /\ UNCHANGED <<client, terminated, undefined, stray, late, gaveUp>>

\* Mutant: the second attempt has a time of its own.
AttemptAnew(t) ==
    /\ Attempting(t) /\ StartThread
    /\ \E now \in BOOLEAN :
         LET h == calls[t].h IN
         /\ c' = [c EXCEPT ![h].fd = NewFd, ![h].state = IF now THEN "connack" ELSE "tcp"]
         /\ net' = [net EXCEPT ![h] = [NoNet EXCEPT
                      !.tcp = IF now THEN "up" ELSE "connecting",
                      !.asked = IF now THEN {Of("CONNACK")} ELSE {}]]
         /\ calls' = [calls EXCEPT ![t].pc = "begin",
                                   ![t].for = Of(IF now THEN "CONNACK" ELSE "CONNECT")]
    /\ mutex' = {}
    /\ UNCHANGED <<client, tostop, terminated, undefined, stray, late, gaveUp>>

\* connect() has succeeded at once and CONNECT is sent, or it is in progress.
Attempt(t) ==
    /\ Attempting(t) /\ StartThread /\ ~calls[t].expired
    /\ \E now \in BOOLEAN :
         LET h == calls[t].h IN
         /\ c' = [c EXCEPT ![h].fd = NewFd, ![h].state = IF now THEN "connack" ELSE "tcp"]
         /\ net' = [net EXCEPT ![h] = [NoNet EXCEPT
                      !.tcp = IF now THEN "up" ELSE "connecting",
                      !.asked = IF now THEN {Of("CONNACK")} ELSE {}]]
         /\ calls' = [calls EXCEPT ![t].pc = "begin",
                                   ![t].for = Of(IF now THEN "CONNACK" ELSE "CONNECT")]
    /\ mutex' = {}
    /\ UNCHANGED <<client, tostop, terminated, undefined, stray, late, gaveUp>>

-----------------------------------------------------------------------------
\* MQTTClient_waitfor: with the background thread on the semaphore, else by cycles of
\* the caller; a connect without time left does not wait.
Waitfor(t) ==
    /\ calls[t].pc = "begin"
    /\ calls' \in
         {[calls EXCEPT ![t].pc = IF running THEN "wait" ELSE "poll"]} \cup
         (IF calls[t].for.type \in Acks THEN {}
          ELSE {[calls EXCEPT ![t].pc = "got", ![t].rc = "error", ![t].got = None,
                              ![t].expired = TRUE]})
    /\ UNCHANGED <<client, c, net, run, mutex, library, stray, late, gaveUp>>

\* Mutant: the semaphore is looked at and not taken.
WaitEndsKeeps(t) ==
    LET h == calls[t].h  sem == calls[t].for.type IN
    /\ calls[t].pc = "wait"
    /\ \/ /\ sem \in c[h].sems
          /\ calls' = [calls EXCEPT ![t].pc = "read",
                                    ![t].rc = IF sem = "CONNECT" THEN c[h].rc ELSE "ok"]
       \/ calls' = [calls EXCEPT ![t].pc = "read", ![t].rc = "timeout", ![t].expired = TRUE]
    /\ UNCHANGED <<c, client, net, run, mutex, library, stray, late, gaveUp>>

\* Thread_wait_sem takes the semaphore, or gives up after its last trywait.
WaitEnds(t) ==
    LET h == calls[t].h  sem == calls[t].for.type IN
    /\ calls[t].pc = "wait"
    /\ \/ /\ sem \in c[h].sems
          /\ c' = [c EXCEPT ![h].sems = @ \ {sem}]
          /\ calls' = [calls EXCEPT ![t].pc = "read",
                                    ![t].rc = IF sem = "CONNECT" THEN c[h].rc ELSE "ok"]
       \/ /\ calls' = [calls EXCEPT ![t].pc = "read", ![t].rc = "timeout",
                                       ![t].expired = sem \notin Acks]
          /\ UNCHANGED c
    /\ UNCHANGED <<client, net, run, mutex, library, stray, late, gaveUp>>

\* waitfor returns m->pack whatever the semaphore said.
ReadPack(t) ==
    LET h == calls[t].h IN
    /\ calls[t].pc = "read"
    /\ calls' = [calls EXCEPT ![t].pc = "got", ![t].got = c[h].pack]
    /\ late' = IF calls[t].rc = "timeout" /\ c[h].pack # None THEN TRUE ELSE late
    /\ UNCHANGED <<client, c, net, run, mutex, library, stray, gaveUp>>

-----------------------------------------------------------------------------
\* MQTTClient_cycle on the socket of h, up to MQTTClient_retry: what it returns and what is
\* left of the handle and its connection.
CycleResult(h) ==
    LET result(rc, pack, m, n) == [rc |-> rc, pack |-> pack, m |-> m, n |-> n]
        first == Head(net[h].in)
        rest  == [net[h] EXCEPT !.in = Tail(@)]
    IN  IF c[h].state = "tcp"
        THEN result("ok", None, c[h], net[h])
        ELSE IF net[h].in # <<>>
        THEN IF first.type = "PUBLISH"
             THEN result("ok", None, [c[h] EXCEPT !.queue = TRUE], rest)
             ELSE result("ok", first, c[h], rest)
        ELSE result(IF net[h].tcp = "failed" THEN "error" ELSE "ok", None, c[h], net[h])

\* getsockopt(SO_ERROR) of a connect that has ended.
SoError(h) == IF net[h].tcp = "failed" THEN "error" ELSE "ok"

\* MQTTProtocol_keepalive at the end of a cycle may close connected sessions.
KeptAlive(cs, ns, gone) ==
    /\ \A k \in gone : cs[k].life = "live" /\ cs[k].connected
    /\ c' = [h \in Handle |-> IF h \in gone THEN Closed(cs[h]) ELSE cs[h]]
    /\ net' = [h \in Handle |-> IF h \in gone THEN NoNet ELSE ns[h]]
    /\ IF gone # {} THEN StopSelf ELSE UNCHANGED tostop

\* A cycle of a waiting caller.  Packets of other kinds are lost to their callers.
Poll(t) ==
    LET h == calls[t].h
        got(rc, pack) == [calls EXCEPT ![t].pc = "got", ![t].rc = rc, ![t].got = pack]
    IN
    /\ Unlocked /\ calls[t].pc = "poll"
    /\ \E gone \in SUBSET Live :
       \/ \E g \in Live :
            LET r == CycleResult(g) IN
            /\ ReadyHandle(g)
            /\ KeptAlive([c EXCEPT ![g] = r.m], [net EXCEPT ![g] = r.n], gone)
            /\ calls' = IF g # h THEN calls
                        ELSE IF c[h].state = "tcp" THEN got(SoError(h), None)
                        ELSE IF r.rc = "error" THEN got("error", None)
                        ELSE IF r.pack.type = calls[t].for.type THEN got("ok", r.pack)
                        ELSE calls
            /\ stray' = IF r.pack.type \in Acks THEN TRUE ELSE stray
       \/ /\ KeptAlive(c, net, gone)
          /\ calls' = [got("timeout", None) EXCEPT ![t].expired = TRUE]
          /\ UNCHANGED stray
    /\ UNCHANGED <<client, run, mutex, running, terminated, undefined, late, gaveUp>>

-----------------------------------------------------------------------------
\* The rest of MQTTClient_connectURIVersion.
ConnectTcpDone(t) ==
    LET h == calls[t].h IN
    /\ Unlocked /\ calls[t].pc = "got" /\ calls[t].for.type = "CONNECT"
    /\ UNCHANGED running
    /\ \/ FailThen(t, c[h].pack)           \* also when CONNECT cannot be written
       \/ /\ calls[t].rc = "ok"
          /\ c' = [c EXCEPT ![h].state = "connack"]
          /\ net' = [net EXCEPT ![h].asked = {Of("CONNACK")}]
          /\ calls' = [calls EXCEPT ![t].pc = "begin", ![t].for = Of("CONNACK")]
          /\ UNCHANGED <<mutex, tostop>>
    /\ UNCHANGED <<client, run, terminated, undefined, stray, late, gaveUp>>

\* A CONNACK is freed whether it accepts or refuses.
ConnackDone(t) ==
    LET h == calls[t].h  pack == calls[t].got IN
    /\ Unlocked /\ calls[t].pc = "got" /\ calls[t].for.type = "CONNACK"
    /\ UNCHANGED running
    /\ \E ok \in (IF pack.type = "CONNACK" THEN {pack.ok} ELSE IF pack = None THEN {FALSE}
                  ELSE BOOLEAN) :
       IF ok
       THEN /\ c' = [c EXCEPT ![h] = [Closed(@) EXCEPT !.connected = TRUE, !.fd = c[h].fd,
                                                       !.pack = None]]
            /\ calls' = [calls EXCEPT ![t] = NoCall]
            /\ UNCHANGED <<net, mutex, tostop>>
       ELSE FailThen(t, IF pack = None THEN c[h].pack ELSE None)
    /\ UNCHANGED <<client, run, terminated, undefined, stray, late, gaveUp>>

-----------------------------------------------------------------------------
\* MQTTClient_subscribeMany5 and MQTTClient_unsubscribeMany5; subscribe_mutex and
\* unsubscribe_mutex let one call of each kind wait.
Asking(h, kind) == \E u \in Threads : calls[u].h = h /\ calls[u].for.type = kind

\* The packet is written; or only a part of it, and the call fails although the rest will
\* follow; or it fails and the session is closed, also a healthy one, when the write of
\* another packet is incomplete.
Ask(t, kind) ==
    LET h == client IN
    /\ Unlocked /\ calls[t].pc = "idle"
    /\ h \in Live /\ c[h].connected /\ c[h].msgID < MaxAsks[h]
    /\ \A g \in Handle : ~Asking(g, kind)
    /\ UNCHANGED running
    /\ LET ask == [type |-> kind, id |-> c[h].msgID + 1, ok |-> TRUE] IN
       \/ /\ c' = [c EXCEPT ![h].msgID = ask.id]
          /\ net' = [net EXCEPT ![h].asked = @ \cup {ask}]
          /\ \/ /\ calls' = [calls EXCEPT ![t] = [NoCall EXCEPT !.pc = "begin", !.h = h,
                                                                !.for = ask]]
                /\ stray' = IF \E k \in Acks : Asking(h, k) THEN TRUE ELSE stray
             \/ UNCHANGED calls /\ stray' = TRUE
          /\ UNCHANGED tostop
       \/ /\ CloseSession(h) /\ Stop(t, "idle")
          /\ UNCHANGED stray
    /\ UNCHANGED <<client, run, mutex, terminated, undefined, late, gaveUp>>

\* Mutant: a subscribe that has waited in vain leaves the session open.
AskDoneKeeps(t) ==
    LET h == calls[t].h IN
    /\ Unlocked /\ calls[t].pc = "got" /\ calls[t].for.type \in Acks
    /\ c' = [c EXCEPT ![h].pack = None]
    /\ calls' = [calls EXCEPT ![t] = NoCall]
    /\ UNCHANGED <<net, tostop, client, run, mutex, running, terminated, undefined,
                   stray, late, gaveUp>>

\* An acknowledgement is taken for the caller's own; without one the session is closed.
AskDone(t) ==
    LET h == calls[t].h IN
    /\ Unlocked /\ calls[t].pc = "got" /\ calls[t].for.type \in Acks
    /\ UNCHANGED running
    /\ IF calls[t].got # None
       THEN /\ c' = [c EXCEPT ![h].pack = None]
            /\ calls' = [calls EXCEPT ![t] = NoCall]
            /\ UNCHANGED <<net, tostop>>
       ELSE CloseSession(h) /\ Stop(t, "idle")
    /\ UNCHANGED <<client, run, mutex, terminated, undefined, stray, late, gaveUp>>

-----------------------------------------------------------------------------
\* mqtt_disconnect: MQTTClient_disconnect, then MQTTClient_destroy.
Disconnect(t) ==
    /\ t = Owner /\ Unlocked /\ Quiet /\ client # 0
    /\ UNCHANGED running
    /\ CloseSession(client)
    /\ tostop' = (tostop \/ Last(running, c'))
    /\ calls' = [calls EXCEPT ![t] =
                   [NoCall EXCEPT !.pc = IF Last(running, c') THEN "stopping" ELSE "destroy",
                                  !.h = client, !.next = "destroy"]]
    /\ UNCHANGED <<client, run, mutex, terminated, undefined, stray, late, gaveUp>>

\* With its last handle the library frees its lists, once more after a stop.
Destroy(t) ==
    LET h == calls[t].h IN
    /\ Unlocked /\ calls[t].pc = "destroy"
    /\ UNCHANGED <<running, net>>
    /\ c' = [c EXCEPT ![h] = [Fresh EXCEPT !.life = "freed"]]
    /\ client' = 0
    /\ IF Live = {h} THEN Stop(t, "terminate")
       ELSE calls' = [calls EXCEPT ![t] = NoCall] /\ UNCHANGED tostop
    /\ UNCHANGED <<run, mutex, terminated, undefined, stray, late, gaveUp>>

Terminate(t) ==
    /\ Unlocked /\ calls[t].pc = "terminate"
    /\ terminated' = TRUE
    /\ calls' = [calls EXCEPT ![t] = NoCall]
    /\ UNCHANGED <<client, c, net, run, mutex, running, tostop, undefined, stray, late, gaveUp>>

-----------------------------------------------------------------------------
\* MQTTClient_run.
Undefined == undefined' = TRUE /\ UNCHANGED <<c, net, running, tostop, run, terminated>>

RunSelect ==
    /\ run.pc = "select"
    /\ \/ \E h \in Live : ReadyHandle(h) /\ run' = [RunLoop EXCEPT !.pc = "chosen", !.sock = c[h].fd]
       \/ ~(\E h \in Live : ReadyHandle(h)) /\ run' = [RunLoop EXCEPT !.pc = "chosen"]
    /\ UNCHANGED <<c, net, library>>

\* MQTTClient_cycle with the mutex.  The socket may have been closed since select, or
\* belong to another connection by now: then rc stays SOCKET_ERROR or nothing is read.
RunCycle ==
    /\ Unlocked /\ run.pc = "chosen"
    /\ \/ terminated /\ Undefined
       \/ /\ ~terminated
          /\ \E gone \in SUBSET Live :
               \/ \E h \in Live :
                    LET r == CycleResult(h) IN
                    /\ Found(run.sock, h)
                    /\ run' = [run EXCEPT !.pc = "cycled", !.rc = r.rc, !.pack = r.pack]
                    /\ KeptAlive([c EXCEPT ![h] = r.m], [net EXCEPT ![h] = r.n], gone)
               \/ /\ ~(\E h \in Live : Found(run.sock, h))
                  /\ run' = [run EXCEPT !.pc = "cycled"]
                  /\ KeptAlive(c, net, gone)
          /\ UNCHANGED <<running, terminated, undefined>>

\* Mutant: the thread ends and still counts as running.
AgainForgets(stops) ==
    IF stops THEN run' = NoRun /\ tostop' = FALSE /\ UNCHANGED running
    ELSE run' = RunLoop /\ UNCHANGED <<running, tostop>>

\* The end of the loop's body: the thread ends or goes on, with the mutex held throughout.
Again(stops) ==
    IF stops THEN run' = NoRun /\ running' = FALSE /\ tostop' = FALSE
    ELSE run' = RunLoop /\ UNCHANGED <<running, tostop>>

\* What the thread tells the caller that waits: a packet it does not handle itself, or the
\* end of a connect.
Posted(m, h) ==
    IF run.pack.type # "none"
    THEN [m EXCEPT !.pack = run.pack, !.sems = @ \cup {run.pack.type}]
    ELSE IF m.state = "tcp"
    THEN [m EXCEPT !.state = "none", !.rc = SoError(h), !.sems = @ \cup {"CONNECT"}]
    ELSE m

\* The thread has the mutex again and looks for the client of its socket once more.
RunTurn ==
    /\ Unlocked /\ run.pc = "cycled"
    /\ UNCHANGED <<terminated, undefined>>
    /\ \/ tostop /\ Again(TRUE) /\ UNCHANGED <<c, net>>
       \/ /\ ~tostop /\ ~(\E h \in Live : Found(run.sock, h))
          /\ Again(FALSE) /\ UNCHANGED <<c, net>>
       \/ \E h \in Live :
            /\ ~tostop /\ Found(run.sock, h)
            /\ \/ /\ run.rc = "error" /\ c[h].connected
                  /\ CloseSession(h)
                  /\ Again(Last(running, c'))
               \/ /\ run.rc = "error" /\ ~c[h].connected
                  /\ c' = IF c[h].state = "connack"
                          THEN [c EXCEPT ![h].state = "none", ![h].sems = @ \cup {"CONNACK"}]
                          ELSE c
                  /\ UNCHANGED net /\ Again(FALSE)
               \/ /\ run.rc = "ok" /\ c[h].queue
                  /\ run' = [run EXCEPT !.pc = "callback", !.h = h, !.sock = 0]
                  /\ UNCHANGED <<c, net, running, tostop>>
               \/ /\ run.rc = "ok" /\ ~c[h].queue
                  /\ c' = [c EXCEPT ![h] = Posted(@, h)]
                  /\ UNCHANGED net /\ Again(FALSE)

\* messageArrived returns; the thread goes on with the handle it had.
CallbackReturns ==
    /\ Unlocked /\ run.pc = "callback"
    /\ \/ c[run.h].life = "freed" /\ Undefined
       \/ /\ c[run.h].life = "live"
          /\ c' = [c EXCEPT ![run.h] = Posted([@ EXCEPT !.queue = FALSE], run.h)]
          /\ Again(tostop)
          /\ UNCHANGED <<net, terminated, undefined>>

Run == /\ RunSelect \/ RunCycle \/ RunTurn \/ CallbackReturns
       /\ UNCHANGED <<client, calls, mutex, stray, late, gaveUp>>

-----------------------------------------------------------------------------
\* The network and the broker: a connect ends, a request is answered, a message is
\* published, the connection fails.
Broker ==
    /\ \E h \in Live :
         LET n == net[h]  put(p) == [n EXCEPT !.in = Append(@, p)] IN
         \/ /\ n.tcp = "connecting"
            /\ \E end \in {"up", "failed"} : net' = [net EXCEPT ![h].tcp = end]
         \/ /\ n.tcp = "up" /\ Len(n.in) < Backlog
            /\ \/ \E ok \in BOOLEAN :
                    /\ Of("CONNACK") \in n.asked
                    /\ net' = [net EXCEPT ![h] =
                         [put([Of("CONNACK") EXCEPT !.ok = ok]) EXCEPT !.asked = {},
                                                                       !.accepted = ok]]
               \/ \E a \in n.asked :
                    /\ a.type \in Acks
                    /\ net' = [net EXCEPT ![h] = [put(a) EXCEPT !.asked = @ \ {a}]]
               \/ /\ n.accepted /\ c[h].connected /\ ~c[h].queue
                  /\ net' = [net EXCEPT ![h] = put(Of("PUBLISH"))]
         \/ /\ n.tcp = "up"
            /\ \E kept \in {<<>>, n.in} :
                 net' = [net EXCEPT ![h] = [n EXCEPT !.tcp = "failed", !.in = kept,
                                                     !.asked = {}]]
    /\ UNCHANGED <<client, c, run, calls, mutex, library, stray, late, gaveUp>>

-----------------------------------------------------------------------------
Init ==
    /\ client = 0 /\ c = [h \in Handle |-> [Fresh EXCEPT !.life = "none"]]
    /\ net = [h \in Handle |-> NoNet]
    /\ running = FALSE /\ tostop = FALSE /\ run = NoRun
    /\ calls = [t \in Threads |-> NoCall] /\ mutex = {}
    /\ terminated = TRUE /\ undefined = FALSE
    /\ stray = FALSE /\ late = FALSE /\ raced = FALSE /\ gaveUp = FALSE

\* A connect that has failed and stops the thread is none any more.
Opening(t) ==
    /\ calls[t].pc # "stopping"
    /\ calls[t].pc = "attempt" \/ calls[t].for.type \in {"CONNECT", "CONNACK"}

\* The history variable raced: while a thread is told to end or ends, a connect goes on that
\* relies on it (MQTTClient_connectURIVersion looks at running only).
Note ==
    raced' = \/ raced /\ client' = client
             \/ (tostop' \/ (running /\ ~running')) /\ \E t \in Threads : Opening(t)'

Call(t) ==
    \/ Open(t) \/ AttemptFails(t) \/ Attempt(t) \/ ConnectTcpDone(t) \/ ConnackDone(t)
    \/ Waitfor(t) \/ WaitEnds(t) \/ ReadPack(t) \/ Poll(t)
    \/ \E kind \in Acks : Ask(t, kind)
    \/ AskDone(t)
    \/ Disconnect(t) \/ Destroy(t) \/ Terminate(t) \/ StopWaited(t)

Next ==
    /\ ~undefined
    /\ Run \/ Broker \/ \E t \in Threads : Call(t)
    /\ Note

Spec == Init /\ [][Next]_vars

\* The thread is scheduled and callbacks return.
FairSpec == Spec /\ WF_vars(~undefined /\ Run /\ Note)

-----------------------------------------------------------------------------
TypeOK ==
    /\ client \in 0..MaxOpen
    /\ c \in [Handle -> [life : {"none", "live", "freed"}, connected : BOOLEAN,
                         state : {"none", "tcp", "connack"}, fd : Fd, msgID : Nat,
                         queue : BOOLEAN, pack : Packet \cup {None},
                         sems : SUBSET (Acks \cup {"CONNECT", "CONNACK"}),
                         rc : {"ok", "error"}]]
    /\ net \in [Handle -> [tcp : {"none", "connecting", "up", "failed"}, in : Seq(Packet),
                           asked : SUBSET Packet, accepted : BOOLEAN]]
    /\ run \in [pc : {"none", "select", "chosen", "cycled", "callback"}, sock : Fd,
                rc : {"ok", "error"}, pack : Packet \cup {None}, h : 0..MaxOpen]
    /\ calls \in [Threads -> [pc : {"idle", "attempt", "begin", "wait", "poll", "read", "got",
                                    "stopping", "destroy", "terminate"},
                              h : 0..MaxOpen, version : {3, 4}, expired : BOOLEAN,
                              for : Packet \cup {None, Of("CONNECT")},
                              got : Packet \cup {None},
                              rc : {"ok", "error", "timeout"}, next : {"idle", "destroy", "terminate"}]]
    /\ mutex \in SUBSET Threads
    /\ {running, tostop, terminated, undefined, stray, late, raced, gaveUp} \subseteq BOOLEAN
    /\ running <=> run.pc # "none"

\* A subscribe or unsubscribe that finds an acknowledgement in m->pack finds its own, unless
\* calls of both kinds overlapped, one failed with its packet half written, or a polling
\* caller has read an acknowledgement (stray).
OwnAck ==
    \A t \in Threads :
        calls[t].pc = "got" /\ calls[t].for.type \in Acks /\ ~stray =>
            calls[t].got \in {None, calls[t].for}

\* A semaphore taken means a packet to take: while subscribes and unsubscribes take turns, a
\* healthy session is not closed by a caller that wakes up and finds nothing.  It is when
\* calls of both kinds overlapped, one failed with its packet half written or a polling caller
\* has read an acknowledgement (stray), and when a packet came in the moment of a timeout
\* (late): then the packet of a semaphore has gone to another call, or to nobody.
PostedIsThere ==
    \A t \in Threads :
        /\ calls[t].pc = "got" /\ calls[t].rc = "ok" /\ calls[t].for.type \in Acks
        /\ ~stray /\ ~late
        => calls[t].got # None

\* A session is connected only by a CONNACK the broker has sent on this very connection,
\* never by one that belongs to the attempt before.
ConnackIsOwn == \A h \in Live : c[h].connected => net[h].accepted

\* A connected session is served by a background thread that has not been told to end,
\* unless its connect went on while the thread was told to end or ended.
ThreadServes == \A h \in Live : c[h].connected /\ ~raced => running /\ ~tostop

\* The thread never touches a handle or a list that has been freed, unless a stop gave up
\* waiting for a callback.
NothingFreedIsUsed == undefined => gaveUp

\* When the last session has gone the thread ends.
NoSession == (\A h \in Handle : ~InUse(c[h])) /\ \A t \in Threads : ~Opening(t)
ThreadFollowsSessions == (NoSession /\ ~raced) ~> (~running \/ ~NoSession \/ undefined)
=============================================================================
