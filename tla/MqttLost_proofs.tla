--------------------------- MODULE MqttLost_proofs --------------------------
(* What ends a session: connectionLost is reported at most once, for every   *)
(* number of threads that may notice the fault; and with one message in      *)
(* flight, as the service opens its session, nothing but the network, a late *)
(* ping or mqtt_disconnect ends it, and every exchange goes on until then.   *)
EXTENDS MqttHonest_proofs

\* A publisher that closed the session and has not reported it yet.
Reporter(t) == pc[t] = "stopping" /\ cur[t] # NoMsg

\* The right to report belongs to whoever closed the connected session: nobody
\* has it while the session is up, one thread at most has it afterwards, and it
\* is spent with the report.
LostInv ==
    /\ \A t \in Thread : pc[t] \in {"idle", "draining"} => cur[t] = NoMsg
    /\ connected => lost = 0 /\ \A t \in Thread : ~Reporter(t)
    /\ \A t, u \in Thread : Reporter(t) /\ Reporter(u) => t = u
    /\ (\E t \in Thread : Reporter(t)) => lost = 0
    /\ lost \in Nat /\ lost <= 1

\* The end of a cycle reports only what it closes itself.
LEMMA EndCycleLost ==
  ASSUME LostInv, NEW out, NEW tb, NEW wr, NEW tc, NEW rc, EndCycle(out, tb, wr, tc, rc)
  PROVE  LostInv'
<1>1. UNCHANGED <<pc, cur>>
  BY DEF EndCycle, appVars
<1>2. \/ UNCHANGED <<connected, lost>>
      \/ connected /\ lost' = lost + 1 /\ connected' = FALSE
  BY DEF EndCycle, LoseConnection, CloseSession
<1> QED
  BY <1>1, <1>2 DEF LostInv, Reporter

\* A step that leaves connection and report alone and makes no thread a reporter.
LEMMA QuietStep ==
  ASSUME LostInv, UNCHANGED <<connected, lost>>,
         \A t \in Thread : pc'[t] \in {"idle", "draining"} => cur'[t] = NoMsg,
         \A t \in Thread : Reporter(t)' => Reporter(t)
  PROVE  LostInv'
  BY DEF LostInv

LEMMA LostStep == TypeOK /\ LostInv /\ [Next]_vars => LostInv'
<1> SUFFICES ASSUME TypeOK, LostInv, [Next]_vars PROVE LostInv'
  OBVIOUS
<1>0. pc \in [Thread -> Pc] /\ cur \in [Thread -> Msg \cup {NoMsg}]
  BY DEF TypeOK, AppTypeOK
<1>1. ASSUME NEW t \in Thread, NEW m \in Msg, Call(t, m) PROVE LostInv'
  <2>1. UNCHANGED <<connected, lost>>
    BY <1>1 DEF Call, clientVars, cbVars
  <2>2. \A u \in Thread : pc'[u] \in {"idle", "draining"} => cur'[u] = NoMsg
    BY <1>0, <1>1 DEF Call, LostInv
  <2>3. \A u \in Thread : Reporter(u)' => Reporter(u)
    BY <1>0, <1>1 DEF Call, Reporter
  <2> QED
    BY <2>1, <2>2, <2>3, QuietStep
<1>2. ASSUME NEW t \in Thread, ExitProcess(t), connected' = connected,
             lost' = lost \/ (Reporter(t) /\ lost' = lost + 1)
      PROVE  LostInv'
  <2>1. \A u \in Thread : pc'[u] = "exited"
    BY <1>2 DEF ExitProcess
  <2> QED
    BY <1>2, <2>1 DEF LostInv, Reporter
<1>3. ASSUME NEW t \in Thread, PublishRefused(t) PROVE LostInv'
  <2>1. ExitProcess(t) /\ connected' = connected /\ lost' = lost
    BY <1>3 DEF PublishRefused, clientVars, cbVars
  <2> QED
    BY <1>2, <2>1
<1>4. ASSUME NEW t \in Thread,
             \/ PublishBlocks(t) \/ PublishSent(t) \/ PublishInterrupted(t) \/ DisconnectStart(t)
      PROVE  LostInv'
  <2>1. UNCHANGED <<connected, lost, cur>>
    BY <1>4 DEF PublishBlocks, PublishSent, PublishInterrupted, DisconnectStart, StoreMessage,
                clientVars, cbVars
  <2>2. /\ pc' = [pc EXCEPT ![t] = pc'[t]]
        /\ pc'[t] \in {"blocked", "waiting", "writing"} \/ (pc[t] = "idle" /\ pc'[t] = "draining")
    BY <1>0, <1>4 DEF PublishBlocks, PublishSent, PublishInterrupted, DisconnectStart
  <2>3. \A u \in Thread : pc'[u] \in {"idle", "draining"} => cur'[u] = NoMsg
    BY <1>0, <2>1, <2>2 DEF LostInv
  <2>4. \A u \in Thread : Reporter(u)' => Reporter(u)
    BY <1>0, <2>1, <2>2 DEF Reporter
  <2> QED
    BY <2>1, <2>3, <2>4, QuietStep
<1>5. ASSUME NEW t \in Thread, PublishError(t) PROVE LostInv'
  <2>1. connected /\ connected' = FALSE /\ UNCHANGED <<lost, cur>> /\ pc' = [pc EXCEPT ![t] = "stopping"]
    BY <1>5 DEF PublishError, CanStart, CloseSession, cbVars
  <2> QED
    BY <1>0, <2>1 DEF LostInv, Reporter
<1>6. ASSUME NEW t \in Thread, WriteFinished(t) PROVE LostInv'
  <2>1. connected' = connected /\ lost' = lost
    BY <1>6 DEF WriteFinished, clientVars, cbVars
  <2>2. CASE ExitProcess(t)
    BY <1>2, <2>1, <2>2
  <2>3. CASE pc' = [pc EXCEPT ![t] = "waiting"] /\ UNCHANGED cur
    BY <1>0, <2>1, <2>3 DEF LostInv, Reporter
  <2> QED
    BY <1>6, <2>2, <2>3 DEF WriteFinished
<1>7. ASSUME NEW t \in Thread, WaitDisconnected(t) \/ WaitCompleted(t) \/ WaitTimedOut(t) PROVE LostInv'
  <2>1. /\ UNCHANGED <<connected, lost>>
        /\ pc' = [pc EXCEPT ![t] = "idle"] /\ cur' = [cur EXCEPT ![t] = NoMsg]
    BY <1>7 DEF WaitDisconnected, WaitCompleted, WaitTimedOut, ReturnFromWait, clientVars, cbVars
  <2> QED
    BY <1>0, <2>1 DEF LostInv, Reporter
<1>8. ASSUME NEW t \in Thread, DisconnectClosed(t) \/ DisconnectDrained(t) \/ DisconnectTimedOut(t)
      PROVE  LostInv'
  <2>1. /\ pc[t] \in {"idle", "draining"} /\ connected' = FALSE
        /\ UNCHANGED <<lost, cur>> /\ pc' = [pc EXCEPT ![t] = "stopping"]
    BY <1>8 DEF DisconnectClosed, DisconnectDrained, DisconnectTimedOut, DisconnectClose,
                CloseSession, cbVars
  <2>2. cur[t] = NoMsg
    BY <2>1 DEF LostInv
  <2> QED
    BY <1>0, <2>1, <2>2 DEF LostInv, Reporter
<1>9. ASSUME NEW t \in Thread, StopWaited(t) PROVE LostInv'
  <2>1. UNCHANGED connected /\ pc[t] = "stopping"
    BY <1>9 DEF StopWaited, clientVars
  <2>2. CASE cur[t] = NoMsg
    <3>1. pc' = [pc EXCEPT ![t] = "done"] /\ UNCHANGED <<cur, lost>>
      BY <1>9, <2>2 DEF StopWaited
    <3> QED
      BY <1>0, <2>1, <3>1 DEF LostInv, Reporter
  <2>3. CASE cur[t] # NoMsg
    <3>1. Reporter(t) /\ lost' = lost + 1
      BY <1>9, <2>3 DEF StopWaited, Reporter
    <3>2. CASE ExitProcess(t)
      BY <1>2, <2>1, <3>1, <3>2
    <3>3. CASE pc' = [pc EXCEPT ![t] = "waiting"] /\ UNCHANGED cur
      BY <1>0, <2>1, <3>1, <3>3 DEF LostInv, Reporter
    <3> QED
      BY <1>9, <2>3, <3>2, <3>3 DEF StopWaited
  <2> QED
    BY <2>2, <2>3
<1>10. CASE CycleIdle \/ CycleReadError \/ HandlePuback \/ HandlePubrec \/ HandlePubcomp
  BY <1>10, EndCycleLost DEF CycleIdle, CycleReadError, HandlePuback, HandlePubrec, HandlePubcomp
<1>11. CASE RunLosesConnection
  <2>1. connected /\ connected' = FALSE /\ lost' = lost + 1 /\ UNCHANGED <<pc, cur>>
    BY <1>11 DEF RunLosesConnection, LoseConnection, CloseSession, appVars
  <2> QED
    BY <2>1 DEF LostInv, Reporter
<1>12. CASE \/ RunSelect \/ ContinueWrite \/ RunStops \/ RunGoesOn
            \/ BrokerStep \/ NetworkFails \/ TcpGivesUp \/ UNCHANGED vars
  <2>1. UNCHANGED <<connected, lost, pc, cur>>
    BY <1>12 DEF RunSelect, ContinueWrite, RunStops, RunGoesOn, BrokerStep, BrokerTakes, NetworkFails, TcpGivesUp,
                 vars, clientVars, appVars, cbVars
  <2> QED
    BY <2>1 DEF LostInv, Reporter
<1> QED
  BY <1>1, <1>3, <1>4, <1>5, <1>6, <1>7, <1>8, <1>9, <1>10, <1>11, <1>12
     DEF Next, Terminated, AppStep, Proceed, RunStep

\* connectionLost is called at most once, however many publishers and however
\* the background thread notice the same fault.
THEOREM ReportedOnce == Spec => []LostOnce
<1>1. Init => LostInv
  BY DEF Init, LostInv, Reporter
<1>2. TypeOK /\ LostInv /\ [Next]_vars => LostInv'
  BY LostStep
<1>3. LostInv => LostOnce
  BY DEF LostInv, LostOnce
<1> QED
  BY <1>1, <1>2, <1>3, TypeCorrect, PTL DEF Spec

-----------------------------------------------------------------------------
(* One message in flight *)

\* The packets under way, in whatever channel.
UnderWay == PacketsOf(writing) \cup PacketsOf(toBroker) \cup PacketsOf(toClient)

\* The packets that carry the exchange of an entry on.
Awaited(e) == IF e.next = "PUBCOMP" THEN {"PUBREL", "PUBCOMP"} ELSE {"PUBLISH", e.next}
Carries(p, e) ==
    /\ p.id = e.msgid /\ p.msg = e.msg /\ p.type \in Awaited(e)
    /\ p.type = "PUBLISH" => p.qos = e.qos

NextFits(S) == \A e \in S : e.qos = 1 <=> e.next = "PUBACK"
Carried(S, P) == \A e \in S : \E p \in P : Carries(p, e)

\* If a publisher left a packet incomplete after the cycle had selected the socket,
\* whatever is stored is about that packet; and the cycle reports no error on the
\* socket of a session whose network works.
UpInv ==
    /\ connected <=> socket = Fd
    /\ runPc = "cycle" /\ runSock = Fd /\ connected =>
          \A w \in PacketsOf(writing), e \in outboundMsgs : e.msgid = w.id
    /\ runPc = "after" /\ runRc = "error" /\ connected /\ network = "up" => runSock # Fd
    /\ NextFits(outboundMsgs)
    /\ connected /\ network = "up" => Carried(outboundMsgs, UnderWay)

LEMMA UpInit == Init => UpInv
  BY DEF Init, UpInv, NextFits, Carried, UnderWay, Fd

\* The session is closed.
LEMMA CloseUp == ASSUME CloseSession PROVE UpInv'
  BY DEF CloseSession, UpInv, NextFits, Carried, Fd

\* Neither the list nor a packet changes, and no cycle begins or ends.
LEMMA QuietUp ==
  ASSUME UpInv, UNCHANGED <<connected, socket, outboundMsgs, writing, toBroker, toClient, network>>,
         UNCHANGED <<runPc, runSock, runRc>> \/ runPc' \notin {"cycle", "after"}
  PROVE  UpInv'
<1>1. UnderWay' = UnderWay
  BY DEF UnderWay
<1> QED
  BY <1>1 DEF UpInv

\* The end of a cycle, by what the handler leaves.
LEMMA EndCycleUp ==
  ASSUME UpInv, NEW out, NEW tb, NEW wr, NEW tc, NEW rc, EndCycle(out, tb, wr, tc, rc),
         NextFits(out),
         connected /\ network = "up" => Carried(out, PacketsOf(wr) \cup PacketsOf(tb) \cup PacketsOf(tc)),
         connected /\ network = "up" /\ rc = "error" => runSock # Fd
  PROVE  UpInv'
<1>1. CASE connected /\ LoseConnection
  BY <1>1, CloseUp DEF LoseConnection
<1>2. CASE /\ outboundMsgs' = out /\ toBroker' = tb /\ writing' = wr /\ toClient' = tc
           /\ UNCHANGED <<connected, socket>>
  <2>1. runPc' = "after" /\ runRc' = rc /\ UNCHANGED <<network, runSock>>
    BY DEF EndCycle
  <2>2. UnderWay' = PacketsOf(wr) \cup PacketsOf(tb) \cup PacketsOf(tc)
    BY <1>2 DEF UnderWay
  <2> QED
    BY <1>2, <2>1, <2>2 DEF UpInv
<1> QED
  BY <1>1, <1>2 DEF EndCycle

\* The packet of a new exchange: with one message in flight nothing else is stored.
LEMMA PublishUp ==
  ASSUME MaxInflight = 1, TypeOK, WindowInv, UpInv, NEW t \in Thread,
         PublishSent(t) \/ PublishInterrupted(t)
  PROVE  UpInv'
<1>0. /\ cur[t] \in Msg /\ connected /\ writing = <<>> /\ ~Full
      /\ qos[cur[t]] \in 0..2 /\ toBroker \in Seq(Packet)
  BY DEF PublishSent, PublishInterrupted, CanStart, WriteFails, TypeOK, CallTypeOK, AppTypeOK, NetTypeOK
<1>1. outboundMsgs = {}
  <2>1. IsFiniteSet(outboundMsgs) /\ Cardinality(outboundMsgs) \in Nat
    BY FS_CardinalityType DEF WindowInv
  <2>2. Cardinality(outboundMsgs) = 0
    BY <1>0, <2>1 DEF Full
  <2> QED
    BY <2>1, <2>2, FS_EmptySet
<1>2. PICK m \in Msg : m = cur[t]
  BY <1>0
<1>3. PICK id \in IdsFor(m) :
         /\ StoreMessage(m, id)
         /\ \/ toBroker' = Sent(PublishPacket(m, id)) /\ UNCHANGED writing
            \/ writing' = <<PublishPacket(m, id)>> /\ UNCHANGED toBroker
         /\ UNCHANGED <<toClient, network, runPc, runSock, runRc>>
  BY <1>2 DEF PublishSent, PublishInterrupted, runVars
<1>4. UNCHANGED <<connected, socket>>
  BY <1>3 DEF StoreMessage
<1> DEFINE p == PublishPacket(m, id)
<1>5. p \in Packet
  BY <1>3, PublishType DEF TypeOK
<1>6. \A e \in outboundMsgs' : /\ Carries(p, e) /\ (e.qos = 1 <=> e.next = "PUBACK")
                               /\ e.msgid = id
  <2>1. outboundMsgs' \subseteq {NewEntry(m, id)}
    BY <1>1, <1>3 DEF StoreMessage
  <2>2. outboundMsgs' # {} => qos[m] \in {1, 2}
    BY <1>0, <1>1, <1>2, <1>3 DEF StoreMessage
  <2>3. qos[m] \in {1, 2} => /\ Carries(p, NewEntry(m, id)) /\ NewEntry(m, id).msgid = id
                             /\ NewEntry(m, id).qos = 1 <=> NewEntry(m, id).next = "PUBACK"
    BY DEF Carries, Awaited, NewEntry, PublishPacket
  <2> QED
    BY <2>1, <2>2, <2>3
<1>7. p.id = id
  BY DEF PublishPacket
<1> HIDE DEF p
<1>8. PacketsOf(writing') \subseteq {p}
  BY <1>0, <1>3, EmptyChannel, OneInChannel DEF p
<1>9. network = "up" => p \in UnderWay'
  <2>1. CASE toBroker' = Sent(p)
    BY <1>0, <1>5, <2>1, AppendChannel DEF Sent, UnderWay
  <2>2. CASE writing' = <<p>>
    BY <2>2, OneInChannel DEF UnderWay
  <2> QED
    BY <1>3, <2>1, <2>2 DEF p
<1>10. NextFits(outboundMsgs') /\ (network' = "up" => Carried(outboundMsgs', UnderWay'))
  BY <1>3, <1>6, <1>9 DEF NextFits, Carried
<1>11. \A w \in PacketsOf(writing'), e \in outboundMsgs' : e.msgid = w.id
  BY <1>6, <1>7, <1>8
<1> QED
  BY <1>3, <1>4, <1>10, <1>11 DEF UpInv

\* A cycle without a packet to read.
LEMMA IdleUp == UpInv /\ (CycleIdle \/ CycleReadError) => UpInv'
<1> SUFFICES ASSUME UpInv, CycleIdle \/ CycleReadError PROVE UpInv'
  OBVIOUS
<1>1. PICK rc : /\ EndCycle(outboundMsgs, toBroker, writing, toClient, rc)
                /\ connected /\ network = "up" /\ rc = "error" => runSock # Fd
  BY DEF CycleIdle, CycleReadError, UpInv, Fd
<1>2. /\ NextFits(outboundMsgs)
      /\ connected /\ network = "up" =>
            Carried(outboundMsgs, PacketsOf(writing) \cup PacketsOf(toBroker) \cup PacketsOf(toClient))
  BY DEF UpInv, UnderWay
<1> QED
  BY <1>1, <1>2, EndCycleUp

\* The first packet in a channel, and the others.
LEMMA HeadOrTail ==
  ASSUME NEW q \in Seq(Packet), q # <<>>
  PROVE  PacketsOf(q) = {Head(q)} \cup PacketsOf(Tail(q))
<1>1. /\ Len(q) \in Nat /\ Len(q) > 0 /\ Len(Tail(q)) = Len(q) - 1 /\ Head(q) = q[1]
      /\ \A i \in 1..Len(Tail(q)) : Tail(q)[i] = q[i + 1]
  OBVIOUS
<1>2. ASSUME NEW i \in 1..Len(q), i # 1 PROVE q[i] \in PacketsOf(Tail(q))
  <2>1. i - 1 \in 1..Len(Tail(q)) /\ Tail(q)[i - 1] = q[i]
    BY <1>1, <1>2
  <2> QED
    BY <2>1 DEF PacketsOf
<1>3. PacketsOf(q) \subseteq {Head(q)} \cup PacketsOf(Tail(q))
  BY <1>1, <1>2 DEF PacketsOf
<1> QED
  BY <1>3, TailChannel

\* A last acknowledgement: the entry it carried on is the one that goes.
LEMMA AckUp == TypeOK /\ UpInv /\ (HandlePuback \/ HandlePubcomp) => UpInv'
<1> SUFFICES ASSUME TypeOK, UpInv, HandlePuback \/ HandlePubcomp PROVE UpInv'
  OBVIOUS
<1>1. PICK h : h = Head(toClient)
  OBVIOUS
<1>2. PICK D :
         /\ EndCycle(outboundMsgs \ D, toBroker, writing, Tail(toClient), "ok")
         /\ \/ h.type = "PUBACK" /\ D = {e \in EntryOf(h) : e.qos = 1}
            \/ h.type = "PUBCOMP" /\ D = {e \in EntryOf(h) : e.qos = 2 /\ e.next = "PUBCOMP"}
  BY <1>1 DEF HandlePuback, HandlePubcomp, Reading
<1>3. toClient \in Seq(Packet) /\ toClient # <<>>
  BY DEF HandlePuback, HandlePubcomp, Reading, TypeOK, NetTypeOK
<1>4. NextFits(outboundMsgs \ D) /\ NextFits(outboundMsgs)
  BY DEF UpInv, NextFits
<1>5. ASSUME connected, network = "up", NEW e \in outboundMsgs \ D
      PROVE  \E p \in PacketsOf(writing) \cup PacketsOf(toBroker) \cup PacketsOf(Tail(toClient)) : Carries(p, e)
  <2>1. PICK p \in UnderWay : Carries(p, e)
    BY <1>5 DEF UpInv, Carried
  <2>2. e.qos \in 1..2 /\ e.next \in {"PUBACK", "PUBREC", "PUBCOMP"}
    BY DEF TypeOK, ClientTypeOK, Message
  <2>3. p # h
    BY <1>2, <1>4, <2>1, <2>2 DEF Carries, Awaited, EntryOf, NextFits
  <2> QED
    BY <1>1, <1>3, <2>1, <2>3, HeadOrTail DEF UnderWay
<1> QED
  BY <1>2, <1>4, <1>5, EndCycleUp DEF Carried

\* A PUBREC: the entry moves on with its PUBREL, which can always be written, because
\* an incomplete packet would be one of the same exchange.
LEMMA PubrecUp == TypeOK /\ UniqueIds /\ HonestInv /\ UpInv /\ HandlePubrec => UpInv'
<1> SUFFICES ASSUME TypeOK, UniqueIds, HonestInv, UpInv, HandlePubrec PROVE UpInv'
  OBVIOUS
<1>1. PICK h : h = Head(toClient)
  OBVIOUS
<1> DEFINE waits == {e \in EntryOf(h) : e.qos = 2 /\ e.next = "PUBREC"}
           x == Reply(h, "PUBREL")
<1>2. /\ toClient # <<>> /\ h.type = "PUBREC" /\ runPc = "cycle" /\ runSock = Fd /\ socket = Fd
  BY <1>1 DEF HandlePubrec, Reading
<1>3. PICK tb, wr, rc :
         /\ EndCycle(Moved(waits), tb, wr, Tail(toClient), rc)
         /\ \/ waits = {} /\ tb = toBroker /\ wr = writing /\ rc = "ok"
            \/ ~WriteFails /\ tb = Sent(x) /\ wr = writing /\ rc = "ok"
            \/ ~WriteFails /\ tb = toBroker /\ wr = <<x>> /\ rc = "ok"
            \/ waits # {} /\ WriteFails /\ tb = toBroker /\ wr = writing
  BY <1>1 DEF HandlePubrec, Moved
<1>4. /\ h \in Packet /\ h \in PacketsOf(toClient)
      /\ \A r \in PacketsOf(writing) \cup PacketsOf(toBroker) \cup PacketsOf(Tail(toClient)) :
            r.id = h.id => r.id = 0
      /\ toClient \in Seq(Packet) /\ toBroker \in Seq(Packet) /\ writing \in Seq(Packet)
  BY <1>1, <1>2, HeadIsLast DEF TypeOK, NetTypeOK
<1>5. x \in Packet /\ x.id = h.id /\ x.msg = h.msg /\ x.type = "PUBREL"
  BY <1>4, ReplyType DEF Reply, Packet
<1> HIDE DEF x
<1>6. \A e \in outboundMsgs : /\ e.msgid # 0 /\ e.qos \in 1..2 /\ e.next \in {"PUBACK", "PUBREC", "PUBCOMP"}
                              /\ [e EXCEPT !.next = "PUBCOMP"].msgid = e.msgid
                              /\ [e EXCEPT !.next = "PUBCOMP"].msg = e.msg
                              /\ [e EXCEPT !.next = "PUBCOMP"].qos = e.qos
                              /\ [e EXCEPT !.next = "PUBCOMP"].next = "PUBCOMP"
  BY SessionAssumption DEF TypeOK, ClientTypeOK, Message, MsgId
<1>7. \A e \in waits : e \in outboundMsgs /\ e.msgid = h.id /\ e.qos = 2
  BY DEF EntryOf
<1>8. connected /\ network = "up" /\ waits # {} => ~WriteFails
  <2>1. ASSUME connected, waits # {}, writing # <<>> PROVE FALSE
    <3>1. PICK e \in waits : e \in outboundMsgs /\ e.msgid = h.id /\ e.msgid # 0
      BY <1>6, <1>7, <2>1
    <3>2. Head(writing) \in PacketsOf(writing)
      BY <1>4, <2>1, TailChannel
    <3>3. e.msgid = Head(writing).id
      BY <1>2, <2>1, <3>1, <3>2 DEF UpInv
    <3> QED
      BY <1>4, <3>1, <3>2, <3>3
  <2> QED
    BY <2>1 DEF WriteFails
<1>9. NextFits(Moved(waits))
  <2> SUFFICES ASSUME NEW e \in outboundMsgs, NEW f, f = IF e \in waits THEN [e EXCEPT !.next = "PUBCOMP"] ELSE e
               PROVE  f.qos = 1 <=> f.next = "PUBACK"
    BY DEF NextFits, Moved
  <2>1. e.qos = 1 <=> e.next = "PUBACK"
    BY DEF UpInv, NextFits
  <2> QED
    BY <1>6, <1>7, <2>1
<1> DEFINE Left == PacketsOf(wr) \cup PacketsOf(tb) \cup PacketsOf(Tail(toClient))
<1>10. ASSUME connected, network = "up" PROVE Carried(Moved(waits), Left)
  <2>1. PacketsOf(writing) \subseteq PacketsOf(wr) /\ PacketsOf(toBroker) \subseteq PacketsOf(tb)
    <3>1. ~WriteFails => writing = <<>>
      BY DEF WriteFails
    <3> QED
      BY <1>3, <1>4, <1>5, <3>1, AppendChannel, EmptyChannel DEF Sent
  <2>2. waits # {} => x \in Left
    <3>1. waits # {} => tb = Append(toBroker, x) \/ wr = <<x>>
      BY <1>3, <1>8, <1>10 DEF Sent
    <3>2. x \in PacketsOf(Append(toBroker, x)) /\ x \in PacketsOf(<<x>>)
      BY <1>4, <1>5, AppendChannel, OneInChannel
    <3> QED
      BY <3>1, <3>2
  <2>3. ASSUME NEW e \in waits PROVE Carries(x, [e EXCEPT !.next = "PUBCOMP"])
    <3>1. e.msg = h.msg
      BY <1>1, <1>2, <1>10, AckIsOwn
    <3>2. x.type \in Awaited([e EXCEPT !.next = "PUBCOMP"])
      BY <1>5, <1>6, <1>7 DEF Awaited
    <3> QED
      BY <1>5, <1>6, <1>7, <3>1, <3>2 DEF Carries
  <2>4. ASSUME NEW e \in outboundMsgs \ waits PROVE \E p \in Left : Carries(p, e)
    <3>1. PICK p \in UnderWay : Carries(p, e)
      BY <1>10 DEF UpInv, Carried
    <3>2. p # h
      <4>1. e.qos = 1 <=> e.next = "PUBACK"
        BY DEF UpInv, NextFits
      <4>2. ASSUME p = h PROVE e \in waits
        <5>1. h.type \in Awaited(e) /\ e.msgid = h.id
          BY <3>1, <4>2 DEF Carries
        <5>2. e.next = "PUBREC"
          BY <1>2, <5>1 DEF Awaited
        <5>3. e.qos = 2
          BY <1>6, <4>1, <5>2
        <5> QED
          BY <5>1, <5>2, <5>3 DEF EntryOf
      <4> QED
        BY <4>2
    <3> QED
      BY <1>1, <1>2, <1>4, <2>1, <3>1, <3>2, HeadOrTail DEF UnderWay
  <2> QED
    BY <2>2, <2>3, <2>4 DEF Carried, Moved
<1>11. connected /\ network = "up" /\ rc = "error" => FALSE
  BY <1>3, <1>8
<1> HIDE DEF waits
<1> QED
  BY <1>3, <1>9, <1>10, <1>11, EndCycleUp

\* What is left when a packet is taken from the middle.
LEMMA RestChannel ==
  ASSUME NEW q \in Seq(Packet), NEW i \in 1..Len(q)
  PROVE  PacketsOf(q) \subseteq PacketsOf(Without(q, i)) \cup {q[i]}
<1> DEFINE a == SubSeq(q, 1, i - 1)
           b == SubSeq(q, i + 1, Len(q))
<1>0. i \in Nat /\ 1 <= i /\ i <= Len(q) /\ Len(q) \in Nat
  OBVIOUS
<1>1. a \in Seq(Packet) /\ Len(a) = i - 1 /\ \A k \in 1..(i - 1) : a[k] = q[k]
  <2>1. 1 \in Int /\ i - 1 \in Int /\ \A j \in 1..(i - 1) : q[j] \in Packet
    BY <1>0
  <2> QED
    BY <1>0, <2>1, SubSeqProperties, SMT
<1>2. /\ b \in Seq(Packet) /\ Len(b) = Len(q) - i
      /\ \A k \in 1..(Len(q) - i) : b[k] = q[i + k]
  <2>1. i + 1 \in Int /\ Len(q) \in Int /\ \A j \in (i + 1)..Len(q) : q[j] \in Packet
    BY <1>0
  <2> QED
    BY <1>0, <2>1, SubSeqProperties, SMT
<1> HIDE DEF a, b
<1> DEFINE c == a \o b
<1>3. /\ Len(c) = Len(q) - 1
      /\ \A k \in 1..Len(c) : c[k] = IF k <= i - 1 THEN a[k] ELSE b[k - (i - 1)]
  <2>1. /\ Len(a \o b) = Len(a) + Len(b)
        /\ \A k \in 1..(Len(a) + Len(b)) :
              (a \o b)[k] = IF k <= Len(a) THEN a[k] ELSE b[k - Len(a)]
    BY <1>1, <1>2, ConcatProperties
  <2> QED
    BY <1>0, <1>1, <1>2, <2>1
<1> HIDE DEF c
<1>4. ASSUME NEW k \in 1..Len(q), k # i PROVE q[k] \in PacketsOf(c)
  <2>1. CASE k < i
    <3>1. k \in 1..Len(c) /\ c[k] = q[k]
      BY <1>0, <1>1, <1>3, <2>1
    <3> QED
      BY <3>1 DEF PacketsOf
  <2>2. CASE k > i
    <3>1. k - 1 \in 1..Len(c) /\ (k - 1) - (i - 1) = k - i /\ ~ (k - 1 <= i - 1)
          /\ k - i \in 1..(Len(q) - i) /\ i + (k - i) = k
      BY <1>0, <1>3, <2>2
    <3>2. c[k - 1] = b[k - i] /\ b[k - i] = q[k]
      BY <1>2, <1>3, <3>1
    <3> QED
      BY <3>1, <3>2 DEF PacketsOf
  <2> QED
    BY <1>0, <1>4, <2>1, <2>2
<1> QED
  BY <1>4 DEF PacketsOf, Without, a, b, c

\* The broker's answer goes on with the exchange of the packet it took.
LEMMA BrokerUp == TypeOK /\ UpInv /\ BrokerStep => UpInv'
<1> SUFFICES ASSUME TypeOK, UpInv, NEW i \in 1..Len(toBroker), BrokerTakes(i) PROVE UpInv'
  BY DEF BrokerStep
<1>0. toBroker \in Seq(Packet) /\ toClient \in Seq(Packet) /\ toBroker[i] \in Packet
  BY DEF TypeOK, NetTypeOK
<1>1. PICK p \in Packet : p = toBroker[i]
  BY <1>0
<1>2. /\ UNCHANGED <<connected, socket, outboundMsgs, writing, network, runPc, runSock, runRc>>
      /\ toBroker' = Without(toBroker, i)
  BY DEF BrokerTakes, clientVars, runVars, Without
<1>3. PacketsOf(toBroker) \subseteq PacketsOf(toBroker') \cup {p}
  BY <1>0, <1>1, <1>2, RestChannel
<1>4. ASSUME connected, network = "up", NEW e \in outboundMsgs
      PROVE  \E r \in UnderWay' : Carries(r, e)
  <2>1. PICK r \in UnderWay : Carries(r, e)
    BY <1>4 DEF UpInv, Carried
  <2>2. e.msgid # 0 /\ e.qos \in 1..2 /\ (e.qos = 1 <=> e.next = "PUBACK")
        /\ e.next \in {"PUBACK", "PUBREC", "PUBCOMP"}
    BY SessionAssumption DEF TypeOK, ClientTypeOK, Message, MsgId, UpInv, NextFits
  <2>3. PacketsOf(toClient) \subseteq PacketsOf(toClient')
    <3>1. toClient' = toClient \/ \E type \in {"PUBACK", "PUBREC", "PUBCOMP"} : toClient' = Append(toClient, Reply(p, type))
      BY <1>1 DEF BrokerTakes
    <3>2. \A type \in {"PUBACK", "PUBREC", "PUBCOMP"} : Reply(p, type) \in Packet
      BY ReplyType
    <3> QED
      BY <1>0, <3>1, <3>2, AppendChannel
  <2>4. CASE r # p
    BY <1>2, <1>3, <2>1, <2>3, <2>4 DEF UnderWay
  <2>5. CASE r = p
    <3>1. socket = Fd
      BY <1>4 DEF UpInv
    <3>2. PICK type \in {"PUBACK", "PUBREC", "PUBCOMP"} :
             /\ toClient' = Append(toClient, Reply(p, type))
             /\ type \in Awaited(e)
      <4>1. CASE p.type = "PUBLISH"
        <5>1. p.qos = e.qos /\ e.next # "PUBCOMP"
          BY <2>1, <2>5, <4>1 DEF Carries, Awaited
        <5>2. \/ p.qos = 1 /\ e.next = "PUBACK" /\ toClient' = Append(toClient, Reply(p, "PUBACK"))
              \/ p.qos = 2 /\ e.next = "PUBREC" /\ toClient' = Append(toClient, Reply(p, "PUBREC"))
          BY <1>1, <1>4, <2>2, <3>1, <4>1, <5>1 DEF BrokerTakes
        <5> QED
          BY <5>2 DEF Awaited
      <4>2. CASE p.type = "PUBREL"
        <5>1. e.next = "PUBCOMP"
          BY <2>1, <2>2, <2>5, <4>2 DEF Carries, Awaited
        <5>2. toClient' = Append(toClient, Reply(p, "PUBCOMP"))
          BY <1>1, <1>4, <3>1, <4>2 DEF BrokerTakes
        <5> QED
          BY <5>1, <5>2 DEF Awaited
      <4>3. p.type \in {"PUBLISH", "PUBREL"}
        BY <1>1 DEF BrokerTakes
      <4> QED
        BY <4>1, <4>2, <4>3
    <3>3. /\ Reply(p, type) \in Packet /\ Reply(p, type).id = p.id /\ Reply(p, type).msg = p.msg
          /\ Reply(p, type).type = type
      BY ReplyType DEF Reply, Packet
    <3>4. Carries(Reply(p, type), e)
      BY <2>1, <2>5, <3>2, <3>3 DEF Carries
    <3>5. Reply(p, type) \in PacketsOf(toClient')
      BY <1>0, <3>2, <3>3, AppendChannel
    <3> QED
      BY <3>4, <3>5 DEF UnderWay
  <2> QED
    BY <2>4, <2>5
<1>5. connected' /\ network' = "up" => Carried(outboundMsgs', UnderWay')
  BY <1>2, <1>4 DEF Carried
<1> QED
  BY <1>2, <1>5 DEF UpInv

LEMMA UpStep ==
  ASSUME MaxInflight = 1, TypeOK, WindowInv, HonestInv, UpInv, [Next]_vars
  PROVE  UpInv'
<1>1. ASSUME NEW t \in Thread,
             PublishError(t) \/ DisconnectClosed(t) \/ DisconnectDrained(t) \/ DisconnectTimedOut(t)
      PROVE  UpInv'
  BY <1>1, CloseUp DEF PublishError, DisconnectClosed, DisconnectDrained, DisconnectTimedOut, DisconnectClose
<1>2. ASSUME NEW t \in Thread,
             \/ \E m \in Msg : Call(t, m)
             \/ PublishRefused(t) \/ PublishBlocks(t) \/ WriteFinished(t)
             \/ WaitDisconnected(t) \/ WaitCompleted(t) \/ WaitTimedOut(t)
             \/ DisconnectStart(t) \/ StopWaited(t)
      PROVE  UpInv'
  <2>1. /\ UNCHANGED <<connected, socket, outboundMsgs, writing, toBroker, toClient, network>>
        /\ UNCHANGED <<runPc, runSock, runRc>> \/ runPc' = "dead"
    BY <1>2 DEF Call, PublishRefused, PublishBlocks, WriteFinished, WaitDisconnected, WaitCompleted,
                WaitTimedOut, ReturnFromWait, DisconnectStart, StopWaited, ExitProcess,
                clientVars, netVars, runVars
  <2> QED
    BY <2>1, QuietUp
<1>3. ASSUME NEW t \in Thread, AppStep(t) PROVE UpInv'
  BY <1>1, <1>2, <1>3, PublishUp DEF AppStep, Proceed
<1>4. CASE RunStops \/ RunGoesOn \/ UNCHANGED vars
  <2>1. /\ UNCHANGED <<connected, socket, outboundMsgs, writing, toBroker, toClient, network>>
        /\ UNCHANGED <<runPc, runSock, runRc>> \/ runPc' \in {"dead", "select"}
    BY <1>4 DEF RunStops, RunGoesOn, EndThread, vars, clientVars, netVars, runVars
  <2> QED
    BY <2>1, QuietUp
<1>5. CASE RunSelect
  <2>1. /\ UNCHANGED <<connected, socket, outboundMsgs, writing, toBroker, toClient, network>>
        /\ runPc' = "cycle" /\ (runSock' = Fd => writing = <<>>)
    BY <1>5 DEF RunSelect, Ready, clientVars, netVars, Fd
  <2>2. UnderWay' = UnderWay
    BY <2>1 DEF UnderWay
  <2> QED
    BY <2>1, <2>2, EmptyChannel DEF UpInv
<1>6. CASE RunLosesConnection
  BY <1>6, CloseUp DEF RunLosesConnection, LoseConnection
<1>7. CASE ContinueWrite
  <2>1. /\ UNCHANGED <<connected, socket, outboundMsgs, toClient, network, runPc, runSock, runRc>>
        /\ runPc = "select" /\ writing # <<>> /\ writing' = <<>> /\ toBroker' = Sent(Head(writing))
    BY <1>7 DEF ContinueWrite, clientVars, runVars
  <2>2. network = "up" => UnderWay \subseteq UnderWay'
    <3>1. writing \in Seq(Packet) /\ toBroker \in Seq(Packet) /\ Len(writing) <= 1
      BY DEF TypeOK, NetTypeOK
    <3>2. Head(writing) \in Packet /\ PacketsOf(writing) = {Head(writing)}
      <4>1. Len(writing) \in Nat /\ Len(writing) # 0
        BY <2>1, <3>1, EmptySeq, LenProperties
      <4> QED
        BY <3>1, <4>1 DEF PacketsOf
    <3> QED
      BY <2>1, <3>1, <3>2, AppendChannel DEF Sent, UnderWay
  <2>3. connected' /\ network' = "up" => Carried(outboundMsgs', UnderWay')
    BY <2>1, <2>2 DEF UpInv, Carried
  <2> QED
    BY <2>1, <2>3 DEF UpInv
<1>8. CASE NetworkFails \/ TcpGivesUp
  <2>1. /\ UNCHANGED <<connected, socket, outboundMsgs, writing, runPc, runSock, runRc>>
        /\ network' # "up"
    BY <1>8 DEF NetworkFails, TcpGivesUp, clientVars, runVars
  <2> QED
    BY <2>1 DEF UpInv
<1>9. UniqueIds
  BY DEF WindowInv
<1> QED
  BY <1>3, <1>4, <1>5, <1>6, <1>7, <1>8, <1>9, IdleUp, AckUp, PubrecUp, BrokerUp
     DEF Next, RunStep, Terminated

LEMMA UpInvariant == ASSUME MaxInflight = 1 PROVE Spec => []UpInv
  BY UpInit, UpStep, TypeCorrect, WindowInvariant, HonestInvariant, PTL DEF Spec

\* With one message in flight, as the service opens its session, a working connection
\* is given up only at the end of a cycle by keepalive and by mqtt_disconnect:
\* although a cycle acts on a socket selected before it took the mutex, and a
\* publisher may have left a packet incomplete on it since.
THEOREM HealthyStays == ASSUME MaxInflight = 1 PROVE Spec => HealthyStaysUp
<1>1. ASSUME TypeOK, UpInv, [Next]_vars, connected, ~connected', network = "up"
      PROVE  \/ runPc = "cycle" /\ runPc' = "after"
             \/ \E t \in Thread : pc[t] = "draining" /\ pc'[t] = "stopping"
  <2>1. ASSUME NEW t \in Thread, AppStep(t) PROVE pc[t] = "draining" /\ pc'[t] = "stopping"
    <3>1. CASE DisconnectDrained(t) \/ DisconnectTimedOut(t)
      BY <1>1, <3>1 DEF DisconnectDrained, DisconnectTimedOut, DisconnectClose, TypeOK, AppTypeOK
    <3>2. CASE PublishError(t) \/ DisconnectClosed(t)
      BY <1>1, <3>2 DEF PublishError, CanStart, Full, WriteFails, DisconnectClosed
    <3>3. CASE PublishSent(t) \/ PublishInterrupted(t)
      BY <1>1, <3>3 DEF PublishSent, PublishInterrupted, StoreMessage
    <3>4. CASE \/ \E m \in Msg : Call(t, m)
               \/ PublishRefused(t) \/ PublishBlocks(t) \/ WriteFinished(t)
               \/ WaitDisconnected(t) \/ WaitCompleted(t) \/ WaitTimedOut(t)
               \/ DisconnectStart(t) \/ StopWaited(t)
      BY <1>1, <3>4 DEF Call, PublishRefused, PublishBlocks, WriteFinished, WaitDisconnected, WaitCompleted,
                        WaitTimedOut, ReturnFromWait, DisconnectStart, StopWaited, clientVars
    <3> QED
      BY <2>1, <3>1, <3>2, <3>3, <3>4 DEF AppStep, Proceed
  <2>2. CASE CycleIdle \/ CycleReadError \/ HandlePuback \/ HandlePubrec \/ HandlePubcomp
    BY <2>2 DEF CycleIdle, CycleReadError, HandlePuback, HandlePubrec, HandlePubcomp, Reading, EndCycle
  <2>3. CASE RunLosesConnection
    BY <1>1, <2>3 DEF RunLosesConnection, UpInv
  <2>4. CASE \/ RunSelect \/ ContinueWrite \/ RunStops \/ RunGoesOn
             \/ BrokerStep \/ NetworkFails \/ TcpGivesUp \/ UNCHANGED vars
    BY <1>1, <2>4 DEF RunSelect, ContinueWrite, RunStops, RunGoesOn, BrokerStep, BrokerTakes, NetworkFails,
                      TcpGivesUp, vars, clientVars
  <2> QED
    BY <1>1, <2>1, <2>2, <2>3, <2>4 DEF Next, RunStep, Terminated
<1>2. TypeOK /\ UpInv /\ [Next]_vars =>
         [connected /\ ~connected' /\ network = "up" =>
             \/ runPc = "cycle" /\ runPc' = "after"
             \/ \E t \in Thread : pc[t] = "draining" /\ pc'[t] = "stopping"]_vars
  BY <1>1
<1> QED
  BY <1>2, TypeCorrect, UpInvariant, PTL DEF Spec, HealthyStaysUp

-----------------------------------------------------------------------------
(* Exactly one packet of each exchange *)

\* Two channels one after the other.
LEMMA JoinChannels ==
  ASSUME NEW a \in Seq(Packet), NEW b \in Seq(Packet),
         Distinct(a), Distinct(b), Apart(PacketsOf(a), PacketsOf(b))
  PROVE  /\ a \o b \in Seq(Packet) /\ Distinct(a \o b)
         /\ PacketsOf(a \o b) = PacketsOf(a) \cup PacketsOf(b)
<1> DEFINE c == a \o b
<1>1. /\ Len(a) \in Nat /\ Len(b) \in Nat /\ Len(c) = Len(a) + Len(b) /\ c \in Seq(Packet)
      /\ \A i \in 1..Len(c) : c[i] = IF i <= Len(a) THEN a[i] ELSE b[i - Len(a)]
  BY ConcatProperties
<1> HIDE DEF c
<1>2. ASSUME NEW i \in 1..Len(c)
      PROVE  \/ i \in 1..Len(a) /\ c[i] = a[i] /\ c[i] \in PacketsOf(a)
             \/ i - Len(a) \in 1..Len(b) /\ c[i] = b[i - Len(a)] /\ c[i] \in PacketsOf(b)
  BY <1>1 DEF PacketsOf
<1>3. \A i \in 1..Len(a) : i \in 1..Len(c) /\ c[i] = a[i]
  BY <1>1
<1>4. ASSUME NEW i \in 1..Len(b) PROVE i + Len(a) \in 1..Len(c) /\ c[i + Len(a)] = b[i]
  <2>1. i + Len(a) \in 1..Len(c) /\ ~(i + Len(a) <= Len(a)) /\ (i + Len(a)) - Len(a) = i
    BY <1>1
  <2> QED
    BY <1>1, <2>1, Zenon
<1>5. PacketsOf(c) = PacketsOf(a) \cup PacketsOf(b)
  <2>1. PacketsOf(c) \subseteq PacketsOf(a) \cup PacketsOf(b)
    BY <1>2 DEF PacketsOf
  <2>2. PacketsOf(a) \subseteq PacketsOf(c)
    BY <1>3 DEF PacketsOf
  <2>3. PacketsOf(b) \subseteq PacketsOf(c)
    BY <1>4 DEF PacketsOf
  <2> QED
    BY <2>1, <2>2, <2>3
<1>6. Distinct(c)
  <2> SUFFICES ASSUME NEW i \in 1..Len(c), NEW j \in 1..Len(c), c[i].id = c[j].id, c[i].id # 0
               PROVE  i = j
    BY DEF Distinct
  <2>1. CASE i \in 1..Len(a) /\ j \in 1..Len(a) /\ c[i] = a[i] /\ c[j] = a[j]
    BY <2>1 DEF Distinct
  <2>2. CASE i - Len(a) \in 1..Len(b) /\ j - Len(a) \in 1..Len(b) /\ c[i] = b[i - Len(a)] /\ c[j] = b[j - Len(a)]
    <3>1. i - Len(a) = j - Len(a)
      BY <2>2 DEF Distinct
    <3> QED
      BY <1>1, <3>1
  <2>3. ~ (c[i] \in PacketsOf(a) /\ c[j] \in PacketsOf(b)) /\ ~ (c[j] \in PacketsOf(a) /\ c[i] \in PacketsOf(b))
    BY DEF Apart
  <2> QED
    BY <1>2, <2>1, <2>2, <2>3
<1> QED
  BY <1>1, <1>5, <1>6 DEF c

\* While the network works every stored message has exactly one packet of its
\* exchange under way, of the kind its next acknowledgement calls for: none is
\* stuck and none is acknowledged twice, however ids are used again.
THEOREM OnePacketUnderWay == ASSUME MaxInflight = 1 PROVE Spec => []ExchangeUnderWay
<1>1. ASSUME TypeOK, HonestInv, UpInv, connected, network = "up", NEW e \in outboundMsgs
      PROVE  LET Of(q) == {i \in 1..Len(q) : q[i].msg = e.msg /\ q[i].id = e.msgid}
                 path == writing \o toBroker \o toClient
             IN  \E i \in 1..Len(path) : Of(path) = {i} /\ path[i].type \in Awaited(e)
  <2> DEFINE path == writing \o toBroker \o toClient
  <2>1. Distinct(path) /\ PacketsOf(path) = UnderWay /\ path \in Seq(Packet)
    <3>1. /\ writing \in Seq(Packet) /\ toBroker \in Seq(Packet) /\ toClient \in Seq(Packet)
          /\ Len(writing) <= 1 /\ Len(writing) \in Nat
      BY <1>1 DEF TypeOK, NetTypeOK
    <3>2. Distinct(writing)
      BY <3>1 DEF Distinct
    <3>3. /\ writing \o toBroker \in Seq(Packet) /\ Distinct(writing \o toBroker)
          /\ PacketsOf(writing \o toBroker) = PacketsOf(writing) \cup PacketsOf(toBroker)
      BY <1>1, <3>1, <3>2, JoinChannels DEF HonestInv, OnePacketEach
    <3>4. Apart(PacketsOf(writing \o toBroker), PacketsOf(toClient)) /\ Distinct(toClient)
      BY <1>1, <3>3 DEF HonestInv, OnePacketEach, Apart
    <3> QED
      BY <3>1, <3>3, <3>4, JoinChannels DEF UnderWay
  <2> HIDE DEF path
  <2>2. PICK p \in PacketsOf(path) : Carries(p, e)
    BY <1>1, <2>1 DEF UpInv, Carried
  <2>3. PICK i \in 1..Len(path) : path[i] = p
    BY <2>2 DEF PacketsOf
  <2>4. e.msgid # 0
    BY <1>1, SessionAssumption DEF TypeOK, ClientTypeOK, Message, MsgId
  <2>5. \A j \in 1..Len(path) : path[j].id = e.msgid => j = i
    BY <2>1, <2>2, <2>3, <2>4 DEF Distinct, Carries
  <2>6. /\ {j \in 1..Len(path) : path[j].msg = e.msg /\ path[j].id = e.msgid} = {i}
        /\ path[i].type \in Awaited(e)
    BY <2>2, <2>3, <2>5 DEF Carries
  <2> QED
    BY <2>6 DEF path
<1>2. TypeOK /\ HonestInv /\ UpInv => ExchangeUnderWay
  BY <1>1 DEF ExchangeUnderWay, Awaited
<1> QED
  BY <1>2, TypeCorrect, HonestInvariant, UpInvariant, PTL
=============================================================================
