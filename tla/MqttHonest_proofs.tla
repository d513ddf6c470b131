------------------------- MODULE MqttHonest_proofs --------------------------
(* What the library tells its callers is true: a message is confirmed, and    *)
(* its publication answered SUCCESS, only if the broker has it, and none is   *)
(* dropped without being confirmed, for every window, id space and number of  *)
(* threads.                                                                   *)
EXTENDS MqttSession_proofs

\* The packets of a channel.
PacketsOf(q) == {q[i] : i \in 1..Len(q)}

\* No id twice, within one channel or in two; 0 is no id.
Distinct(q) == \A i, j \in 1..Len(q) : q[i].id = q[j].id /\ q[i].id # 0 => i = j
Apart(P, R) == \A p \in P, r \in R : p.id = r.id => p.id = 0

\* At most one packet of each exchange is under way.
OnePacketEach ==
    /\ Distinct(toBroker) /\ Distinct(toClient)
    /\ Apart(PacketsOf(writing), PacketsOf(toBroker))
    /\ Apart(PacketsOf(writing), PacketsOf(toClient))
    /\ Apart(PacketsOf(toBroker), PacketsOf(toClient))

\* A packet is about the message that is stored under its id.
Linked(P) == \A p \in P : p.id # 0 => \E e \in outboundMsgs : e.msgid = p.id /\ e.msg = p.msg
PacketsLinked ==
    connected => /\ Linked(PacketsOf(writing)) /\ Linked(PacketsOf(toBroker))
                 /\ Linked(PacketsOf(toClient))

\* The broker has not seen the publication of a PUBLISH, so it will take it, and has
\* the one of a PUBREL; every answer is about a publication it has, and a last
\* answer about an id it holds no longer.
Unseen(P) ==
    \A p \in P : /\ p.type = "PUBLISH" => p.id \notin brokerIds /\ (p.qos = 2 => p.id # 0)
                 /\ p.type = "PUBREL" => p.msg \in received
Seen(P) == \A p \in P : p.msg \in received /\ (p.type \in {"PUBACK", "PUBCOMP"} => p.id \notin brokerIds)
BrokerKnows ==
    /\ Unseen(PacketsOf(writing)) /\ Unseen(PacketsOf(toBroker)) /\ Seen(PacketsOf(toClient))
    /\ 0 \notin brokerIds
    /\ connected => brokerIds \subseteq IdsInUse
    /\ confirmed \subseteq received

HonestInv == OnePacketEach /\ PacketsLinked /\ BrokerKnows

\* What a caller that still waits can rely on.
HasEntry(m) == \E e \in outboundMsgs : e.msg = m
HasEntryAs(m, id) == \E e \in outboundMsgs : e.msg = m /\ e.msgid = id

CallerOK(t) ==
    /\ pc[t] = "stopping" => ~connected
    /\ connected /\ pc[t] = "writing" /\ qos[cur[t]] > 0 =>
          cur[t] \in confirmed \/ HasEntry(cur[t])
    /\ connected /\ pc[t] = "waiting" /\ qos[cur[t]] > 0 =>
          cur[t] \in confirmed \/ HasEntryAs(cur[t], token[t])

CallerInv ==
    /\ \A t \in Thread : CallerOK(t)
    /\ \A m \in Msg : result[m] = "SUCCESS" /\ qos[m] > 0 => m \in confirmed


-----------------------------------------------------------------------------
(* Channels *)

LEMMA EmptyChannel == PacketsOf(<<>>) = {} /\ Distinct(<<>>)
  BY DEF PacketsOf, Distinct

LEMMA OneInChannel == \A p : PacketsOf(<<p>>) = {p}
  BY DEF PacketsOf

\* A packet is added whose id no other packet has.
LEMMA AppendChannel ==
  ASSUME NEW q \in Seq(Packet), NEW p \in Packet
  PROVE  /\ PacketsOf(Append(q, p)) = PacketsOf(q) \cup {p}
         /\ Distinct(q) /\ (\A r \in PacketsOf(q) : r.id = p.id => p.id = 0) => Distinct(Append(q, p))
<1>1. /\ Len(q) \in Nat /\ Len(Append(q, p)) = Len(q) + 1
      /\ \A i \in 1..Len(q) : Append(q, p)[i] = q[i]
      /\ Append(q, p)[Len(q) + 1] = p
  OBVIOUS
<1> DEFINE r == Append(q, p)
<1> HIDE DEF r
<1>2. \A i \in 1..Len(r) : i \in 1..Len(q) \/ i = Len(q) + 1
  BY <1>1 DEF r
<1>3. PacketsOf(r) = PacketsOf(q) \cup {p}
  BY <1>1, <1>2 DEF r, PacketsOf
<1>4. ASSUME Distinct(q), \A x \in PacketsOf(q) : x.id = p.id => p.id = 0 PROVE Distinct(r)
  <2> SUFFICES ASSUME NEW i \in 1..Len(r), NEW j \in 1..Len(r), r[i].id = r[j].id, r[i].id # 0
               PROVE  i = j
    BY DEF Distinct
  <2>1. \A k \in 1..Len(q) : r[k] \in PacketsOf(q) /\ r[k] = q[k]
    BY <1>1 DEF r, PacketsOf
  <2>2. r[Len(q) + 1] = p
    BY <1>1 DEF r
  <2> QED
    BY <1>1, <1>2, <1>4, <2>1, <2>2 DEF Distinct
<1> QED
  BY <1>3, <1>4 DEF r

\* The first packet is taken.
LEMMA TailChannel ==
  ASSUME NEW q \in Seq(Packet), q # <<>>
  PROVE  /\ Head(q) \in PacketsOf(q) /\ PacketsOf(Tail(q)) \subseteq PacketsOf(q)
         /\ Distinct(q) => /\ Distinct(Tail(q))
                           /\ \A r \in PacketsOf(Tail(q)) : r.id = Head(q).id => r.id = 0
<1>1. /\ Len(q) \in Nat /\ Len(q) > 0 /\ Len(Tail(q)) = Len(q) - 1
      /\ \A i \in 1..Len(Tail(q)) : Tail(q)[i] = q[i + 1] /\ i + 1 \in 1..Len(q)
      /\ Head(q) = q[1]
  OBVIOUS
<1> DEFINE r == Tail(q)
<1> HIDE DEF r
<1>2. Head(q) \in PacketsOf(q) /\ PacketsOf(r) \subseteq PacketsOf(q)
  BY <1>1 DEF r, PacketsOf
<1>3. ASSUME Distinct(q)
      PROVE  Distinct(r) /\ \A x \in PacketsOf(r) : x.id = Head(q).id => x.id = 0
  <2>1. Distinct(r)
    BY <1>1, <1>3 DEF r, Distinct
  <2>2. ASSUME NEW i \in 1..Len(r), r[i].id = Head(q).id PROVE r[i].id = 0
    <3>1. r[i] = q[i + 1] /\ i + 1 \in 1..Len(q) /\ 1 \in 1..Len(q) /\ i + 1 # 1
      BY <1>1 DEF r
    <3> QED
      BY <1>1, <1>3, <2>2, <3>1 DEF Distinct
  <2> QED
    BY <2>1, <2>2 DEF PacketsOf
<1> QED
  BY <1>2, <1>3 DEF r

\* A packet is taken from the middle.
Without(q, i) == SubSeq(q, 1, i - 1) \o SubSeq(q, i + 1, Len(q))

LEMMA WithoutChannel ==
  ASSUME NEW q \in Seq(Packet), NEW i \in 1..Len(q)
  PROVE  /\ q[i] \in PacketsOf(q) /\ PacketsOf(Without(q, i)) \subseteq PacketsOf(q)
         /\ Distinct(q) => /\ Distinct(Without(q, i))
                           /\ \A r \in PacketsOf(Without(q, i)) : r.id = q[i].id => r.id = 0
<1> DEFINE a == SubSeq(q, 1, i - 1)
           b == SubSeq(q, i + 1, Len(q))
           r == a \o b
           at(k) == IF k < i THEN k ELSE k + 1
<1>0. i \in Nat /\ 1 <= i /\ i <= Len(q) /\ Len(q) \in Nat
  OBVIOUS
<1>1. a \in Seq(Packet) /\ Len(a) = i - 1 /\ \A k \in 1..(i - 1) : a[k] = q[k]
  <2>1. 1 \in Int /\ i - 1 \in Int /\ \A j \in 1..(i - 1) : q[j] \in Packet
    BY <1>0
  <2> QED
    BY <1>0, <2>1, SubSeqProperties, SMT
<1>2. /\ b \in Seq(Packet) /\ Len(b) = Len(q) - i
      /\ \A k \in 1..(Len(q) - i) : b[k] = q[i + k]
  <2>1. i + 1 \in Int /\ Len(q) \in Int /\ \A j \in (i + 1)..Len(q) : q[j] \in Packet
    BY <1>0
  <2> QED
    BY <1>0, <2>1, SubSeqProperties, SMT
<1> HIDE DEF a, b
<1>3. /\ Len(r) = Len(q) - 1
      /\ \A k \in 1..Len(r) : r[k] = IF k <= Len(a) THEN a[k] ELSE b[k - Len(a)]
  <2>1. /\ Len(a \o b) = Len(a) + Len(b)
        /\ \A k \in 1..(Len(a) + Len(b)) :
              (a \o b)[k] = IF k <= Len(a) THEN a[k] ELSE b[k - Len(a)]
    BY <1>1, <1>2, ConcatProperties
  <2> QED
    BY <1>0, <1>1, <1>2, <2>1
<1> HIDE DEF r
<1>4. \A k \in 1..Len(r) : r[k] = q[at(k)] /\ at(k) \in 1..Len(q) /\ at(k) # i
  <2> SUFFICES ASSUME NEW k \in 1..Len(r)
               PROVE  r[k] = q[at(k)] /\ at(k) \in 1..Len(q) /\ at(k) # i
    OBVIOUS
  <2>1. CASE k < i
    BY <1>0, <1>1, <1>3, <2>1
  <2>2. CASE ~ (k < i)
    <3>1. k - Len(a) \in 1..(Len(q) - i) /\ i + (k - Len(a)) = k + 1 /\ ~ (k <= Len(a))
      BY <1>0, <1>1, <1>3, <2>2
    <3>2. r[k] = b[k - Len(a)] /\ b[k - Len(a)] = q[i + (k - Len(a))]
      BY <1>2, <1>3, <3>1
    <3>3. at(k) = k + 1 /\ k + 1 \in 1..Len(q) /\ k + 1 # i
      BY <1>0, <1>3, <2>2
    <3> QED
      BY <3>1, <3>2, <3>3
  <2> QED
    BY <2>1, <2>2
<1>5. \A j, k \in 1..Len(r) : at(j) = at(k) => j = k
  BY <1>0, <1>3
<1> HIDE DEF at
<1>6. q[i] \in PacketsOf(q) /\ PacketsOf(r) \subseteq PacketsOf(q)
  BY <1>4 DEF PacketsOf
<1>7. ASSUME Distinct(q)
      PROVE  Distinct(r) /\ \A x \in PacketsOf(r) : x.id = q[i].id => x.id = 0
  <2>1. Distinct(r)
    BY <1>4, <1>5, <1>7 DEF Distinct
  <2>2. \A x \in PacketsOf(r) : x.id = q[i].id => x.id = 0
    BY <1>4, <1>7 DEF Distinct, PacketsOf
  <2> QED
    BY <2>1, <2>2
<1> QED
  BY <1>6, <1>7 DEF r, a, b, Without

-----------------------------------------------------------------------------
(* Steps of the packets *)

\* Every stored message is still stored under its id.
ListKept == \A e \in outboundMsgs : \E f \in outboundMsgs' : f.msgid = e.msgid /\ f.msg = e.msg

LEMMA HonestInit == Init => HonestInv
  BY EmptyChannel DEF Init, HonestInv, OnePacketEach, Apart, PacketsLinked, Linked, BrokerKnows,
                      Unseen, Seen, IdsInUse

\* Packets are lost or left alone, and nothing else changes while connected.
LEMMA FewerPackets ==
  ASSUME HonestInv, connected' => connected /\ ListKept,
         PacketsOf(writing') \subseteq PacketsOf(writing),
         PacketsOf(toBroker') \subseteq PacketsOf(toBroker), Distinct(toBroker'),
         PacketsOf(toClient') \subseteq PacketsOf(toClient), Distinct(toClient'),
         UNCHANGED brokerVars, confirmed' \subseteq received
  PROVE  HonestInv'
<1>1. OnePacketEach'
  BY DEF HonestInv, OnePacketEach, Apart
<1>2. PacketsLinked'
  BY DEF HonestInv, PacketsLinked, Linked, ListKept
<1>3. BrokerKnows'
  BY DEF HonestInv, BrokerKnows, Unseen, Seen, IdsInUse, ListKept, brokerVars
<1> QED
  BY <1>1, <1>2, <1>3 DEF HonestInv

\* The session is closed.
LEMMA CloseHonest ==
  ASSUME HonestInv, CloseSession, toBroker' = toBroker, UNCHANGED brokerVars, confirmed' \subseteq received
  PROVE  HonestInv'
<1>1. ~connected' /\ writing' = <<>> /\ toClient' = <<>>
  BY DEF CloseSession
<1>2. Distinct(toBroker')
  BY DEF HonestInv, OnePacketEach
<1> QED
  BY <1>1, <1>2, EmptyChannel, FewerPackets

\* The session is closed in the cycle that wrote a PUBREL.
LEMMA PubrelThenClose ==
  ASSUME TypeOK, HonestInv, CloseSession, NEW x \in Packet, toBroker' = Append(toBroker, x),
         x.type = "PUBREL", x.msg \in received,
         \A r \in PacketsOf(toBroker) : r.id = x.id => x.id = 0,
         UNCHANGED brokerVars, confirmed' \subseteq received
  PROVE  HonestInv'
<1>1. ~connected' /\ PacketsOf(writing') = {} /\ PacketsOf(toClient') = {} /\ Distinct(toClient')
  BY EmptyChannel DEF CloseSession
<1>2. PacketsOf(toBroker') = PacketsOf(toBroker) \cup {x} /\ Distinct(toBroker')
  BY AppendChannel DEF TypeOK, NetTypeOK, HonestInv, OnePacketEach
<1>3. OnePacketEach' /\ PacketsLinked'
  BY <1>1, <1>2 DEF OnePacketEach, Apart, PacketsLinked
<1>4. Unseen(PacketsOf(toBroker')) /\ 0 \notin brokerIds
  BY <1>2 DEF HonestInv, BrokerKnows, Unseen
<1>5. BrokerKnows'
  BY <1>1, <1>4 DEF BrokerKnows, Unseen, Seen, brokerVars
<1> QED
  BY <1>3, <1>5 DEF HonestInv

\* A packet that is published is the only one with its id, and the broker does not
\* know that id.
LEMMA FreshPacket ==
  ASSUME TypeOK, HonestInv, connected, NEW m \in Msg, NEW id \in IdsFor(m), StoreMessage(m, id)
  PROVE  /\ PublishPacket(m, id) \in Packet /\ PublishPacket(m, id).id = id
         /\ PublishPacket(m, id).type = "PUBLISH" /\ PublishPacket(m, id).msg = m
         /\ PublishPacket(m, id).qos = 2 => id # 0
         /\ id \notin brokerIds
         /\ \A r \in PacketsOf(writing) \cup PacketsOf(toBroker) \cup PacketsOf(toClient) :
               r.id = id => id = 0
         /\ connected' /\ outboundMsgs \subseteq outboundMsgs'
         /\ id # 0 => HasEntryAs(m, id)'
<1>1. qos[m] \in 0..2 /\ id \in Token /\ (qos[m] > 0 => id \in MsgId /\ id \notin IdsInUse)
  BY IdsForType DEF TypeOK, AppTypeOK
<1>2. PublishPacket(m, id) \in Packet
  BY PublishType DEF TypeOK
<1>3. /\ PublishPacket(m, id).id = id /\ PublishPacket(m, id).type = "PUBLISH"
      /\ PublishPacket(m, id).msg = m /\ PublishPacket(m, id).qos = qos[m]
  BY DEF PublishPacket
<1>4. id # 0 <=> qos[m] > 0
  BY <1>1, SessionAssumption DEF IdsFor, MsgId
<1>5. id # 0 => id \notin IdsInUse
  BY <1>1, <1>4
<1>6. id \notin brokerIds
  BY <1>5 DEF HonestInv, BrokerKnows
<1>7. \A r \in PacketsOf(writing) \cup PacketsOf(toBroker) \cup PacketsOf(toClient) :
         r.id = id => id = 0
  BY <1>5 DEF HonestInv, PacketsLinked, Linked, IdsInUse
<1>8. connected' /\ outboundMsgs \subseteq outboundMsgs'
  BY DEF StoreMessage
<1>9. id # 0 => HasEntryAs(m, id)'
  <2>1. NewEntry(m, id).msg = m /\ NewEntry(m, id).msgid = id
    BY DEF NewEntry
  <2>2. id # 0 => NewEntry(m, id) \in outboundMsgs'
    BY <1>4 DEF StoreMessage
  <2> QED
    BY <2>1, <2>2 DEF HasEntryAs
<1>10. qos[m] = 2 => id # 0
  BY <1>1, <1>4
<1> QED
  BY <1>2, <1>3, <1>6, <1>7, <1>8, <1>9, <1>10

\* A publication is handed to TCP or left incomplete.
LEMMA PublishHonest ==
  ASSUME TypeOK, HonestInv, NEW t \in Thread, PublishSent(t) \/ PublishInterrupted(t)
  PROVE  HonestInv'
<1>0. cur[t] \in Msg /\ connected /\ writing = <<>>
  BY DEF PublishSent, PublishInterrupted, CanStart, WriteFails, TypeOK, CallTypeOK
<1>1. PICK m \in Msg : m = cur[t]
  BY <1>0
<1>2. PICK id \in IdsFor(m) :
         /\ StoreMessage(m, id)
         /\ \/ toBroker' = Sent(PublishPacket(m, id)) /\ UNCHANGED writing
            \/ writing' = <<PublishPacket(m, id)>> /\ UNCHANGED toBroker
         /\ UNCHANGED <<toClient, brokerVars, confirmed>>
  BY <1>1 DEF PublishSent, PublishInterrupted, cbVars
<1> DEFINE p == PublishPacket(m, id)
<1>3. /\ p \in Packet /\ p.id = id /\ p.type = "PUBLISH" /\ p.msg = m /\ (p.qos = 2 => id # 0)
      /\ id \notin brokerIds
      /\ \A r \in PacketsOf(writing) \cup PacketsOf(toBroker) \cup PacketsOf(toClient) :
            r.id = id => id = 0
      /\ connected' /\ outboundMsgs \subseteq outboundMsgs'
      /\ id # 0 => HasEntryAs(m, id)'
  BY <1>0, <1>1, <1>2, FreshPacket
<1> HIDE DEF p
<1>4. \/ /\ PacketsOf(toBroker') = PacketsOf(toBroker) \cup {p} /\ Distinct(toBroker')
         /\ PacketsOf(writing') = {}
      \/ /\ PacketsOf(writing') = {p} /\ toBroker' = toBroker
      \/ /\ UNCHANGED <<toBroker, writing>>
  <2>1. CASE toBroker' = Append(toBroker, p) /\ UNCHANGED writing
    <3>1. toBroker \in Seq(Packet) /\ Distinct(toBroker)
      BY DEF TypeOK, NetTypeOK, HonestInv, OnePacketEach
    <3> QED
      BY <1>0, <1>3, <2>1, <3>1, AppendChannel, EmptyChannel
  <2>2. CASE writing' = <<p>> /\ UNCHANGED toBroker
    BY <2>2, OneInChannel
  <2> QED
    BY <1>2, <2>1, <2>2 DEF Sent, p
<1>5. OnePacketEach'
  BY <1>2, <1>3, <1>4 DEF HonestInv, OnePacketEach, Apart
<1>6. PacketsLinked'
  <2>1. \A r \in PacketsOf(writing') \cup PacketsOf(toBroker') \cup PacketsOf(toClient') :
           \/ r = p
           \/ r \in PacketsOf(writing) \cup PacketsOf(toBroker) \cup PacketsOf(toClient)
    BY <1>2, <1>4
  <2> QED
    BY <1>0, <1>3, <2>1 DEF HonestInv, PacketsLinked, Linked, HasEntryAs
<1>7. BrokerKnows'
  <2>1. Unseen(PacketsOf(writing) \cup PacketsOf(toBroker) \cup {p})
    BY <1>3 DEF HonestInv, BrokerKnows, Unseen
  <2>2. PacketsOf(writing') \cup PacketsOf(toBroker')
           \subseteq PacketsOf(writing) \cup PacketsOf(toBroker) \cup {p}
    BY <1>4
  <2>3. Unseen(PacketsOf(writing))' /\ Unseen(PacketsOf(toBroker))'
    BY <1>2, <2>1, <2>2 DEF Unseen, brokerVars
  <2>4. IdsInUse \subseteq IdsInUse'
    BY <1>3 DEF IdsInUse
  <2>5. Seen(PacketsOf(toClient))'
    BY <1>2 DEF HonestInv, BrokerKnows, Seen, brokerVars
  <2> QED
    BY <1>0, <1>2, <2>3, <2>4, <2>5 DEF HonestInv, BrokerKnows, brokerVars
<1> QED
  BY <1>5, <1>6, <1>7 DEF HonestInv

\* The rest of a packet is handed to TCP.
LEMMA WriteHonest == TypeOK /\ HonestInv /\ ContinueWrite => HonestInv'
<1> SUFFICES ASSUME TypeOK, HonestInv, ContinueWrite PROVE HonestInv'
  OBVIOUS
<1>0. writing \in Seq(Packet) /\ Len(writing) = 1
  <2>1. writing \in Seq(Packet) /\ Len(writing) <= 1 /\ writing # <<>>
    BY DEF ContinueWrite, TypeOK, NetTypeOK
  <2>2. Len(writing) \in Nat /\ Len(writing) # 0
    BY <2>1, EmptySeq, LenProperties
  <2>3. \A n \in Nat : n <= 1 /\ n # 0 => n = 1
    OBVIOUS
  <2>4. Len(writing) = 1
    BY <2>1, <2>2, <2>3, Zenon
  <2> QED
    BY <2>1, <2>4
<1>1. PICK w \in Packet : Head(writing) = w /\ writing[1] = w
  BY <1>0
<1>2. /\ writing' = <<>> /\ (toBroker' = Append(toBroker, w) \/ toBroker' = toBroker)
      /\ UNCHANGED <<clientVars, toClient, brokerVars, confirmed>>
  BY <1>1 DEF ContinueWrite, Sent, cbVars
<1>3. PacketsOf(writing) = {w} /\ PacketsOf(writing') = {}
  BY <1>0, <1>1, <1>2, EmptyChannel DEF PacketsOf
<1>4. CASE toBroker' = toBroker
  <2>1. ListKept /\ connected' = connected
    BY <1>2 DEF ListKept, clientVars
  <2>2. Distinct(toBroker') /\ Distinct(toClient')
    BY <1>2, <1>4 DEF HonestInv, OnePacketEach
  <2>3. confirmed' \subseteq received
    BY <1>2 DEF HonestInv, BrokerKnows
  <2> QED
    BY <1>2, <1>3, <1>4, <2>1, <2>2, <2>3, FewerPackets
<1>5. CASE toBroker' = Append(toBroker, w)
  <2>1. \A r \in PacketsOf(toBroker) : r.id = w.id => w.id = 0
    BY <1>3 DEF HonestInv, OnePacketEach, Apart
  <2>2. PacketsOf(toBroker') = PacketsOf(toBroker) \cup {w} /\ Distinct(toBroker')
    BY <1>5, <2>1, AppendChannel DEF TypeOK, NetTypeOK, HonestInv, OnePacketEach
  <2>3. OnePacketEach'
    BY <1>2, <1>3, <2>2 DEF HonestInv, OnePacketEach, Apart
  <2>4. PacketsLinked'
    BY <1>2, <1>3, <2>2 DEF HonestInv, PacketsLinked, Linked, clientVars
  <2>5. BrokerKnows'
    BY <1>2, <1>3, <2>2 DEF HonestInv, BrokerKnows, Unseen, Seen, IdsInUse, clientVars, brokerVars
  <2> QED
    BY <2>3, <2>4, <2>5 DEF HonestInv
<1> QED
  BY <1>2, <1>4, <1>5

\* What the end of a cycle leaves: the handler's result, or a closed session.
LEMMA EndCycleCases ==
  ASSUME NEW out, NEW tb, NEW wr, NEW tc, NEW rc, EndCycle(out, tb, wr, tc, rc)
  PROVE  /\ UNCHANGED <<brokerVars, appVars>> /\ toBroker' = tb
         /\ \/ /\ outboundMsgs' = out /\ writing' = wr /\ toClient' = tc
               /\ connected' = connected
            \/ connected /\ CloseSession
  BY DEF EndCycle, LoseConnection

\* A cycle without a packet.
LEMMA IdleHonest == TypeOK /\ HonestInv /\ (CycleIdle \/ CycleReadError) => HonestInv'
<1> SUFFICES ASSUME TypeOK, HonestInv, CycleIdle \/ CycleReadError PROVE HonestInv'
  OBVIOUS
<1>1. PICK rc : EndCycle(outboundMsgs, toBroker, writing, toClient, rc) /\ UNCHANGED confirmed
  BY DEF CycleIdle, CycleReadError
<1>2. UNCHANGED brokerVars /\ confirmed' \subseteq received
  BY <1>1, EndCycleCases DEF HonestInv, BrokerKnows
<1>3. CASE CloseSession /\ toBroker' = toBroker
  BY <1>2, <1>3, CloseHonest
<1>4. CASE UNCHANGED <<outboundMsgs, toBroker, writing, toClient, connected>>
  <2>1. ListKept
    BY <1>4 DEF ListKept
  <2>2. Distinct(toBroker') /\ Distinct(toClient')
    BY <1>4 DEF HonestInv, OnePacketEach
  <2> QED
    BY <1>2, <1>4, <2>1, <2>2, FewerPackets
<1> QED
  BY <1>1, <1>3, <1>4, EndCycleCases

\* The packet a handler has read.
LEMMA HeadIsLast ==
  ASSUME TypeOK, HonestInv, toClient # <<>>
  PROVE  /\ Head(toClient) \in Packet /\ Head(toClient) \in PacketsOf(toClient)
         /\ PacketsOf(Tail(toClient)) \subseteq PacketsOf(toClient) /\ Distinct(Tail(toClient))
         /\ \A r \in PacketsOf(writing) \cup PacketsOf(toBroker) \cup PacketsOf(Tail(toClient)) :
               r.id = Head(toClient).id => r.id = 0
         /\ Head(toClient).msg \in received
<1>1. toClient \in Seq(Packet) /\ Distinct(toClient)
  BY DEF TypeOK, NetTypeOK, HonestInv, OnePacketEach
<1>2. /\ Head(toClient) \in PacketsOf(toClient)
      /\ PacketsOf(Tail(toClient)) \subseteq PacketsOf(toClient) /\ Distinct(Tail(toClient))
      /\ \A r \in PacketsOf(Tail(toClient)) : r.id = Head(toClient).id => r.id = 0
  BY <1>1, TailChannel
<1>3. Head(toClient) \in Packet
  BY <1>1, PacketSeq
<1>4. \A r \in PacketsOf(writing) \cup PacketsOf(toBroker) : r.id = Head(toClient).id => r.id = 0
  BY <1>2 DEF HonestInv, OnePacketEach, Apart
<1>5. Head(toClient).msg \in received
  BY <1>2 DEF HonestInv, BrokerKnows, Seen
<1> QED
  BY <1>2, <1>3, <1>4, <1>5

\* A last acknowledgement: its entry goes, and no other packet belonged to it.
LEMMA AckHonest == TypeOK /\ HonestInv /\ (HandlePuback \/ HandlePubcomp) => HonestInv'
<1> SUFFICES ASSUME TypeOK, HonestInv, HandlePuback \/ HandlePubcomp PROVE HonestInv'
  OBVIOUS
<1>1. PICK p : p = Head(toClient)
  OBVIOUS
<1>2. toClient # <<>> /\ p.type \in {"PUBACK", "PUBCOMP"} /\ confirmed' = confirmed \cup {p.msg}
  BY <1>1 DEF HandlePuback, HandlePubcomp, Reading
<1>3. PICK D, rc :
         D \subseteq EntryOf(p) /\ EndCycle(outboundMsgs \ D, toBroker, writing, Tail(toClient), rc)
  BY <1>1 DEF HandlePuback, HandlePubcomp
<1>4. /\ p \in PacketsOf(toClient) /\ p.msg \in received
      /\ PacketsOf(Tail(toClient)) \subseteq PacketsOf(toClient) /\ Distinct(Tail(toClient))
      /\ \A r \in PacketsOf(writing) \cup PacketsOf(toBroker) \cup PacketsOf(Tail(toClient)) :
            r.id = p.id => r.id = 0
  BY <1>1, <1>2, HeadIsLast
<1>5. UNCHANGED brokerVars /\ confirmed' \subseteq received /\ p.id \notin brokerIds
  BY <1>2, <1>3, <1>4, EndCycleCases DEF HonestInv, BrokerKnows, Seen
<1>6. CASE CloseSession /\ toBroker' = toBroker
  BY <1>5, <1>6, CloseHonest
<1>7. CASE /\ outboundMsgs' = outboundMsgs \ D /\ toClient' = Tail(toClient)
           /\ UNCHANGED <<toBroker, writing, connected>>
  <2>1. OnePacketEach'
    BY <1>4, <1>7 DEF HonestInv, OnePacketEach, Apart
  <2>2. \A e \in D : e.msgid = p.id
    BY <1>3 DEF EntryOf
  <2>3. PacketsLinked'
    BY <1>4, <1>7, <2>2 DEF HonestInv, PacketsLinked, Linked
  <2>4. BrokerKnows'
    <3>1. connected => brokerIds \subseteq IdsInUse'
      BY <1>5, <1>7, <2>2 DEF HonestInv, BrokerKnows, IdsInUse
    <3> QED
      BY <1>4, <1>5, <1>7, <3>1 DEF HonestInv, BrokerKnows, Unseen, Seen, brokerVars
  <2> QED
    BY <2>1, <2>3, <2>4 DEF HonestInv
<1> QED
  BY <1>3, <1>6, <1>7, EndCycleCases

\* What the handler of a PUBREC leaves: entries moved on, and a PUBREL written whole,
\* in part or not at all.
LEMMA PubrecCycle ==
  ASSUME HandlePubrec
  PROVE  \E W, tb, wr, rc :
            /\ W \subseteq outboundMsgs
            /\ EndCycle(Moved(W), tb, wr, Tail(toClient), rc)
            /\ \/ tb = toBroker /\ wr = writing
               \/ /\ writing = <<>>
                  /\ \/ tb = Sent(Reply(Head(toClient), "PUBREL")) /\ wr = writing
                     \/ tb = toBroker /\ wr = <<Reply(Head(toClient), "PUBREL")>>
<1> DEFINE waits == {e \in EntryOf(Head(toClient)) : e.qos = 2 /\ e.next = "PUBREC"}
<1>1. waits \in SUBSET outboundMsgs
  BY DEF EntryOf
<1> QED
  BY <1>1 DEF HandlePubrec, Moved, WriteFails

\* A PUBREC: the entry stays, and its PUBREL takes the place of the packet.
LEMMA PubrecHonest == TypeOK /\ HonestInv /\ HandlePubrec => HonestInv'
<1> SUFFICES ASSUME TypeOK, HonestInv, HandlePubrec PROVE HonestInv'
  OBVIOUS
<1>1. PICK p : p = Head(toClient)
  OBVIOUS
<1>2. PICK W, tb, wr, rc :
         /\ W \subseteq outboundMsgs
         /\ EndCycle(Moved(W), tb, wr, Tail(toClient), rc)
         /\ \/ tb = toBroker /\ wr = writing
            \/ /\ writing = <<>>
               /\ \/ tb = Sent(Reply(p, "PUBREL")) /\ wr = writing
                  \/ tb = toBroker /\ wr = <<Reply(p, "PUBREL")>>
  BY <1>1, PubrecCycle
<1>3. toClient # <<>> /\ confirmed' = confirmed
  BY DEF HandlePubrec, Reading
<1>4. /\ p \in Packet /\ p \in PacketsOf(toClient) /\ p.msg \in received
      /\ PacketsOf(Tail(toClient)) \subseteq PacketsOf(toClient) /\ Distinct(Tail(toClient))
      /\ \A r \in PacketsOf(writing) \cup PacketsOf(toBroker) \cup PacketsOf(Tail(toClient)) :
            r.id = p.id => r.id = 0
  BY <1>1, <1>3, HeadIsLast
<1>5. UNCHANGED brokerVars /\ confirmed' \subseteq received
  BY <1>2, <1>3, EndCycleCases DEF HonestInv, BrokerKnows
<1>6. CASE CloseSession /\ toBroker' = tb
  <2>1. CASE tb = toBroker
    BY <1>5, <1>6, <2>1, CloseHonest
  <2>2. CASE tb = Append(toBroker, Reply(p, "PUBREL"))
    <3>1. PICK x \in Packet : x = Reply(p, "PUBREL") /\ x.id = p.id /\ x.msg = p.msg /\ x.type = "PUBREL"
      BY <1>4, ReplyType DEF Reply, Packet
    <3>2. \A r \in PacketsOf(toBroker) : r.id = x.id => x.id = 0
      BY <1>4, <3>1
    <3>3. toBroker' = Append(toBroker, x) /\ x.msg \in received
      BY <1>4, <1>6, <2>2, <3>1
    <3> QED
      BY <1>5, <1>6, <3>1, <3>2, <3>3, PubrelThenClose
  <2> QED
    BY <1>2, <2>1, <2>2 DEF Sent
<1>7. CASE /\ outboundMsgs' = Moved(W) /\ toBroker' = tb /\ writing' = wr
           /\ toClient' = Tail(toClient) /\ connected' = connected
  <2>1. ListKept
    <3>1. \A e \in outboundMsgs : [e EXCEPT !.next = "PUBCOMP"].msgid = e.msgid
                                  /\ [e EXCEPT !.next = "PUBCOMP"].msg = e.msg
      BY DEF TypeOK, ClientTypeOK, Message
    <3> QED
      BY <1>7, <3>1 DEF ListKept, Moved
  <2>2. CASE tb = toBroker /\ wr = writing
    <3>1. Distinct(toBroker)
      BY DEF HonestInv, OnePacketEach
    <3> QED
      BY <1>4, <1>5, <1>7, <2>1, <2>2, <3>1, FewerPackets
  <2>3. PICK x \in Packet : x = Reply(p, "PUBREL") /\ x.id = p.id /\ x.msg = p.msg /\ x.type = "PUBREL"
    BY <1>4, ReplyType DEF Reply, Packet
  <2>4. CASE /\ writing = <<>>
             /\ \/ toBroker' = Append(toBroker, x) /\ writing' = writing
                \/ toBroker' = toBroker /\ writing' = <<x>>
    <3>1. \/ /\ PacketsOf(toBroker') = PacketsOf(toBroker) \cup {x} /\ Distinct(toBroker')
             /\ PacketsOf(writing') = {}
          \/ PacketsOf(writing') = {x} /\ toBroker' = toBroker
      <4>1. toBroker \in Seq(Packet) /\ Distinct(toBroker)
        BY DEF TypeOK, NetTypeOK, HonestInv, OnePacketEach
      <4>2. \A r \in PacketsOf(toBroker) : r.id = x.id => x.id = 0
        BY <1>4, <2>3
      <4> QED
        BY <2>4, <4>1, <4>2, AppendChannel, EmptyChannel, OneInChannel
    <3>2. OnePacketEach'
      BY <1>4, <1>7, <2>3, <3>1 DEF HonestInv, OnePacketEach, Apart
    <3>3. PacketsLinked'
      <4>1. connected => /\ Linked(PacketsOf(writing') \cup PacketsOf(toBroker'))
                         /\ Linked(PacketsOf(toClient'))
        BY <1>4, <1>7, <2>3, <3>1 DEF HonestInv, PacketsLinked, Linked
      <4> QED
        BY <1>7, <2>1, <4>1 DEF PacketsLinked, Linked, ListKept
    <3>4. BrokerKnows'
      <4>1. Unseen(PacketsOf(writing') \cup PacketsOf(toBroker')) /\ Seen(PacketsOf(toClient'))
        BY <1>4, <1>7, <2>3, <3>1 DEF HonestInv, BrokerKnows, Unseen, Seen
      <4>2. connected => IdsInUse \subseteq IdsInUse'
        BY <2>1 DEF ListKept, IdsInUse
      <4>3. Unseen(PacketsOf(writing))' /\ Unseen(PacketsOf(toBroker))' /\ Seen(PacketsOf(toClient))'
        BY <1>5, <4>1 DEF Unseen, Seen, brokerVars
      <4> QED
        BY <1>5, <1>7, <4>2, <4>3 DEF HonestInv, BrokerKnows, brokerVars
    <3> QED
      BY <3>2, <3>3, <3>4 DEF HonestInv
  <2> QED
    BY <1>2, <1>7, <2>2, <2>3, <2>4 DEF Sent
<1> QED
  BY <1>2, <1>6, <1>7, EndCycleCases

\* The broker takes a packet and answers it.
LEMMA BrokerHonest == TypeOK /\ HonestInv /\ BrokerStep => HonestInv'
<1> SUFFICES ASSUME TypeOK, HonestInv, NEW i \in 1..Len(toBroker), BrokerTakes(i) PROVE HonestInv'
  BY DEF BrokerStep
<1>0. toBroker \in Seq(Packet) /\ toClient \in Seq(Packet) /\ toBroker[i] \in Packet
  BY DEF TypeOK, NetTypeOK
<1>1. PICK p \in Packet : p = toBroker[i]
  BY <1>0
<1>2. /\ p \in PacketsOf(toBroker) /\ PacketsOf(toBroker') \subseteq PacketsOf(toBroker)
      /\ Distinct(toBroker')
      /\ \A r \in PacketsOf(writing) \cup PacketsOf(toBroker') \cup PacketsOf(toClient) :
            r.id = p.id => r.id = 0
  <2>1. toBroker' = Without(toBroker, i)
    BY DEF BrokerTakes, Without
  <2>2. /\ p \in PacketsOf(toBroker) /\ PacketsOf(toBroker') \subseteq PacketsOf(toBroker)
        /\ Distinct(toBroker') /\ \A r \in PacketsOf(toBroker') : r.id = p.id => r.id = 0
    BY <1>0, <1>1, <2>1, WithoutChannel DEF HonestInv, OnePacketEach
  <2>3. \A r \in PacketsOf(writing) \cup PacketsOf(toClient) : r.id = p.id => r.id = 0
    BY <2>2 DEF HonestInv, OnePacketEach, Apart
  <2> QED
    BY <2>2, <2>3
<1>3. /\ UNCHANGED <<writing, outboundMsgs, connected, confirmed>>
      /\ received \subseteq received'
  BY DEF BrokerTakes, clientVars, cbVars
<1>4. PICK type \in {"PUBACK", "PUBREC", "PUBCOMP"} :
         /\ \/ toClient' = toClient \/ toClient' = Append(toClient, Reply(p, type))
         /\ \/ /\ p.type = "PUBLISH" /\ p.msg \in received'
               /\ brokerIds' = brokerIds \/ (p.qos = 2 /\ brokerIds' = brokerIds \cup {p.id})
               /\ type \in {"PUBACK", "PUBCOMP"} => brokerIds' = brokerIds
            \/ /\ p.type = "PUBREL" /\ received' = received /\ brokerIds' = brokerIds \ {p.id}
  <2>1. p.type = "PUBLISH" => p.id \notin brokerIds
    BY <1>2 DEF HonestInv, BrokerKnows, Unseen
  <2>2. CASE p.type = "PUBLISH" /\ p.qos = 0
    BY <1>1, <2>2 DEF BrokerTakes
  <2>3. CASE p.type = "PUBLISH" /\ p.qos = 1
    BY <1>1, <2>3 DEF BrokerTakes
  <2>4. CASE p.type = "PUBLISH" /\ p.qos = 2
    BY <1>1, <2>1, <2>4 DEF BrokerTakes
  <2>5. CASE p.type = "PUBREL"
    BY <1>1, <2>5 DEF BrokerTakes
  <2> QED
    BY <1>1, <2>2, <2>3, <2>4, <2>5 DEF BrokerTakes
<1>5. PICK x \in Packet : x = Reply(p, type) /\ x.id = p.id /\ x.msg = p.msg /\ x.type = type
  BY ReplyType DEF Reply, Packet
<1>6. /\ PacketsOf(toClient') \subseteq PacketsOf(toClient) \cup {x} /\ Distinct(toClient')
  <2>1. \A r \in PacketsOf(toClient) : r.id = x.id => x.id = 0
    BY <1>2, <1>5
  <2>2. Distinct(toClient)
    BY DEF HonestInv, OnePacketEach
  <2> QED
    BY <1>0, <1>4, <1>5, <2>1, <2>2, AppendChannel
<1>7. OnePacketEach'
  BY <1>2, <1>3, <1>5, <1>6 DEF HonestInv, OnePacketEach, Apart
<1>8. PacketsLinked'
  BY <1>2, <1>3, <1>5, <1>6 DEF HonestInv, PacketsLinked, Linked
<1>9. p.type = "PUBLISH" => p.id \notin brokerIds /\ (p.qos = 2 => p.id # 0)
  BY <1>2 DEF HonestInv, BrokerKnows, Unseen
<1>10. p.msg \in received'
  BY <1>2, <1>4 DEF HonestInv, BrokerKnows, Unseen
<1>11. \A r \in PacketsOf(writing) \cup PacketsOf(toBroker') \cup PacketsOf(toClient) :
          r.id \notin brokerIds => r.id \notin brokerIds'
  BY <1>2, <1>4, <1>9
<1>12. Unseen(PacketsOf(writing))' /\ Unseen(PacketsOf(toBroker))'
  BY <1>2, <1>3, <1>11 DEF HonestInv, BrokerKnows, Unseen
<1>13. Seen(PacketsOf(toClient))'
  <2>1. \A r \in PacketsOf(toClient) :
           r.msg \in received' /\ (r.type \in {"PUBACK", "PUBCOMP"} => r.id \notin brokerIds')
    BY <1>3, <1>11 DEF HonestInv, BrokerKnows, Seen
  <2>2. x.msg \in received' /\ (x.type \in {"PUBACK", "PUBCOMP"} => x.id \notin brokerIds')
    BY <1>4, <1>5, <1>9, <1>10
  <2> QED
    BY <1>6, <2>1, <2>2 DEF Seen
<1>14. connected => brokerIds' \subseteq IdsInUse
  <2>1. connected /\ p.id # 0 => p.id \in IdsInUse
    BY <1>2 DEF HonestInv, PacketsLinked, Linked, IdsInUse
  <2> QED
    BY <1>4, <1>9, <2>1 DEF HonestInv, BrokerKnows
<1>15. 0 \notin brokerIds'
  BY <1>4, <1>9 DEF HonestInv, BrokerKnows
<1>16. BrokerKnows'
  BY <1>3, <1>12, <1>13, <1>14, <1>15 DEF HonestInv, BrokerKnows, IdsInUse
<1> QED
  BY <1>7, <1>8, <1>16 DEF HonestInv

LEMMA HonestStep == TypeOK /\ HonestInv /\ [Next]_vars => HonestInv'
<1> SUFFICES ASSUME TypeOK, HonestInv, [Next]_vars PROVE HonestInv'
  OBVIOUS
<1>0. confirmed \subseteq received /\ Distinct(toBroker) /\ Distinct(toClient)
  BY DEF HonestInv, OnePacketEach, BrokerKnows
<1>1. ASSUME NEW t \in Thread,
             PublishError(t) \/ DisconnectClosed(t) \/ DisconnectDrained(t) \/ DisconnectTimedOut(t)
      PROVE  HonestInv'
  <2>1. CloseSession /\ UNCHANGED <<toBroker, brokerVars, confirmed>>
    BY <1>1 DEF PublishError, DisconnectClosed, DisconnectDrained, DisconnectTimedOut, DisconnectClose, cbVars
  <2> QED
    BY <1>0, <2>1, CloseHonest
<1>2. ASSUME UNCHANGED <<connected, outboundMsgs, writing, toBroker, toClient, brokerVars, confirmed>>
      PROVE  HonestInv'
  <2>1. ListKept
    BY <1>2 DEF ListKept
  <2> QED
    BY <1>0, <1>2, <2>1, FewerPackets
<1>3. ASSUME NEW t \in Thread,
             \/ \E m \in Msg : Call(t, m)
             \/ PublishRefused(t) \/ PublishBlocks(t) \/ WriteFinished(t)
             \/ WaitDisconnected(t) \/ WaitCompleted(t) \/ WaitTimedOut(t)
             \/ DisconnectStart(t) \/ StopWaited(t)
      PROVE  HonestInv'
  BY <1>2, <1>3
     DEF Call, PublishRefused, PublishBlocks, WriteFinished, WaitDisconnected, WaitCompleted,
         WaitTimedOut, ReturnFromWait, DisconnectStart, StopWaited, clientVars, netVars, cbVars
<1>4. ASSUME NEW t \in Thread, AppStep(t) PROVE HonestInv'
  BY <1>1, <1>3, <1>4, PublishHonest DEF AppStep, Proceed
<1>5. CASE RunSelect \/ RunStops \/ RunGoesOn \/ TcpGivesUp \/ UNCHANGED vars
  BY <1>2, <1>5 DEF RunSelect, RunStops, RunGoesOn, TcpGivesUp, vars, clientVars, netVars, cbVars
<1>6. CASE RunLosesConnection
  <2>1. CloseSession /\ UNCHANGED <<toBroker, brokerVars, confirmed>>
    BY <1>6 DEF RunLosesConnection, LoseConnection
  <2> QED
    BY <1>0, <2>1, CloseHonest
<1>7. CASE NetworkFails
  <2>1. /\ toBroker' = <<>> /\ toClient' \in {<<>>, toClient}
        /\ UNCHANGED <<clientVars, writing, brokerVars, confirmed>>
    BY <1>7 DEF NetworkFails, cbVars
  <2>2. ListKept /\ connected' = connected
    BY <2>1 DEF ListKept, clientVars
  <2>3. /\ PacketsOf(toBroker') \subseteq PacketsOf(toBroker) /\ Distinct(toBroker')
        /\ PacketsOf(toClient') \subseteq PacketsOf(toClient) /\ Distinct(toClient')
    BY <1>0, <2>1, EmptyChannel
  <2> QED
    BY <1>0, <2>1, <2>2, <2>3, FewerPackets
<1> QED
  BY <1>4, <1>5, <1>6, <1>7, WriteHonest, IdleHonest, AckHonest, PubrecHonest, BrokerHonest
     DEF Next, RunStep, Terminated

LEMMA HonestInvariant == Spec => []HonestInv
  BY HonestInit, HonestStep, TypeCorrect, PTL DEF Spec

-----------------------------------------------------------------------------
(* The callers *)

\* An acknowledgement that ends an entry confirms the message of that entry.
LEMMA AckIsOwn ==
  ASSUME TypeOK, UniqueIds, HonestInv, connected, toClient # <<>>, NEW e \in EntryOf(Head(toClient))
  PROVE  e.msg = Head(toClient).msg
<1>1. Head(toClient) \in PacketsOf(toClient)
  BY HeadIsLast
<1>2. e \in outboundMsgs /\ e.msgid = Head(toClient).id /\ e.msgid # 0
  BY SessionAssumption DEF EntryOf, TypeOK, ClientTypeOK, Message, MsgId
<1>3. PICK f \in outboundMsgs : f.msgid = Head(toClient).id /\ f.msg = Head(toClient).msg
  BY <1>1, <1>2 DEF HonestInv, PacketsLinked, Linked
<1> QED
  BY <1>2, <1>3 DEF UniqueIds

\* What happens to the entry of a message in a step: it stays, with its id, unless
\* the message is confirmed or the session closed.
Followed ==
    \A e \in outboundMsgs :
        \/ \E f \in outboundMsgs' : f.msgid = e.msgid /\ f.msg = e.msg
        \/ e.msg \in confirmed'
        \/ ~connected'

LEMMA FollowedStep ==
  TypeOK /\ UniqueIds /\ HonestInv /\ [Next]_vars => Followed /\ confirmed \subseteq confirmed' /\ (connected' => connected)
<1> SUFFICES ASSUME TypeOK, UniqueIds, HonestInv, [Next]_vars
             PROVE  Followed /\ confirmed \subseteq confirmed' /\ (connected' => connected)
  OBVIOUS
<1>1. ASSUME outboundMsgs \subseteq outboundMsgs' \/ ~connected', confirmed \subseteq confirmed', connected' => connected
      PROVE  Followed /\ confirmed \subseteq confirmed' /\ (connected' => connected)
  BY <1>1 DEF Followed
<1>2. ASSUME NEW t \in Thread, AppStep(t)
      PROVE  /\ outboundMsgs \subseteq outboundMsgs' \/ ~connected'
             /\ confirmed' = confirmed /\ (connected' => connected)
  <2>1. CASE PublishSent(t) \/ PublishInterrupted(t)
    BY <2>1 DEF PublishSent, PublishInterrupted, StoreMessage, CanStart, cbVars
  <2>2. CASE PublishError(t) \/ DisconnectClosed(t) \/ DisconnectDrained(t) \/ DisconnectTimedOut(t)
    BY <2>2 DEF PublishError, DisconnectClosed, DisconnectDrained, DisconnectTimedOut,
                DisconnectClose, CloseSession, cbVars
  <2>3. CASE \/ \E m \in Msg : Call(t, m)
             \/ PublishRefused(t) \/ PublishBlocks(t) \/ WriteFinished(t)
             \/ WaitDisconnected(t) \/ WaitCompleted(t) \/ WaitTimedOut(t)
             \/ DisconnectStart(t) \/ StopWaited(t)
    BY <2>3
       DEF Call, PublishRefused, PublishBlocks, WriteFinished, WaitDisconnected, WaitCompleted,
           WaitTimedOut, ReturnFromWait, DisconnectStart, StopWaited, clientVars, cbVars
  <2> QED
    BY <1>2, <2>1, <2>2, <2>3 DEF AppStep, Proceed
<1>3. CASE CycleIdle \/ CycleReadError
  <2>1. PICK rc : EndCycle(outboundMsgs, toBroker, writing, toClient, rc) /\ UNCHANGED confirmed
    BY <1>3 DEF CycleIdle, CycleReadError
  <2> QED
    BY <1>1, <2>1, EndCycleCases DEF CloseSession
<1>4. CASE HandlePuback \/ HandlePubcomp
  <2>1. PICK D, rc :
           D \subseteq EntryOf(Head(toClient)) /\ EndCycle(outboundMsgs \ D, toBroker, writing, Tail(toClient), rc)
    BY <1>4 DEF HandlePuback, HandlePubcomp
  <2>2. toClient # <<>> /\ confirmed' = confirmed \cup {Head(toClient).msg}
    BY <1>4 DEF HandlePuback, HandlePubcomp, Reading
  <2>3. connected => \A e \in D : e.msg \in confirmed'
    BY <2>1, <2>2, AckIsOwn
  <2>4. \/ outboundMsgs' = outboundMsgs \ D /\ connected' = connected
        \/ connected /\ connected' = FALSE
    BY <2>1, EndCycleCases DEF CloseSession
  <2> QED
    BY <2>2, <2>3, <2>4 DEF Followed
<1>5. CASE HandlePubrec
  <2>1. PICK W, tb, wr, rc : W \subseteq outboundMsgs /\ EndCycle(Moved(W), tb, wr, Tail(toClient), rc)
    BY <1>5, PubrecCycle
  <2>2. \A e \in outboundMsgs : /\ [e EXCEPT !.next = "PUBCOMP"].msgid = e.msgid
                                /\ [e EXCEPT !.next = "PUBCOMP"].msg = e.msg
    BY DEF TypeOK, ClientTypeOK, Message
  <2>3. \/ outboundMsgs' = Moved(W) /\ connected' = connected
        \/ connected /\ connected' = FALSE
    BY <2>1, EndCycleCases DEF CloseSession
  <2>4. confirmed' = confirmed
    BY <1>5 DEF HandlePubrec
  <2>5. ASSUME outboundMsgs' = Moved(W) PROVE Followed
    <3>1. ASSUME NEW e \in outboundMsgs
          PROVE  \E f \in outboundMsgs' : f.msgid = e.msgid /\ f.msg = e.msg
      <4>1. CASE e \in W
        BY <2>2, <2>5, <4>1 DEF Moved
      <4>2. CASE e \notin W
        BY <2>5, <4>2 DEF Moved
      <4> QED
        BY <4>1, <4>2
    <3> QED
      BY <3>1 DEF Followed
  <2> QED
    BY <2>3, <2>4, <2>5 DEF Followed
<1>6. CASE RunLosesConnection
  BY <1>1, <1>6 DEF RunLosesConnection, LoseConnection, CloseSession
<1>7. CASE \/ RunSelect \/ ContinueWrite \/ RunStops \/ RunGoesOn
           \/ BrokerStep \/ NetworkFails \/ TcpGivesUp \/ UNCHANGED vars
  <2>1. UNCHANGED <<connected, outboundMsgs, confirmed>>
    BY <1>7 DEF RunSelect, ContinueWrite, RunStops, RunGoesOn, BrokerStep, BrokerTakes, NetworkFails, TcpGivesUp,
                vars, clientVars, cbVars
  <2> QED
    BY <1>1, <2>1
<1> QED
  BY <1>1, <1>2, <1>3, <1>4, <1>5, <1>6, <1>7 DEF Next, RunStep, Terminated

\* A stored message leaves the list because the broker's last acknowledgement
\* confirmed it, or because the whole session closed: acknowledgements are matched
\* by id, and ids are used again, but never while a packet still carries them.
THEOREM NothingDropped == Spec => NoSilentDrop
<1>1. Followed => \A e \in outboundMsgs :
                     \/ e.msg \in {f.msg : f \in outboundMsgs'}
                     \/ e.msg \in confirmed'
                     \/ ~connected'
  BY DEF Followed
<1>2. TypeOK /\ UniqueIds /\ HonestInv /\ [Next]_vars => Followed
  BY FollowedStep
<1> QED
  BY <1>1, <1>2, TypeCorrect, IdsUnique, HonestInvariant, PTL DEF Spec, NoSilentDrop

\* A thread that begins no wait can rely on what it relied on before.
LEMMA CallerKeeps ==
  ASSUME Followed, confirmed \subseteq confirmed', connected' => connected, qos' = qos,
         NEW t \in Thread, CallerOK(t),
         \/ pc'[t] \notin {"stopping", "writing", "waiting"}
         \/ pc'[t] = pc[t] /\ cur'[t] = cur[t] /\ token'[t] = token[t]
  PROVE  CallerOK(t)'
<1>1. pc'[t] = "stopping" => ~connected'
  BY DEF CallerOK
<1>2. ASSUME connected', pc'[t] = "writing", qos'[cur'[t]] > 0
      PROVE  cur'[t] \in confirmed' \/ HasEntry(cur[t])'
  BY <1>2 DEF CallerOK, HasEntry, Followed
<1>3. ASSUME connected', pc'[t] = "waiting", qos'[cur'[t]] > 0
      PROVE  cur'[t] \in confirmed' \/ HasEntryAs(cur[t], token[t])'
  BY <1>3 DEF CallerOK, HasEntryAs, Followed
<1> QED
  BY <1>1, <1>2, <1>3 DEF CallerOK

LEMMA CallerInit == Init => CallerInv
  BY DEF Init, CallerInv, CallerOK

LEMMA CallerStep ==
  TypeOK /\ UniqueIds /\ HonestInv /\ CallerInv /\ [Next]_vars => CallerInv'
<1> SUFFICES ASSUME TypeOK, UniqueIds, HonestInv, CallerInv, [Next]_vars PROVE CallerInv'
  OBVIOUS
<1>0. /\ pc \in [Thread -> Pc] /\ cur \in [Thread -> Msg \cup {NoMsg}]
      /\ token \in [Thread -> Token] /\ qos \in [Msg -> 0..2]
      /\ result \in [Msg -> {"new", "called", "refused", "SUCCESS", "DISCONNECTED", "FAILURE"}]
      /\ \A t \in Thread : CallerOK(t)
      /\ \A m \in Msg : result[m] = "SUCCESS" /\ qos[m] > 0 => m \in confirmed
  BY DEF TypeOK, AppTypeOK, CallerInv
<1>1. Followed /\ confirmed \subseteq confirmed' /\ (connected' => connected)
  BY FollowedStep
<1>2. qos' = qos
  BY DEF Next, AppStep, Proceed, RunStep, Terminated, vars, appVars, Call, ExitProcess, PublishRefused,
         PublishBlocks, PublishSent, PublishInterrupted, PublishError, WriteFinished,
         WaitDisconnected, WaitCompleted, WaitTimedOut, ReturnFromWait,
         DisconnectStart, DisconnectClosed, DisconnectDrained, DisconnectTimedOut, DisconnectClose,
         StopWaited, RunSelect, ContinueWrite, CycleIdle, CycleReadError, HandlePuback, HandlePubrec,
         HandlePubcomp, EndCycle, RunStops, RunLosesConnection, RunGoesOn, BrokerStep, BrokerTakes,
         NetworkFails, TcpGivesUp
\* No thread but t moves, and t is right in its new place.
<1>3. ASSUME NEW t \in Thread, CallerOK(t)',
             \A u \in Thread \ {t} : pc'[u] = pc[u] /\ cur'[u] = cur[u] /\ token'[u] = token[u],
             \A m \in Msg : result'[m] = "SUCCESS" /\ qos[m] > 0 => result[m] = "SUCCESS" \/ m \in confirmed'
      PROVE  CallerInv'
  <2>1. \A u \in Thread : CallerOK(u)'
    <3> SUFFICES ASSUME NEW u \in Thread, u # t PROVE CallerOK(u)'
      BY <1>3
    <3>1. CallerOK(u) /\ pc'[u] = pc[u] /\ cur'[u] = cur[u] /\ token'[u] = token[u]
      BY <1>0, <1>3
    <3> QED
      BY <1>1, <1>2, <3>1, CallerKeeps
  <2> QED
    BY <1>0, <1>1, <1>2, <1>3, <2>1 DEF CallerInv
\* The threads all stay where they are, or leave.
<1>4. ASSUME \A t \in Thread : \/ pc'[t] = "exited"
                               \/ pc'[t] = pc[t] /\ cur'[t] = cur[t] /\ token'[t] = token[t],
             \A m \in Msg : result'[m] = "SUCCESS" => result[m] = "SUCCESS"
      PROVE  CallerInv'
  <2>1. \A t \in Thread : CallerOK(t)'
    BY <1>0, <1>1, <1>2, <1>4, CallerKeeps
  <2> QED
    BY <1>0, <1>1, <1>2, <1>4, <2>1 DEF CallerInv
<1>5. ASSUME NEW t \in Thread, ExitProcess(t) PROVE CallerInv'
  BY <1>0, <1>4, <1>5 DEF ExitProcess
<1>6. ASSUME NEW t \in Thread, (\E m \in Msg : Call(t, m)) \/ PublishBlocks(t) \/ DisconnectStart(t)
      PROVE  CallerInv'
  <2>1. /\ pc' = [pc EXCEPT ![t] = pc'[t]] /\ pc'[t] \in {"publishing", "blocked", "draining"}
        /\ \A u \in Thread \ {t} : cur'[u] = cur[u] /\ token'[u] = token[u]
        /\ \A m \in Msg : result'[m] = "SUCCESS" => result[m] = "SUCCESS"
    BY <1>0, <1>6 DEF Call, PublishBlocks, DisconnectStart
  <2>2. CallerOK(t)'
    BY <1>0, <1>1, <1>2, <2>1, CallerKeeps
  <2> QED
    BY <1>0, <1>3, <2>1, <2>2
<1>7. ASSUME NEW t \in Thread, PublishSent(t) \/ PublishInterrupted(t) PROVE CallerInv'
  <2>1. cur[t] \in Msg /\ connected
    BY <1>7 DEF PublishSent, PublishInterrupted, CanStart, TypeOK, CallTypeOK
  <2>2. PICK m \in Msg : m = cur[t]
    BY <2>1
  <2>3. PICK id \in IdsFor(m) :
           /\ StoreMessage(m, id)
           /\ \/ pc' = [pc EXCEPT ![t] = "waiting"] /\ ReturnToken(t, {id})
              \/ pc' = [pc EXCEPT ![t] = "writing"] /\ UNCHANGED token
           /\ UNCHANGED <<cur, result>>
    BY <1>7, <2>2 DEF PublishSent, PublishInterrupted
  <2>4. id # 0 => HasEntryAs(m, id)'
    BY <2>1, <2>2, <2>3, FreshPacket
  <2>5. qos[m] > 0 => id # 0
    BY IdsForType DEF TypeOK, AppTypeOK, MsgId
  <2>6. \A u \in Thread \ {t} : pc'[u] = pc[u] /\ cur'[u] = cur[u] /\ token'[u] = token[u]
    BY <1>0, <2>3 DEF ReturnToken
  <2>7. cur'[t] = m /\ \/ pc'[t] = "waiting" /\ (qos[m] > 0 => token'[t] = id)
                       \/ pc'[t] = "writing"
    BY <1>0, <2>2, <2>3 DEF ReturnToken
  <2>8. CallerOK(t)'
    BY <1>2, <2>4, <2>5, <2>7 DEF CallerOK, HasEntry, HasEntryAs
  <2> QED
    BY <1>3, <2>3, <2>6, <2>8
<1>8. ASSUME NEW t \in Thread,
             PublishError(t) \/ DisconnectClosed(t) \/ DisconnectDrained(t) \/ DisconnectTimedOut(t)
      PROVE  CallerInv'
  <2>1. /\ ~connected' /\ pc' = [pc EXCEPT ![t] = "stopping"] /\ UNCHANGED <<cur, result>>
        /\ \A u \in Thread \ {t} : token'[u] = token[u]
    BY <1>0, <1>8 DEF PublishError, DisconnectClosed, DisconnectDrained, DisconnectTimedOut,
                      DisconnectClose, CloseSession
  <2>2. CallerOK(t)'
    BY <2>1 DEF CallerOK
  <2> QED
    BY <1>0, <1>3, <2>1, <2>2
<1>9. ASSUME NEW t \in Thread, WriteFinished(t) PROVE CallerInv'
  <2>1. CASE ExitProcess(t)
    BY <1>5, <2>1
  <2> DEFINE stored == {e.msgid : e \in {f \in outboundMsgs : f.msg = cur[t]}}
  <2>2. CASE /\ ReturnToken(t, IF stored = {} THEN Token ELSE stored)
             /\ pc' = [pc EXCEPT ![t] = "waiting"] /\ UNCHANGED <<cur, result>>
    <3>1. /\ \A u \in Thread \ {t} : pc'[u] = pc[u] /\ cur'[u] = cur[u] /\ token'[u] = token[u]
          /\ pc'[t] = "waiting" /\ pc[t] = "writing"
      BY <1>0, <1>9, <2>2 DEF ReturnToken, WriteFinished
    <3>2. ASSUME connected, qos[cur[t]] > 0
          PROVE  cur[t] \in confirmed \/ HasEntryAs(cur[t], token'[t])
      <4>1. cur[t] \in confirmed \/ HasEntry(cur[t])
        BY <1>0, <3>1, <3>2 DEF CallerOK
      <4>2. CASE HasEntry(cur[t])
        <5>1. token'[t] \in stored
          BY <1>0, <2>2, <3>2, <4>2 DEF ReturnToken, HasEntry
        <5> QED
          BY <5>1 DEF HasEntryAs
      <4> QED
        BY <4>1, <4>2
    <3>3. UNCHANGED <<outboundMsgs, connected, confirmed>>
      BY <1>9 DEF WriteFinished, clientVars, cbVars
    <3>4. CallerOK(t)'
      BY <1>2, <2>2, <3>1, <3>2, <3>3 DEF CallerOK, HasEntryAs
    <3> QED
      BY <1>3, <2>2, <3>1, <3>4
  <2> QED
    BY <1>9, <2>1, <2>2 DEF WriteFinished
<1>10. ASSUME NEW t \in Thread, WaitDisconnected(t) \/ WaitCompleted(t) \/ WaitTimedOut(t)
       PROVE  CallerInv'
  <2>1. PICK rc \in {"SUCCESS", "DISCONNECTED", "FAILURE"} :
           /\ ReturnFromWait(t, rc)
           /\ rc = "SUCCESS" => WaitCompleted(t)
    BY <1>10 DEF WaitDisconnected, WaitCompleted, WaitTimedOut
  <2>2. /\ \A u \in Thread \ {t} : pc'[u] = pc[u] /\ cur'[u] = cur[u] /\ token'[u] = token[u]
        /\ pc'[t] = "idle"
    BY <1>0, <2>1 DEF ReturnFromWait
  <2>3. CallerOK(t)'
    BY <1>0, <1>1, <1>2, <2>2, CallerKeeps
  <2>4. ASSUME NEW m \in Msg, result'[m] = "SUCCESS", qos[m] > 0, result[m] # "SUCCESS"
        PROVE  m \in confirmed'
    <3>1. m = cur[t] /\ rc = "SUCCESS"
      BY <1>0, <2>1, <2>4 DEF ReturnFromWait
    <3>2. pc[t] = "waiting" /\ connected /\ token[t] \notin IdsInUse
      BY <2>1, <3>1 DEF WaitCompleted
    <3>3. ~ HasEntryAs(m, token[t])
      BY <3>2 DEF HasEntryAs, IdsInUse
    <3> QED
      BY <1>0, <1>1, <2>4, <3>1, <3>2, <3>3 DEF CallerOK
  <2> QED
    BY <1>3, <2>2, <2>3, <2>4
<1>11. ASSUME NEW t \in Thread, StopWaited(t) PROVE CallerInv'
  <2>1. CASE ExitProcess(t)
    BY <1>5, <2>1
  <2>2. CASE /\ pc' \in {[pc EXCEPT ![t] = "waiting"], [pc EXCEPT ![t] = "done"]}
             /\ UNCHANGED <<cur, token, result>>
    <3>1. /\ \A u \in Thread \ {t} : pc'[u] = pc[u] /\ cur'[u] = cur[u] /\ token'[u] = token[u]
          /\ pc'[t] \in {"waiting", "done"}
      BY <1>0, <2>2
    <3>2. ~connected'
      BY <1>0, <1>1, <1>11 DEF StopWaited, CallerOK
    <3>3. CallerOK(t)'
      BY <3>1, <3>2 DEF CallerOK
    <3> QED
      BY <1>3, <2>2, <3>1, <3>3
  <2> QED
    BY <1>11, <2>1, <2>2 DEF StopWaited
<1>12. CASE RunStep \/ BrokerStep \/ NetworkFails \/ TcpGivesUp \/ UNCHANGED vars
  <2>1. UNCHANGED appVars
    BY <1>12 DEF RunStep, RunSelect, ContinueWrite, CycleIdle, CycleReadError, HandlePuback, HandlePubrec,
                 HandlePubcomp, EndCycle, RunStops, RunLosesConnection, RunGoesOn,
                 BrokerStep, BrokerTakes, NetworkFails, TcpGivesUp, vars
  <2> QED
    BY <1>4, <2>1 DEF appVars
<1> QED
  BY <1>5, <1>6, <1>7, <1>8, <1>9, <1>10, <1>11, <1>12
     DEF Next, AppStep, Proceed, Terminated, PublishRefused

LEMMA CallerInvariant == Spec => []CallerInv
  BY CallerInit, CallerStep, TypeCorrect, IdsUnique, HonestInvariant, PTL DEF Spec

\* A publication that was answered SUCCESS is one that deliveryComplete was called
\* for, and the broker has whatever deliveryComplete was called for: although the
\* wait only asks whether an id is in use, and although publish5 may return the id
\* of somebody else's message.
THEOREM SuccessHonest == Spec => []SuccessIsHonest
<1>1. HonestInv /\ CallerInv => SuccessIsHonest
  BY DEF HonestInv, BrokerKnows, CallerInv, SuccessIsHonest
<1> QED
  BY <1>1, HonestInvariant, CallerInvariant, PTL
=============================================================================
