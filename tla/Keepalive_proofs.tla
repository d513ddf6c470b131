-------------------------- MODULE Keepalive_proofs --------------------------
(***************************************************************************)
(* Theorems about Keepalive, for all intervals, packets and room in the    *)
(* kernel, and every base of digits a byte can hold.                       *)
(*                                                                         *)
(* The bounds on silence (GapBound, SilenceBound) are not inductive: a     *)
(* silent second is allowed by the time that has passed since              *)
(* MQTTClient_retry last looked.  LinkInv measures every age against that  *)
(* time (last) and, while a ping is outstanding, against the age of the    *)
(* ping.                                                                   *)
(*                                                                         *)
(* The streams (TypeOK, WriteFramed, ReadFramed, OnePing) need what        *)
(* FlattenSeq and Encode compute for sequences and numbers of any size.    *)
(* Both are recursive functions: that such a function exists is shown by   *)
(* putting it together from its restrictions to 0..n, and facts about it   *)
(* by induction (Induct).                                                  *)
(*                                                                         *)
(* WriteInv says what the pending write still owes.  For reading, IndexInv *)
(* and KeptInv say that what is kept is the start of the first packet, and *)
(* DecodeInv that value, multiplier and the digits still to come make its  *)
(* length.  PingInv follows a PINGREQ and its answer.                      *)
(***************************************************************************)
EXTENDS Keepalive, SequenceTheorems, FiniteSetTheorems, WellFoundedInduction, TLAPS

\* The shape of the variables the argument looks at.
LinkType ==
    /\ connected \in BOOLEAN /\ blocked \in BOOLEAN /\ looked \in BOOLEAN
    /\ ping_outstanding \in {0, 1}
    /\ lastSent \in Nat /\ lastReceived \in Nat /\ lastPing \in Nat
    /\ last \in 0..RetryLoopInterval + 1
    /\ DOMAIN pending = {"listed", "bufs", "bytes"} /\ pending.listed \in BOOLEAN

\* A cycle looks at the clock, so an interval that is over is noticed before the next second.
LookedInv == looked => last <= RetryLoopInterval

\* What was sent: counted from the last look, or from the ping that was sent since.
SentInv ==
    /\ connected /\ noPendingWrites /\ ping_outstanding = 0
         => lastSent <= KeepAliveInterval - 1 + last
    /\ connected /\ ping_outstanding = 1
         => lastSent <= lastPing /\ lastPing <= KeepAliveInterval - 1 + last

\* What was received: the same, and a ping found at most one Span of silence.
ReceivedInv ==
    /\ connected /\ ~blocked /\ ping_outstanding = 0
         => lastReceived <= KeepAliveInterval - 1 + last
    /\ connected /\ ~blocked /\ ping_outstanding = 1 => lastReceived <= lastPing + Span
    /\ at = "handle" => lastReceived = 0

\* A closed session has no ping outstanding; blocked remembers every incomplete write.
ClosedInv ==
    /\ ~connected => ping_outstanding = 0
    /\ ~blocked => noPendingWrites

LinkInv == LinkType /\ LookedInv /\ SentInv /\ ReceivedInv /\ ClosedInv

-----------------------------------------------------------------------------
\* What the operations on the stream do to the pending write.
LEMMA PutPending ==
  ASSUME NEW bufs, NEW complete \in BOOLEAN, Putdatas(bufs, complete)
  PROVE  /\ DOMAIN pending' = {"listed", "bufs", "bytes"}
         /\ pending'.listed = ~complete
BY DEF Putdatas, NoWrite

LEMMA ContinuePending ==
  ASSUME NEW done \in BOOLEAN, ContinueWrite(done), LinkType
  PROVE  /\ DOMAIN pending' = {"listed", "bufs", "bytes"}
         /\ pending'.listed = ~done
         /\ ~noPendingWrites
<1>1. CASE done
  BY <1>1 DEF ContinueWrite, NoWrite
<1>2. CASE ~done
  <2>1. pending' = [pending EXCEPT !.bytes = pending.bytes + (IF broken THEN 0 ELSE Fits(Rest(pending)))]
    BY <1>2 DEF ContinueWrite
  <2>2. DOMAIN pending' = DOMAIN pending /\ pending'.listed = pending.listed
    BY <2>1 DEF LinkType
  <2>3. ~noPendingWrites
    BY DEF ContinueWrite
  <2> QED BY <1>2, <2>2, <2>3 DEF LinkType, noPendingWrites
<1> QED BY <1>1, <1>2

\* A session that is closed satisfies every bound.
LEMMA CloseKeeps ==
  ASSUME LinkType, CloseSession, Note,
         looked' \in BOOLEAN, last' \in 0..RetryLoopInterval + 1,
         looked' => last' <= RetryLoopInterval
  PROVE  LinkInv'
<1>1. pending' = [listed |-> FALSE, bufs |-> <<>>, bytes |-> 0]
  BY DEF CloseSession, CloseSocket, NoWrite
<1>2. blocked' \in BOOLEAN /\ (~blocked' => noPendingWrites')
  BY DEF Note, LinkType, noPendingWrites
<1> QED
  BY <1>1, <1>2 DEF CloseSession, LinkInv, LinkType, LookedInv, SentInv, ReceivedInv, ClosedInv

-----------------------------------------------------------------------------
\* The history variable: an incomplete write is never overlooked, and it is forgotten
\* only when a connection begins or a packet is received.
LEMMA NoteKeeps ==
  ASSUME LinkType, Note
  PROVE  /\ blocked' \in BOOLEAN
         /\ ~blocked' => noPendingWrites'
         /\ ~blocked' => \/ ~blocked
                         \/ at = "data" /\ at' = "handle"
                         \/ connected' /\ ~connected
BY DEF Note, LinkType, noPendingWrites

\* The application: a write begins only when none is pending, and a completed one
\* starts the silence anew.
LEMMA PublishKeeps ==
  ASSUME LinkInv, KeepaliveAssumption, NEW bufs, Publish(bufs), Note
  PROVE  LinkInv'
<1>1. CASE Putdatas(bufs, TRUE) /\ lastSent' = 0
           /\ UNCHANGED <<readVars, peerVars, broken, connected, ping_outstanding,
                          lastReceived, lastPing, last>>
  <2>1. DOMAIN pending' = {"listed", "bufs", "bytes"} /\ pending'.listed = FALSE
    BY <1>1, PutPending
  <2>2. LinkType'
    BY <1>1, <2>1, NoteKeeps DEF Publish, LinkInv, LinkType
  <2>3. LookedInv' /\ ClosedInv'
    BY <1>1, NoteKeeps DEF Publish, LinkInv, LookedInv, ClosedInv
  <2>4. SentInv'
    BY <1>1, <2>2 DEF Publish, LinkInv, LinkType, SentInv, KeepaliveAssumption
  <2>5. ReceivedInv'
    BY <1>1, <2>1, NoteKeeps DEF Publish, MutexFree, LinkInv, ReceivedInv
  <2> QED BY <2>2, <2>3, <2>4, <2>5 DEF LinkInv
<1>2. CASE Putdatas(bufs, FALSE)
           /\ UNCHANGED <<readVars, peerVars, broken, connected, ping_outstanding, ages>>
  <2>1. DOMAIN pending' = {"listed", "bufs", "bytes"} /\ pending'.listed = TRUE
    BY <1>2, PutPending
  <2> QED
    BY <1>2, <2>1, NoteKeeps DEF Publish, MutexFree, LinkInv, LinkType, LookedInv, SentInv,
       ReceivedInv, ClosedInv, ages, noPendingWrites
<1>3. CASE CloseSession /\ UNCHANGED last
  BY <1>3, CloseKeeps DEF Publish, LinkInv, LinkType, LookedInv
<1> QED BY <1>1, <1>2, <1>3 DEF Publish

LEMMA ConnectKeeps ==
  ASSUME LinkInv, KeepaliveAssumption, Connect, Note
  PROVE  LinkInv'
BY NoteKeeps DEF Connect, LinkInv, LinkType, LookedInv, SentInv, ReceivedInv, ClosedInv,
   KeepaliveAssumption, streamVars, writeVars, noPendingWrites

LEMMA DisconnectKeeps ==
  ASSUME LinkInv, Disconnect, Note
  PROVE  LinkInv'
BY CloseKeeps DEF Disconnect, LinkInv, LinkType, LookedInv

-----------------------------------------------------------------------------
\* The background thread.  Only Select and Retry write; only Factory and Handle receive.
LEMMA SelectKeeps ==
  ASSUME LinkInv, KeepaliveAssumption, Select, Note
  PROVE  LinkInv'
<1>1. at' # "handle" /\ at = "select"
  BY DEF Select
<1>2. CASE UNCHANGED <<writeVars, lastSent>>
  BY <1>1, <1>2, NoteKeeps DEF Select, LinkInv, LinkType, LookedInv, SentInv, ReceivedInv,
     ClosedInv, writeVars, noPendingWrites
<1>3. CASE ContinueWrite(TRUE) /\ lastSent' = 0
  <2>1. DOMAIN pending' = {"listed", "bufs", "bytes"} /\ pending'.listed = FALSE
    BY <1>3, ContinuePending DEF LinkInv
  <2>2. LinkType'
    BY <1>3, <2>1, NoteKeeps DEF Select, LinkInv, LinkType
  <2>3. LookedInv' /\ ClosedInv'
    BY NoteKeeps DEF Select, LinkInv, LookedInv, ClosedInv
  <2>4. SentInv'
    BY <1>3, <2>2 DEF Select, LinkInv, LinkType, SentInv, KeepaliveAssumption
  <2>5. ReceivedInv'
    BY <1>1, NoteKeeps DEF Select, LinkInv, ReceivedInv
  <2> QED
    BY <1>1, <1>3, <2>2, <2>3, <2>4, <2>5 DEF LinkInv
<1>4. CASE ContinueWrite(FALSE) /\ UNCHANGED lastSent
  <2>1. DOMAIN pending' = {"listed", "bufs", "bytes"} /\ pending'.listed = TRUE
    BY <1>4, ContinuePending DEF LinkInv
  <2> QED
    BY <1>1, <1>4, <2>1, NoteKeeps DEF Select, LinkInv, LinkType, LookedInv, SentInv,
       ReceivedInv, ClosedInv, noPendingWrites
<1> QED BY <1>2, <1>3, <1>4 DEF Select

LEMMA ReadKeeps ==
  ASSUME LinkInv, KeepaliveAssumption, Factory \/ Gone \/ Handle, Note
  PROVE  LinkInv'
<1>1. CASE Gone
  BY <1>1, NoteKeeps DEF Gone, LinkInv, LinkType, LookedInv, SentInv, ReceivedInv, ClosedInv,
     writeVars, ages, noPendingWrites
<1>2. CASE Factory
  <2>1. lastReceived' \in Nat /\ (lastReceived' = lastReceived \/ lastReceived' = 0)
    BY <1>2 DEF Factory, LinkInv, LinkType
  <2>2. at' = "handle" => lastReceived' = 0
    BY <1>2 DEF Factory
  <2> QED
    BY <1>2, <2>1, <2>2, NoteKeeps DEF Factory, LinkInv, LinkType, LookedInv, SentInv,
       ReceivedInv, ClosedInv, KeepaliveAssumption, writeVars, noPendingWrites, Span
<1>3. CASE Handle
  <2>1. ping_outstanding' \in {0, ping_outstanding}
    BY <1>3 DEF Handle
  <2> QED
    BY <1>3, <2>1, NoteKeeps DEF Handle, LinkInv, LinkType, LookedInv, SentInv, ReceivedInv,
       ClosedInv, KeepaliveAssumption, writeVars, ages, noPendingWrites
<1> QED BY <1>1, <1>2, <1>3

\* MQTTProtocol_keepalive is what makes the bounds true: after it no age has reached the
\* interval, unless a ping is outstanding or a write is incomplete.
LEMMA KeepaliveKeeps ==
  ASSUME LinkInv, KeepaliveAssumption, keepalive, Note,
         at = "retry", at' # "handle", last' = 0, looked' = TRUE
  PROVE  LinkInv'
<1>1. CASE CloseSession
  BY <1>1, CloseKeeps DEF LinkInv, LinkType, KeepaliveAssumption
<1>2. CASE Idle /\ ~connected
  BY <1>2, NoteKeeps DEF Idle, LinkInv, LinkType, LookedInv, SentInv, ReceivedInv, ClosedInv,
     KeepaliveAssumption, writeVars, noPendingWrites
<1>3. CASE Idle /\ connected /\ ping_outstanding = 1 /\ ~(lastPing >= KeepAliveInterval)
  BY <1>3, NoteKeeps DEF Idle, LinkInv, LinkType, LookedInv, SentInv, ReceivedInv, ClosedInv,
     KeepaliveAssumption, writeVars, noPendingWrites
<1>4. CASE /\ Idle /\ connected /\ ping_outstanding = 0
           /\ \/ ~(lastSent >= KeepAliveInterval) /\ ~(lastReceived >= KeepAliveInterval)
              \/ ~noPendingWrites
  BY <1>4, NoteKeeps DEF Idle, LinkInv, LinkType, LookedInv, SentInv, ReceivedInv, ClosedInv,
     KeepaliveAssumption, writeVars, noPendingWrites
<1>5. CASE /\ connected /\ ping_outstanding = 0
           /\ Putdatas(PingReq, TRUE)
           /\ ping_outstanding' = 1 /\ lastSent' = 0 /\ lastPing' = 0
           /\ UNCHANGED <<queue, peerVars, broken, connected, lastReceived>>
  <2>1. DOMAIN pending' = {"listed", "bufs", "bytes"} /\ pending'.listed = FALSE
    BY <1>5, PutPending
  <2>2. lastReceived <= Span \/ blocked
    BY <1>5 DEF LinkInv, LinkType, ReceivedInv, Span, KeepaliveAssumption
  <2>3. LinkType'
    <3>1. last' \in 0..RetryLoopInterval + 1
      BY KeepaliveAssumption
    <3>2. connected' \in BOOLEAN /\ blocked' \in BOOLEAN /\ looked' \in BOOLEAN
      BY <1>5, NoteKeeps DEF LinkInv, LinkType
    <3>3. lastSent' \in Nat /\ lastReceived' \in Nat /\ lastPing' \in Nat
      BY <1>5 DEF LinkInv, LinkType
    <3> QED BY <1>5, <2>1, <3>1, <3>2, <3>3 DEF LinkType
  <2>4. LookedInv' /\ ClosedInv'
    BY <1>5, NoteKeeps DEF LinkInv, LookedInv, ClosedInv, KeepaliveAssumption
  <2>5. SentInv'
    BY <1>5 DEF SentInv, KeepaliveAssumption
  <2>6. ReceivedInv'
    BY <1>5, <2>2, NoteKeeps DEF LinkInv, LinkType, ReceivedInv, KeepaliveAssumption, Span
  <2> QED BY <2>3, <2>4, <2>5, <2>6 DEF LinkInv
<1> QED
  BY <1>1, <1>2, <1>3, <1>4, <1>5 DEF keepalive, LinkInv, LinkType

LEMMA RetryKeeps ==
  ASSUME LinkInv, KeepaliveAssumption, Retry, Note
  PROVE  LinkInv'
<1>1. at = "retry" /\ at' # "handle" /\ looked' = TRUE
  BY DEF Retry
<1>2. CASE last > RetryLoopInterval
  BY <1>1, <1>2, KeepaliveKeeps DEF Retry
<1>3. CASE ~(last > RetryLoopInterval)
  <2>1. Idle /\ UNCHANGED last
    BY <1>3 DEF Retry
  <2> QED
    BY <1>1, <1>3, <2>1, NoteKeeps DEF Idle, LinkInv, LinkType, LookedInv, SentInv,
       ReceivedInv, ClosedInv, KeepaliveAssumption, writeVars, noPendingWrites
<1> QED BY <1>2, <1>3

LEMMA AfterKeeps ==
  ASSUME LinkInv, After, Note
  PROVE  LinkInv'
<1>1. CASE CloseSession
  BY <1>1, CloseKeeps DEF After, LinkInv, LinkType, LookedInv
<1>2. CASE UNCHANGED <<queue, writeVars, peerVars, broken, connected, ping_outstanding,
                       lastSent, lastReceived, lastPing>>
  BY <1>2, NoteKeeps DEF After, LinkInv, LinkType, LookedInv, SentInv, ReceivedInv, ClosedInv,
     writeVars, noPendingWrites
<1> QED BY <1>1, <1>2 DEF After

-----------------------------------------------------------------------------
\* A second: every age grows by at most one, and last by exactly one.
LEMMA TickKeeps ==
  ASSUME LinkInv, KeepaliveAssumption, Tick, Note
  PROVE  LinkInv'
<1>1. at = "select" /\ at' = at /\ looked /\ looked' = FALSE /\ UNCHANGED pending
      /\ UNCHANGED <<connected, ping_outstanding>>
  BY DEF Tick, streamVars, writeVars
<1>2. last' = last + 1
  BY <1>1 DEF Tick, LinkInv, LinkType, LookedInv, Min2, KeepaliveAssumption
<1>3. /\ last' \in 0..RetryLoopInterval + 1
      /\ DOMAIN pending' = {"listed", "bufs", "bytes"} /\ pending'.listed \in BOOLEAN
      /\ noPendingWrites' = noPendingWrites
  BY <1>1, <1>2 DEF LinkInv, LinkType, LookedInv, KeepaliveAssumption, noPendingWrites
<1>4. CASE ~connected
  <2>1. lastSent' = 0 /\ lastReceived' = 0 /\ lastPing' = 0
    BY <1>4 DEF Tick, LinkInv, ClosedInv
  <2> QED
    BY <1>1, <1>4, <1>3, <2>1, NoteKeeps DEF LinkInv, LinkType, LookedInv, SentInv,
       ReceivedInv, ClosedInv
<1>5. CASE connected
  <2>1. /\ lastSent' = Min2(lastSent + 1, Span + 1)
        /\ lastReceived' = Min2(lastReceived + 1, 2 * Span + 1)
        /\ ping_outstanding = 1 => lastPing' = Min2(lastPing + 1, Span + 1)
        /\ ping_outstanding # 1 => lastPing' = 0
    BY <1>5 DEF Tick
  <2>2. /\ lastSent' \in Nat /\ lastSent' <= lastSent + 1 /\ lastSent' <= Span + 1
        /\ lastReceived' \in Nat /\ lastReceived' <= lastReceived + 1
        /\ lastPing' \in Nat
    BY <2>1 DEF Min2, Span, LinkInv, LinkType, KeepaliveAssumption
  <2>3. ping_outstanding = 1 => lastPing' = lastPing + 1
    BY <1>1, <1>5, <2>1 DEF Min2, Span, LinkInv, LinkType, LookedInv, SentInv,
       KeepaliveAssumption
  <2>4. LinkType' /\ LookedInv' /\ ClosedInv'
    BY <1>1, <1>5, <1>3, <2>2, NoteKeeps DEF LinkInv, LinkType, LookedInv, ClosedInv
  <2>5. SentInv'
    BY <1>1, <1>2, <1>5, <1>3, <2>1, <2>2, <2>3 DEF LinkInv, LinkType, SentInv,
       KeepaliveAssumption, Min2, Span
  <2>6. ReceivedInv'
    <3>1. ~blocked' => ~blocked
      BY <1>1, <1>5, NoteKeeps DEF LinkInv
    <3>2. connected /\ ~blocked /\ ping_outstanding = 0
            => lastReceived' <= KeepAliveInterval - 1 + last'
      BY <1>2, <2>2 DEF LinkInv, LinkType, ReceivedInv, KeepaliveAssumption
    <3>3. connected /\ ~blocked /\ ping_outstanding = 1 => lastReceived' <= lastPing' + Span
      BY <2>2, <2>3 DEF LinkInv, LinkType, ReceivedInv, KeepaliveAssumption, Span
    <3> QED BY <1>1, <3>1, <3>2, <3>3 DEF ReceivedInv, Span
  <2> QED
    BY <1>5, <1>3, <2>4, <2>5, <2>6 DEF LinkInv
<1> QED BY <1>4, <1>5 DEF LinkInv, LinkType

LEMMA BrokerKeeps ==
  ASSUME LinkInv, Broker, Note
  PROVE  LinkInv'
<1>1. UNCHANGED <<pending, at>>
  BY DEF Broker, PeerReads, PeerSends, Arrive, Break, writeVars, streamVars
<1> QED
  BY <1>1, NoteKeeps DEF Broker, LinkInv, LinkType, LookedInv, SentInv, ReceivedInv, ClosedInv,
     ages, noPendingWrites

-----------------------------------------------------------------------------
LEMMA LinkInitially ==
  ASSUME Init, KeepaliveAssumption PROVE LinkInv
<1>1. DOMAIN pending = {"listed", "bufs", "bytes"} /\ pending.listed = FALSE
  BY DEF Init, StreamInit, NoWrite
<1>2. LinkType
  <2>1. connected \in BOOLEAN /\ blocked \in BOOLEAN /\ looked \in BOOLEAN
    BY DEF Init
  <2>2. ping_outstanding \in {0, 1} /\ lastSent \in Nat /\ lastReceived \in Nat /\ lastPing \in Nat
    BY DEF Init
  <2>3. last \in 0..RetryLoopInterval + 1
    BY DEF Init, KeepaliveAssumption
  <2> QED BY <1>1, <2>1, <2>2, <2>3 DEF LinkType
<1>3. LookedInv /\ SentInv /\ ReceivedInv /\ ClosedInv
  BY <1>1 DEF Init, StreamInit, LookedInv, SentInv, ReceivedInv, ClosedInv, noPendingWrites
<1> QED BY <1>2, <1>3 DEF LinkInv

LEMMA LinkStep ==
  ASSUME LinkInv, KeepaliveAssumption, [Next]_vars
  PROVE  LinkInv'
<1>1. CASE Next
  BY <1>1, ConnectKeeps, DisconnectKeeps, PublishKeeps, SelectKeeps, ReadKeeps, RetryKeeps,
     AfterKeeps, TickKeeps, BrokerKeeps DEF Next, Step, Thread
<1>2. CASE UNCHANGED vars
  BY <1>2 DEF vars, streamVars, writeVars, ages, LinkInv, LinkType, LookedInv, SentInv,
     ReceivedInv, ClosedInv, noPendingWrites
<1> QED BY <1>1, <1>2

LEMMA LinkAlways == Spec => []LinkInv
<1>1. Init => LinkInv
  BY LinkInitially, KeepaliveAssumption
<1>2. LinkInv /\ [Next]_vars => LinkInv'
  BY LinkStep, KeepaliveAssumption
<1> QED BY <1>1, <1>2, PTL DEF Spec

\* A client that owes nothing and waits for nothing is never silent longer than the keep
\* alive interval and the time between two looks at the clock (MQTTProtocol_keepalive).
THEOREM NeverSilent == Spec => []GapBound
<1>1. LinkInv => GapBound
  BY KeepaliveAssumption DEF LinkInv, LinkType, SentInv, GapBound, Span
<1> QED BY <1>1, LinkAlways, PTL

\* A connection on which nothing is received is closed within two such spans, unless a
\* write was incomplete since the last packet (MQTTProtocol_keepalive).
THEOREM SilenceNoticed == Spec => []SilenceBound
<1>1. LinkInv => SilenceBound
  BY KeepaliveAssumption DEF LinkInv, LinkType, SentInv, ReceivedInv, SilenceBound, Span
<1> QED BY <1>1, LinkAlways, PTL

-----------------------------------------------------------------------------
\* Induction over the naturals, for a set: the library has it for a predicate, which is
\* out of reach of the provers here, and the well-foundedness of < for sets.
LEMMA LeastNat ==
  ASSUME NEW T, T \subseteq Nat, T # {}
  PROVE  \E m \in T : \A k \in T : m <= k
<1>1. IsWellFoundedOn(OpToRel(<, Nat), Nat)
  BY NatLessThanWellFounded
<1>2. PICK m \in T : \A k \in T : ~ (<<k, m>> \in OpToRel(<, Nat))
  BY <1>1, WFMin
<1>3. \A k \in T : ~(k < m)
  BY <1>2 DEF OpToRel
<1> QED BY <1>3

LEMMA Induct ==
  ASSUME NEW S, 0 \in S, \A n \in Nat : n \in S => n + 1 \in S
  PROVE  \A n \in Nat : n \in S
<1> SUFFICES ASSUME NEW j \in Nat, j \notin S PROVE FALSE
  OBVIOUS
<1>1. PICK m \in Nat \ S : \A k \in Nat \ S : m <= k
  <2>1. Nat \ S \subseteq Nat /\ Nat \ S # {}
    OBVIOUS
  <2> QED BY <2>1, LeastNat
<1>2. m # 0 /\ m - 1 \in Nat
  BY <1>1
<1>3. m - 1 \in S
  BY <1>1, <1>2
<1>4. (m - 1) + 1 \in S
  BY <1>2, <1>3
<1> QED BY <1>1, <1>4

-----------------------------------------------------------------------------
\* FlattenSeq.  The recursive function in its definition exists, and what it gives for
\* an element depends on the elements before only.
FlatEq(f, s, n) == f = [i \in 1..n |-> IF i = 1 THEN s[i] ELSE f[i-1] \o s[i]]

LEMMA FlatExists ==
  ASSUME NEW s, NEW n \in Nat
  PROVE  \E f : FlatEq(f, s, n)
<1> DEFINE S == {k \in Nat : \E f : FlatEq(f, s, k)}
<1>1. 0 \in S
  <2>1. FlatEq([i \in 1..0 |-> 0], s, 0)
    BY DEF FlatEq
  <2> QED BY <2>1
<1>2. ASSUME NEW k \in Nat, k \in S PROVE k + 1 \in S
  <2>1. PICK f : FlatEq(f, s, k)
    BY <1>2
  <2> DEFINE e == IF k = 0 THEN s[1] ELSE f[k] \o s[k+1]
             g == [i \in 1..k+1 |-> IF i = k+1 THEN e ELSE f[i]]
  <2>2. \A i \in 1..k+1 : g[i] = IF i = 1 THEN s[i] ELSE g[i-1] \o s[i]
    <3> SUFFICES ASSUME NEW i \in 1..k+1 PROVE g[i] = IF i = 1 THEN s[i] ELSE g[i-1] \o s[i]
      OBVIOUS
    <3>1. CASE i = k + 1
      BY <3>1
    <3>2. CASE i # k + 1
      <4>1. i \in 1..k /\ g[i] = f[i] /\ (i # 1 => i - 1 \in 1..k /\ g[i-1] = f[i-1])
        BY <3>2
      <4> QED BY <4>1, <2>1 DEF FlatEq
    <3> QED BY <3>1, <3>2
  <2> HIDE DEF e
  <2>3. FlatEq(g, s, k+1)
    BY <2>2 DEF FlatEq
  <2> QED BY <2>3
<1> HIDE DEF S
<1>3. n \in S
  BY <1>1, <1>2, Induct
<1> QED BY <1>3 DEF S

LEMMA FlatDef ==
  ASSUME NEW s, Len(s) \in Nat, Len(s) # 0
  PROVE  \E f : /\ FlatEq(f, s, Len(s)) /\ FlattenSeq(s) = f[Len(s)]
<1> DEFINE f == CHOOSE g : FlatEq(g, s, Len(s))
<1>1. FlatEq(f, s, Len(s))
  BY FlatExists
<1>2. FlattenSeq(s) = f[Len(s)]
  BY DEF FlattenSeq, FlatEq
<1> QED BY <1>1, <1>2

LEMMA FlatAt ==
  ASSUME NEW f, NEW s, NEW n \in Nat, FlatEq(f, s, n), NEW i \in 1..n
  PROVE  f[i] = IF i = 1 THEN s[i] ELSE f[i-1] \o s[i]
BY Zenon DEF FlatEq

LEMMA FlatAgree ==
  ASSUME NEW f, NEW s, NEW n \in Nat, FlatEq(f, s, n),
         NEW g, NEW t, NEW m \in Nat, FlatEq(g, t, m),
         n <= m, \A i \in 1..n : s[i] = t[i]
  PROVE  \A i \in 1..n : f[i] = g[i]
<1> DEFINE S == {k \in Nat : k \in 1..n => f[k] = g[k]}
<1>1. 0 \in S
  OBVIOUS
<1>2. ASSUME NEW k \in Nat, k \in S PROVE k + 1 \in S
  <2> SUFFICES ASSUME k + 1 \in 1..n PROVE f[k+1] = g[k+1]
    OBVIOUS
  <2>1. k + 1 \in 1..m /\ s[k+1] = t[k+1] /\ (k # 0 => f[k] = g[k])
    BY <1>2
  <2>2. f[k+1] = IF k + 1 = 1 THEN s[k+1] ELSE f[k+1-1] \o s[k+1]
    BY FlatAt
  <2>3. g[k+1] = IF k + 1 = 1 THEN t[k+1] ELSE g[k+1-1] \o t[k+1]
    BY <2>1, FlatAt
  <2>4. k + 1 - 1 = k
    OBVIOUS
  <2> QED BY <2>1, <2>2, <2>3, <2>4
<1> HIDE DEF S
<1>3. \A k \in Nat : k \in S
  BY <1>1, <1>2, Induct
<1> QED BY <1>3 DEF S

\* What FlattenSeq is, on sequences built from their end.
LEMMA FlattenEmpty == FlattenSeq(<<>>) = <<>>
BY DEF FlattenSeq

LEMMA FlattenAppend ==
  ASSUME NEW S, NEW s \in Seq(Seq(S)), NEW e \in Seq(S), s # <<>>
  PROVE  FlattenSeq(Append(s, e)) = FlattenSeq(s) \o e
<1> DEFINE n == Len(s)
           t == Append(s, e)
<1>1. n \in Nat /\ n # 0 /\ n + 1 # 0 /\ Len(t) = n + 1
      /\ (\A i \in 1..n : s[i] = t[i]) /\ t[n+1] = e
  BY EmptySeq, LenProperties, AppendProperties
<1> HIDE DEF n, t
<1>2. PICK f : FlatEq(f, s, n) /\ FlattenSeq(s) = f[n]
  BY <1>1, FlatDef DEF n
<1>3. PICK g : FlatEq(g, t, Len(t)) /\ FlattenSeq(t) = g[Len(t)]
  BY <1>1, FlatDef
<1>4. Len(t) \in 1..Len(t) /\ Len(t) # 1 /\ Len(t) - 1 = n
  BY <1>1
<1>5. g[Len(t)] = g[n] \o e
  <2>1. g[Len(t)] = g[Len(t) - 1] \o t[Len(t)]
    <3>1. Len(t) \in Nat
      BY <1>1
    <3> QED BY <1>3, <1>4, <3>1, FlatAt
  <2> QED BY <1>1, <1>4, <2>1
<1>6. f[n] = g[n]
  BY <1>1, <1>2, <1>3, FlatAgree
<1> QED BY <1>2, <1>3, <1>5, <1>6 DEF t

LEMMA FlattenOne ==
  ASSUME NEW e
  PROVE  FlattenSeq(<<e>>) = e
<1>1. Len(<<e>>) = 1 /\ <<e>>[1] = e
  OBVIOUS
<1>2. Len(<<e>>) \in Nat /\ Len(<<e>>) # 0
  BY <1>1
<1>3. PICK f : FlatEq(f, <<e>>, Len(<<e>>)) /\ FlattenSeq(<<e>>) = f[Len(<<e>>)]
  BY <1>2, FlatDef, Zenon
<1>4. 1 \in 1..Len(<<e>>)
  BY <1>1
<1>5. f[1] = e
  BY <1>1, <1>3, <1>4, FlatAt
<1> QED BY <1>1, <1>3, <1>5

\* An induction over the length of a sequence needs its last element only.
LEMMA LastApart ==
  ASSUME NEW S, NEW s \in Seq(S), NEW n \in Nat, Len(s) = n + 1
  PROVE  \E r \in Seq(S), e \in S : s = Append(r, e) /\ Len(r) = n
<1>1. s # <<>>
  BY EmptySeq
<1>2. PICK r \in Seq(S), e \in S : s = Append(r, e)
  BY <1>1, SequenceEmptyOrAppend
<1>3. Len(r) \in Nat /\ Len(s) = Len(r) + 1
  BY <1>2, LenProperties, AppendProperties
<1> QED BY <1>2, <1>3

LEMMA LenZero ==
  ASSUME NEW S, NEW s \in Seq(S)
  PROVE  Len(s) = 0 <=> s = <<>>
BY EmptySeq

LEMMA FlattenAny ==
  ASSUME NEW S, NEW s \in Seq(Seq(S)), NEW e \in Seq(S)
  PROVE  FlattenSeq(Append(s, e)) = FlattenSeq(s) \o e
<1>1. CASE s = <<>>
  <2>1. Append(s, e) = <<e>>
    BY <1>1
  <2>2. FlattenSeq(s) \o e = e
    BY <1>1, FlattenEmpty, ConcatEmptySeq
  <2> QED BY <2>1, <2>2, FlattenOne
<1>2. CASE s # <<>>
  BY <1>2, FlattenAppend
<1> QED BY <1>1, <1>2

LEMMA FlattenType ==
  ASSUME NEW S, NEW s \in Seq(Seq(S))
  PROVE  FlattenSeq(s) \in Seq(S)
<1> DEFINE P == {n \in Nat : \A r \in Seq(Seq(S)) : Len(r) = n => FlattenSeq(r) \in Seq(S)}
<1>1. 0 \in P
  <2> SUFFICES ASSUME NEW r \in Seq(Seq(S)), Len(r) = 0 PROVE FlattenSeq(r) \in Seq(S)
    OBVIOUS
  <2>1. r = <<>>
    BY LenZero
  <2> QED BY <2>1, FlattenEmpty, EmptySeq
<1>2. ASSUME NEW n \in Nat, n \in P PROVE n + 1 \in P
  <2> SUFFICES ASSUME NEW r \in Seq(Seq(S)), Len(r) = n + 1 PROVE FlattenSeq(r) \in Seq(S)
    OBVIOUS
  <2>1. PICK q \in Seq(Seq(S)), e \in Seq(S) : r = Append(q, e) /\ Len(q) = n
    BY LastApart
  <2>2. FlattenSeq(q) \in Seq(S)
    BY <1>2, <2>1
  <2>3. FlattenSeq(r) = FlattenSeq(q) \o e
    BY <2>1, FlattenAny
  <2> QED BY <2>2, <2>3, ConcatProperties
<1> HIDE DEF P
<1>3. Len(s) \in P
  BY <1>1, <1>2, Induct, LenProperties
<1> QED BY <1>3 DEF P

LEMMA FlattenConcat ==
  ASSUME NEW S, NEW s \in Seq(Seq(S)), NEW t \in Seq(Seq(S))
  PROVE  FlattenSeq(s \o t) = FlattenSeq(s) \o FlattenSeq(t)
<1> DEFINE P == {n \in Nat : \A r \in Seq(Seq(S)) : Len(r) = n =>
                                FlattenSeq(s \o r) = FlattenSeq(s) \o FlattenSeq(r)}
<1>1. 0 \in P
  <2> SUFFICES ASSUME NEW r \in Seq(Seq(S)), Len(r) = 0
               PROVE  FlattenSeq(s \o r) = FlattenSeq(s) \o FlattenSeq(r)
    OBVIOUS
  <2>1. r = <<>>
    BY LenZero
  <2>2. s \o r = s
    BY <2>1, ConcatEmptySeq
  <2>3. FlattenSeq(s) \o FlattenSeq(r) = FlattenSeq(s)
    BY <2>1, FlattenEmpty, FlattenType, ConcatEmptySeq
  <2> QED BY <2>2, <2>3
<1>2. ASSUME NEW n \in Nat, n \in P PROVE n + 1 \in P
  <2> SUFFICES ASSUME NEW r \in Seq(Seq(S)), Len(r) = n + 1
               PROVE  FlattenSeq(s \o r) = FlattenSeq(s) \o FlattenSeq(r)
    OBVIOUS
  <2>1. PICK q \in Seq(Seq(S)), e \in Seq(S) : r = Append(q, e) /\ Len(q) = n
    BY LastApart
  <2>2. FlattenSeq(s \o q) = FlattenSeq(s) \o FlattenSeq(q)
    BY <1>2, <2>1
  <2>3. s \o r = Append(s \o q, e)
    <3>1. r = q \o <<e>> /\ <<e>> \in Seq(Seq(S)) /\ s \o q \in Seq(Seq(S))
      BY <2>1, AppendIsConcat, ConcatProperties
    <3>2. s \o r = (s \o q) \o <<e>>
      BY <3>1, ConcatAssociative
    <3> QED BY <3>1, <3>2, AppendIsConcat
  <2>4. FlattenSeq(s \o r) = FlattenSeq(s \o q) \o e
    BY <2>3, FlattenAny, ConcatProperties
  <2>5. FlattenSeq(r) = FlattenSeq(q) \o e
    BY <2>1, FlattenAny
  <2>6. FlattenSeq(s) \in Seq(S) /\ FlattenSeq(q) \in Seq(S)
    BY FlattenType
  <2>7. (FlattenSeq(s) \o FlattenSeq(q)) \o e = FlattenSeq(s) \o (FlattenSeq(q) \o e)
    BY <2>6, ConcatAssociative
  <2> QED BY <2>2, <2>4, <2>5, <2>7
<1> HIDE DEF P
<1>3. Len(t) \in P
  BY <1>1, <1>2, Induct, LenProperties
<1> QED BY <1>3 DEF P

LEMMA FlattenHead ==
  ASSUME NEW S, NEW s \in Seq(Seq(S)), s # <<>>
  PROVE  FlattenSeq(s) = Head(s) \o FlattenSeq(Tail(s))
<1>1. Head(s) \in Seq(S) /\ Tail(s) \in Seq(Seq(S)) /\ <<Head(s)>> \in Seq(Seq(S))
  BY HeadTailProperties
<1>2. s = <<Head(s)>> \o Tail(s)
  OBVIOUS
<1>3. FlattenSeq(s) = FlattenSeq(<<Head(s)>>) \o FlattenSeq(Tail(s))
  BY <1>1, <1>2, FlattenConcat
<1> QED BY <1>3, FlattenOne

-----------------------------------------------------------------------------
\* Encode.  The rest of a length that takes more than one digit is smaller.
LEMMA Digits ==
  ASSUME StreamAssumption, NEW k \in Nat
  PROVE  /\ k \div LenBase \in Nat /\ k % LenBase \in 0..LenBase - 1
         /\ k = LenBase * (k \div LenBase) + (k % LenBase)
         /\ k >= LenBase => k \div LenBase < k
<1>1. LenBase \in Nat /\ LenBase > 1
  BY DEF StreamAssumption
<1>2. k \div LenBase \in Int /\ k % LenBase \in 0..LenBase - 1
      /\ k = LenBase * (k \div LenBase) + (k % LenBase)
  BY <1>1
<1>3. k \div LenBase \in Nat
  BY <1>1, <1>2
<1>4. k >= LenBase => k \div LenBase < k
  BY <1>1, <1>2, <1>3
<1> QED BY <1>2, <1>3, <1>4

\* The recursive function exists: it is put together from its restrictions to 0..n.
EncOn(f, n) == f = [k \in 0..n |-> IF k < LenBase THEN <<k>>
                                   ELSE <<LenBase + (k % LenBase)>> \o f[k \div LenBase]]

LEMMA EncAt ==
  ASSUME NEW f, NEW n \in Nat, EncOn(f, n), NEW k \in 0..n
  PROVE  f[k] = IF k < LenBase THEN <<k>>
                ELSE <<LenBase + (k % LenBase)>> \o f[k \div LenBase]
BY Zenon DEF EncOn

LEMMA EncExists ==
  ASSUME StreamAssumption, NEW n \in Nat
  PROVE  \E f : EncOn(f, n)
<1> DEFINE S == {k \in Nat : \E f : EncOn(f, k)}
<1>1. 0 \in S
  <2> DEFINE g == [k \in 0..0 |-> <<0>>]
  <2>1. \A k \in 0..0 : k < LenBase /\ g[k] = <<k>>
    BY DEF StreamAssumption
  <2>2. EncOn(g, 0)
    BY <2>1 DEF EncOn
  <2> QED BY <2>2
<1>2. ASSUME NEW m \in Nat, m \in S PROVE m + 1 \in S
  <2>1. PICK f : EncOn(f, m)
    BY <1>2
  <2> DEFINE e == IF m + 1 < LenBase THEN <<m + 1>>
                  ELSE <<LenBase + ((m + 1) % LenBase)>> \o f[(m + 1) \div LenBase]
             g == [k \in 0..m+1 |-> IF k = m + 1 THEN e ELSE f[k]]
  <2>2. \A k \in 0..m+1 : g[k] = IF k < LenBase THEN <<k>>
                                 ELSE <<LenBase + (k % LenBase)>> \o g[k \div LenBase]
    <3> SUFFICES ASSUME NEW k \in 0..m+1
                 PROVE  g[k] = IF k < LenBase THEN <<k>>
                               ELSE <<LenBase + (k % LenBase)>> \o g[k \div LenBase]
      OBVIOUS
    <3>1. k >= LenBase => /\ k \div LenBase \in 0..m /\ k \div LenBase \in 0..m+1
                          /\ g[k \div LenBase] = f[k \div LenBase]
      <4> SUFFICES ASSUME k >= LenBase
                   PROVE  /\ k \div LenBase \in 0..m /\ k \div LenBase \in 0..m+1
                          /\ k \div LenBase # m + 1
        OBVIOUS
      <4>1. k \in Nat
        OBVIOUS
      <4>2. k \div LenBase \in Nat /\ k \div LenBase < k
        BY <4>1, Digits
      <4> QED BY <4>2
    <3>2. CASE k = m + 1
      <4>1. g[k] = e
        BY <3>2
      <4>2. e = IF k < LenBase THEN <<k>>
                ELSE <<LenBase + (k % LenBase)>> \o f[k \div LenBase]
        BY <3>2
      <4>3. k < LenBase \/ k >= LenBase
        BY DEF StreamAssumption
      <4> HIDE DEF e, g
      <4> QED BY <3>1, <4>1, <4>2, <4>3
    <3>3. CASE k # m + 1
      <4>1. k \in 0..m /\ g[k] = f[k]
        BY <3>3
      <4>2. f[k] = IF k < LenBase THEN <<k>>
                   ELSE <<LenBase + (k % LenBase)>> \o f[k \div LenBase]
        BY <2>1, <4>1, EncAt
      <4>3. k < LenBase \/ k >= LenBase
        BY DEF StreamAssumption
      <4> HIDE DEF e, g
      <4> QED BY <3>1, <4>1, <4>2, <4>3
    <3> QED BY <3>2, <3>3
  <2> HIDE DEF e
  <2>3. EncOn(g, m + 1)
    BY <2>2 DEF EncOn
  <2> QED BY <2>3
<1> HIDE DEF S
<1>3. n \in S
  BY <1>1, <1>2, Induct
<1> QED BY <1>3 DEF S

LEMMA EncAgree ==
  ASSUME StreamAssumption, NEW n \in Nat, NEW m \in Nat,
         NEW f, EncOn(f, n), NEW g, EncOn(g, m), n <= m
  PROVE  \A k \in 0..n : f[k] = g[k]
<1> DEFINE S == {k \in Nat : \A j \in 0..k : j <= n => f[j] = g[j]}
<1>0. ASSUME NEW k \in 0..n, k >= LenBase => f[k \div LenBase] = g[k \div LenBase]
      PROVE  f[k] = g[k]
  <2>1. f[k] = IF k < LenBase THEN <<k>>
               ELSE <<LenBase + (k % LenBase)>> \o f[k \div LenBase]
    BY EncAt
  <2>2. g[k] = IF k < LenBase THEN <<k>>
               ELSE <<LenBase + (k % LenBase)>> \o g[k \div LenBase]
    BY EncAt
  <2>3. k < LenBase \/ k >= LenBase
    BY DEF StreamAssumption
  <2> QED BY <1>0, <2>1, <2>2, <2>3
<1>1. 0 \in S
  <2>1. ~(0 >= LenBase) /\ 0 \in 0..n
    BY DEF StreamAssumption
  <2> QED BY <1>0, <2>1
<1>2. ASSUME NEW k \in Nat, k \in S PROVE k + 1 \in S
  <2> SUFFICES ASSUME NEW j \in 0..k+1, j <= n PROVE f[j] = g[j]
    OBVIOUS
  <2>1. CASE j \in 0..k
    BY <1>2, <2>1
  <2>2. CASE j = k + 1
    <3>1. j >= LenBase => f[j \div LenBase] = g[j \div LenBase]
      <4> SUFFICES ASSUME j >= LenBase PROVE f[j \div LenBase] = g[j \div LenBase]
        OBVIOUS
      <4>1. j \div LenBase \in Nat /\ j \div LenBase < j
        BY Digits
      <4>2. j \div LenBase \in 0..k /\ j \div LenBase <= n
        BY <2>2, <4>1
      <4> QED BY <1>2, <4>2
    <3> QED BY <1>0, <3>1
  <2> QED BY <2>1, <2>2
<1> HIDE DEF S
<1>3. \A k \in Nat : k \in S
  BY <1>1, <1>2, Induct
<1> QED BY <1>3 DEF S

\* What Encode is (MQTTPacket_encode).
LEMMA EncodeDef ==
  ASSUME StreamAssumption, NEW n \in Nat
  PROVE  Encode[n] = IF n < LenBase THEN <<n>>
                     ELSE <<LenBase + (n % LenBase)>> \o Encode[n \div LenBase]
<1> DEFINE on(k) == CHOOSE f : EncOn(f, k)
           all == [k \in Nat |-> on(k)[k]]
           Eq(g) == g = [k \in Nat |-> IF k < LenBase THEN <<k>>
                                       ELSE <<LenBase + (k % LenBase)>> \o g[k \div LenBase]]
<1>1. \A k \in Nat : EncOn(on(k), k)
  BY EncExists
<1> HIDE DEF on
<1>2. \A k \in Nat : all[k] = IF k < LenBase THEN <<k>>
                              ELSE <<LenBase + (k % LenBase)>> \o all[k \div LenBase]
  <2> SUFFICES ASSUME NEW k \in Nat
               PROVE  all[k] = IF k < LenBase THEN <<k>>
                               ELSE <<LenBase + (k % LenBase)>> \o all[k \div LenBase]
    OBVIOUS
  <2>1. k \in 0..k /\ all[k] = on(k)[k]
    OBVIOUS
  <2>2. on(k)[k] = IF k < LenBase THEN <<k>>
                   ELSE <<LenBase + (k % LenBase)>> \o on(k)[k \div LenBase]
    BY <1>1, <2>1, EncAt
  <2>3. k >= LenBase => all[k \div LenBase] = on(k)[k \div LenBase]
    <3> SUFFICES ASSUME k >= LenBase PROVE all[k \div LenBase] = on(k)[k \div LenBase]
      OBVIOUS
    <3> DEFINE h == k \div LenBase
    <3>1. h \in Nat /\ h < k
      BY Digits
    <3> HIDE DEF h
    <3>2. EncOn(on(h), h) /\ EncOn(on(k), k) /\ h <= k /\ h \in 0..h
      BY <1>1, <3>1
    <3>3. on(h)[h] = on(k)[h]
      BY <3>1, <3>2, EncAgree
    <3>4. all[h] = on(h)[h]
      BY <3>1
    <3> QED BY <3>3, <3>4 DEF h
  <2>4. k < LenBase \/ k >= LenBase
    BY DEF StreamAssumption
  <2> HIDE DEF all
  <2> QED BY <2>1, <2>2, <2>3, <2>4
<1>3. Eq(all)
  <2>1. all = [k \in Nat |-> all[k]]
    OBVIOUS
  <2> HIDE DEF all
  <2> QED BY <1>2, <2>1
<1>4. Encode = CHOOSE g : Eq(g)
  BY DEF Encode
<1>5. Eq(Encode)
  <2> HIDE DEF Eq, all
  <2> QED BY <1>3, <1>4
<1> QED BY <1>5, Zenon

-----------------------------------------------------------------------------
\* The bytes that come before the data of a packet, and the bytes of some packets.
HeaderOf(p) == <<p.type>> \o Encode[Len(p.data)]
Bytes(ps)   == FlattenSeq([i \in DOMAIN ps |-> Wire(ps[i])])

WriteInv ==
    /\ Len(sent) <= SendRoom
    /\ ~pending.listed => pending = NoWrite
    /\ WriteFramed

\* Where the reader's index stands: at the start of the packet whenever it starts again.
IndexInv ==
    /\ at \in {"select", "ready"} \/ (at = "retry" /\ factory.rc = "ok") => queue.index = 0
    /\ at = "handle" \/ ~connected => queue = EmptyQueue
    /\ queue.index <= Len(queue.header) /\ Len(queue.header) <= HeaderRoom
    /\ ~queue.saved => queue.index = Len(queue.header) /\ queue.data = <<>>

\* What is kept is a part of the first packet: of its data nothing before all of its header.
KeptInv ==
    at # "handle" /\ expected # <<>> =>
        LET H == HeaderOf(Head(expected)) IN
        /\ Len(queue.header) <= Len(H)
        /\ queue.header = SubSeq(H, 1, Len(queue.header))
        /\ queue.data # <<>> => queue.header = H /\ Len(queue.data) < Len(Head(expected).data)

\* While the length is decoded, value and multiplier say what the digits read so far do, and
\* the others encode what is missing.
DecodeInv ==
    /\ at \in {"length", "data"} => expected # <<>> /\ factory.header = Head(expected).type
    /\ at = "length" =>
          LET H == HeaderOf(Head(expected)) IN
          /\ queue.index = factory.len + 1
          /\ \E q \in Nat :
                /\ Len(Head(expected).data) = factory.value + factory.multiplier * q
                /\ H = SubSeq(H, 1, queue.index) \o Encode[q]
    /\ at = "data" =>
          /\ queue.index = Len(HeaderOf(Head(expected)))
          /\ factory.value = Len(Head(expected).data)

ReadInv == IndexInv /\ KeptInv /\ DecodeInv /\ ReadFramed

-----------------------------------------------------------------------------
\* From and SubSeq on a sequence of some set S.
LEMMA FromProperties ==
  ASSUME NEW S, NEW s \in Seq(S), NEW k \in Nat, k <= Len(s)
  PROVE  /\ From(s, k + 1) \in Seq(S) /\ Len(From(s, k + 1)) = Len(s) - k
         /\ \A i \in 1..Len(s) - k : From(s, k + 1)[i] = s[k + i]
<1>1. Len(s) \in Nat /\ \A i \in k + 1..Len(s) : s[i] \in S
  BY LenProperties, ElementOfSeq
<1>2. /\ SubSeq(s, k + 1, Len(s)) \in Seq(S)
      /\ Len(SubSeq(s, k + 1, Len(s))) = IF k + 1 <= Len(s) THEN Len(s) - (k + 1) + 1 ELSE 0
      /\ \A i \in 1..Len(s) - (k + 1) + 1 : SubSeq(s, k + 1, Len(s))[i] = s[k + 1 + i - 1]
  <2>1. k + 1 \in Int /\ Len(s) \in Int
    BY <1>1
  <2> QED BY <1>1, <2>1, SubSeqProperties
<1>3. Len(s) - (k + 1) + 1 = Len(s) - k /\ \A i \in 1..Len(s) - k : k + 1 + i - 1 = k + i
  BY <1>1
<1>4. (IF k + 1 <= Len(s) THEN Len(s) - (k + 1) + 1 ELSE 0) = Len(s) - k
  BY <1>1
<1>5. \A i \in 1..Len(s) - k : SubSeq(s, k + 1, Len(s))[i] = s[k + i]
  BY <1>2, <1>3
<1> QED BY <1>2, <1>4, <1>5 DEF From

LEMMA StartProperties ==
  ASSUME NEW S, NEW s \in Seq(S), NEW n \in Nat, n <= Len(s)
  PROVE  /\ SubSeq(s, 1, n) \in Seq(S) /\ Len(SubSeq(s, 1, n)) = n
         /\ \A i \in 1..n : SubSeq(s, 1, n)[i] = s[i]
<1>1. Len(s) \in Nat /\ \A i \in 1..n : s[i] \in S
  BY LenProperties, ElementOfSeq
<1>2. /\ SubSeq(s, 1, n) \in Seq(S)
      /\ Len(SubSeq(s, 1, n)) = IF 1 <= n THEN n - 1 + 1 ELSE 0
      /\ \A i \in 1..n - 1 + 1 : SubSeq(s, 1, n)[i] = s[1 + i - 1]
  BY <1>1, SubSeqProperties
<1>3. n - 1 + 1 = n /\ \A i \in 1..n : 1 + i - 1 = i
  OBVIOUS
<1> QED BY <1>2, <1>3

\* A sequence in two parts; the second part is named by its elements.
LEMMA TwoParts ==
  ASSUME NEW S, NEW s \in Seq(S), NEW a \in Seq(S), NEW b \in Seq(S),
         Len(s) = Len(a) + Len(b),
         \A i \in 1..Len(a) : s[i] = a[i],
         \A i \in 1..Len(b) : s[Len(a) + i] = b[i]
  PROVE  s = a \o b
<1>1. Len(a) \in Nat /\ Len(b) \in Nat
  BY LenProperties
<1>2. /\ a \o b \in Seq(S) /\ Len(a \o b) = Len(a) + Len(b)
      /\ \A i \in 1..Len(a) + Len(b) : (a \o b)[i] = IF i <= Len(a) THEN a[i] ELSE b[i - Len(a)]
  BY ConcatProperties
<1>3. ASSUME NEW i \in 1..Len(s) PROVE s[i] = (a \o b)[i]
  <2>1. CASE i <= Len(a)
    BY <1>1, <1>2, <2>1
  <2>2. CASE i > Len(a)
    <3>1. i - Len(a) \in 1..Len(b) /\ Len(a) + (i - Len(a)) = i
      BY <1>1, <2>2
    <3>2. s[i] = b[i - Len(a)]
      BY <3>1
    <3> QED BY <1>1, <1>2, <2>2, <3>2
  <2> QED BY <1>1, <2>1, <2>2
<1> QED BY <1>2, <1>3, SeqEqual

LEMMA SplitAt ==
  ASSUME NEW S, NEW s \in Seq(S), NEW k \in Nat, k <= Len(s)
  PROVE  s = SubSeq(s, 1, k) \o From(s, k + 1)
<1>1. /\ SubSeq(s, 1, k) \in Seq(S) /\ Len(SubSeq(s, 1, k)) = k
      /\ \A i \in 1..k : SubSeq(s, 1, k)[i] = s[i]
  BY StartProperties
<1>2. /\ From(s, k + 1) \in Seq(S) /\ Len(From(s, k + 1)) = Len(s) - k
      /\ \A i \in 1..Len(s) - k : From(s, k + 1)[i] = s[k + i]
  BY FromProperties
<1>3. Len(s) \in Nat
  BY LenProperties
<1>4. Len(s) = Len(SubSeq(s, 1, k)) + Len(From(s, k + 1))
  <2>1. Len(SubSeq(s, 1, k)) = k
    BY <1>1
  <2>2. Len(From(s, k + 1)) = Len(s) - k
    BY <1>2
  <2>3. Len(s) = k + (Len(s) - k)
    BY <1>3
  <2> QED BY <2>1, <2>2, <2>3
<1> HIDE DEF From
<1> QED BY <1>1, <1>2, <1>4, TwoParts

LEMMA FromConcat ==
  ASSUME NEW S, NEW s \in Seq(S), NEW t \in Seq(S), NEW k \in Nat, k <= Len(s)
  PROVE  From(s \o t, k + 1) = From(s, k + 1) \o t
<1>1. /\ From(s, k + 1) \in Seq(S) /\ Len(From(s, k + 1)) = Len(s) - k
      /\ \A i \in 1..Len(s) - k : From(s, k + 1)[i] = s[k + i]
  BY FromProperties
<1>2. Len(s) \in Nat /\ Len(t) \in Nat
  BY LenProperties
<1>3. /\ s \o t \in Seq(S) /\ Len(s \o t) = Len(s) + Len(t)
      /\ \A i \in 1..Len(s) + Len(t) : (s \o t)[i] = IF i <= Len(s) THEN s[i] ELSE t[i - Len(s)]
  BY ConcatProperties
<1>4. /\ From(s \o t, k + 1) \in Seq(S) /\ Len(From(s \o t, k + 1)) = Len(s) + Len(t) - k
      /\ \A i \in 1..Len(s) + Len(t) - k : From(s \o t, k + 1)[i] = (s \o t)[k + i]
  <2>1. Len(s \o t) = Len(s) + Len(t) /\ s \o t \in Seq(S)
    BY <1>3
  <2>2. k <= Len(s \o t)
    BY <1>2, <2>1
  <2>3. /\ From(s \o t, k + 1) \in Seq(S) /\ Len(From(s \o t, k + 1)) = Len(s \o t) - k
        /\ \A i \in 1..Len(s \o t) - k : From(s \o t, k + 1)[i] = (s \o t)[k + i]
    BY <2>1, <2>2, FromProperties
  <2> QED BY <2>1, <2>3
<1> DEFINE f == From(s \o t, k + 1)
           g == From(s, k + 1)
<1>0. Len(g) = Len(s) - k
  BY <1>1
<1>5. \A i \in 1..Len(g) : f[i] = g[i]
  <2> SUFFICES ASSUME NEW i \in 1..Len(s) - k PROVE f[i] = g[i]
    BY <1>0
  <2>1. i \in 1..Len(s) + Len(t) - k /\ k + i \in 1..Len(s) + Len(t) /\ k + i <= Len(s)
    BY <1>2
  <2>2. f[i] = (s \o t)[k + i] /\ g[i] = s[k + i]
    BY <1>1, <1>4, <2>1
  <2> QED BY <1>3, <2>1, <2>2
<1>6. \A i \in 1..Len(t) : f[Len(g) + i] = t[i]
  <2> SUFFICES ASSUME NEW i \in 1..Len(t) PROVE f[Len(g) + i] = t[i]
    OBVIOUS
  <2>1. Len(g) + i \in 1..Len(s) + Len(t) - k /\ k + (Len(g) + i) = Len(s) + i
    <3>1. Len(s) - k + i \in 1..Len(s) + Len(t) - k /\ k + (Len(s) - k + i) = Len(s) + i
      BY <1>2
    <3> QED BY <1>0, <3>1
  <2>2. f[Len(g) + i] = (s \o t)[Len(s) + i]
    BY <1>4, <2>1
  <2>3. Len(s) + i \in 1..Len(s) + Len(t) /\ ~(Len(s) + i <= Len(s)) /\ Len(s) + i - Len(s) = i
    BY <1>2
  <2> QED BY <1>3, <2>2, <2>3
<1>7. f \in Seq(S) /\ g \in Seq(S) /\ Len(f) = Len(g) + Len(t)
  <2>1. Len(f) = Len(s) + Len(t) - k
    BY <1>4
  <2>2. Len(s) + Len(t) - k = Len(s) - k + Len(t)
    BY <1>2
  <2> QED BY <1>0, <1>1, <1>4, <2>1, <2>2
<1> HIDE DEF f, g
<1>8. f = g \o t
  BY <1>5, <1>6, <1>7, TwoParts
<1> QED BY <1>8 DEF f, g

-----------------------------------------------------------------------------
\* Rest, in its two cases: what the kernel did not take of the buffer it stopped in, or
\* all of the packet that it did not take.
First(b, i) == Len(FlattenSeq(SubSeq(b, 1, i - 1)))
Cut(b, k)   == {i \in DOMAIN b : First(b, i) < k /\ k < First(b, i) + Len(b[i])}
Whole(b, k) == [i \in DOMAIN b |-> IF k <= First(b, i) THEN b[i] ELSE <<>>]

LEMMA PrefixOf ==
  ASSUME NEW S, NEW b \in Seq(Seq(S)), NEW i \in 1..Len(b)
  PROVE  /\ SubSeq(b, 1, i) \in Seq(Seq(S)) /\ SubSeq(b, 1, i - 1) \in Seq(Seq(S))
         /\ SubSeq(b, 1, i) = Append(SubSeq(b, 1, i - 1), b[i]) /\ b[i] \in Seq(S)
         /\ FlattenSeq(SubSeq(b, 1, i)) = FlattenSeq(SubSeq(b, 1, i - 1)) \o b[i]
         /\ FlattenSeq(SubSeq(b, 1, i - 1)) \in Seq(S)
         /\ First(b, i) \in Nat /\ Len(b[i]) \in Nat
<1>1. Len(b) \in Nat /\ i \in Nat /\ i <= Len(b) /\ i - 1 \in Nat /\ i - 1 <= Len(b) /\ 1 \in 1..Len(b)
      /\ i \in 1..Len(b)
  BY LenProperties
<1>2. SubSeq(b, 1, i) \in Seq(Seq(S)) /\ SubSeq(b, 1, i - 1) \in Seq(Seq(S))
  BY <1>1, StartProperties
<1>3. b[i] \in Seq(S)
  BY ElementOfSeq
<1>4. SubSeq(b, 1, i) = SubSeq(b, 1, i - 1) \o <<b[i]>>
  BY <1>1, SubSeqRecursiveSecond
<1>5. SubSeq(b, 1, i) = Append(SubSeq(b, 1, i - 1), b[i])
  BY <1>2, <1>3, <1>4, AppendIsConcat
<1>6. FlattenSeq(SubSeq(b, 1, i)) = FlattenSeq(SubSeq(b, 1, i - 1)) \o b[i]
  BY <1>2, <1>3, <1>5, FlattenAny
<1>7. FlattenSeq(SubSeq(b, 1, i - 1)) \in Seq(S)
  BY <1>2, FlattenType
<1>8. First(b, i) \in Nat /\ Len(b[i]) \in Nat
  BY <1>3, <1>7, LenProperties DEF First
<1> QED BY <1>2, <1>3, <1>5, <1>6, <1>7, <1>8

\* The bytes before buffer i, those of the buffer, and those after it.
LEMMA ThreeParts ==
  ASSUME NEW S, NEW b \in Seq(Seq(S)), NEW i \in 1..Len(b)
  PROVE  \E t \in Seq(S) :
            FlattenSeq(b) = (FlattenSeq(SubSeq(b, 1, i - 1)) \o b[i]) \o t
<1>1. Len(b) \in Nat /\ i \in Nat /\ i <= Len(b)
  BY LenProperties
<1>2. b = SubSeq(b, 1, i) \o From(b, i + 1) /\ From(b, i + 1) \in Seq(Seq(S))
  BY <1>1, SplitAt, FromProperties
<1>3. FlattenSeq(b) = FlattenSeq(SubSeq(b, 1, i)) \o FlattenSeq(From(b, i + 1))
  BY <1>2, PrefixOf, FlattenConcat
<1>4. FlattenSeq(From(b, i + 1)) \in Seq(S)
  BY <1>2, FlattenType
<1> QED BY <1>3, <1>4, PrefixOf

LEMMA RestOfCut ==
  ASSUME NEW S, NEW b \in Seq(Seq(S)), NEW k \in Nat, NEW i \in Cut(b, k)
  PROVE  LET R == From(b[i], k - First(b, i) + 1)
             F == FlattenSeq(b)
         IN  /\ R \in Seq(S) /\ k + Len(R) <= Len(F)
             /\ \A j \in 1..Len(R) : R[j] = F[k + j]
<1> DEFINE F == FlattenSeq(b)
           P == FlattenSeq(SubSeq(b, 1, i - 1))
           B == b[i]
           PB == P \o B
           m == k - Len(P)
           R == From(B, m + 1)
<1>1. i \in 1..Len(b) /\ First(b, i) < k /\ k < First(b, i) + Len(B)
  BY LenProperties DEF Cut
<1>2. /\ P \in Seq(S) /\ B \in Seq(S) /\ Len(P) \in Nat /\ Len(B) \in Nat
      /\ First(b, i) = Len(P)
  BY <1>1, PrefixOf DEF First
<1>3. PICK rest : rest \in Seq(S) /\ F = PB \o rest
  BY <1>1, ThreeParts
<1>0. R = From(b[i], k - First(b, i) + 1)
  BY <1>2
<1> HIDE DEF P, F, B
<1>4. m \in Nat /\ m <= Len(B) /\ Len(P) + m = k
  BY <1>1, <1>2
<1> HIDE DEF m
<1>5. /\ R \in Seq(S) /\ Len(R) = Len(B) - m
      /\ \A j \in 1..Len(B) - m : R[j] = B[m + j]
  BY <1>2, <1>4, FromProperties
<1> HIDE DEF R
<1>7. /\ PB \in Seq(S) /\ Len(PB) = Len(P) + Len(B)
      /\ \A j \in 1..Len(P) + Len(B) : PB[j] = IF j <= Len(P) THEN P[j] ELSE B[j - Len(P)]
  BY <1>2, ConcatProperties
<1> HIDE DEF PB
<1>8. /\ Len(F) = Len(PB) + Len(rest)
      /\ \A j \in 1..Len(PB) + Len(rest) : F[j] = IF j <= Len(PB) THEN PB[j] ELSE rest[j - Len(PB)]
  <2>1. /\ Len(PB \o rest) = Len(PB) + Len(rest)
        /\ \A j \in 1..Len(PB) + Len(rest) :
              (PB \o rest)[j] = IF j <= Len(PB) THEN PB[j] ELSE rest[j - Len(PB)]
    <3>1. PB \in Seq(S) /\ rest \in Seq(S)
      BY <1>3, <1>7
    <3> QED BY <3>1, ConcatProperties
  <2> QED BY <1>3, <2>1
<1>9. Len(rest) \in Nat
  BY <1>3, LenProperties
<1>10. Len(F) = Len(P) + Len(B) + Len(rest)
  BY <1>7, <1>8
<1>11. k + Len(R) <= Len(F)
  <2>1. Len(P) + m + (Len(B) - m) <= Len(P) + Len(B) + Len(rest)
    BY <1>2, <1>4, <1>9
  <2> QED BY <1>4, <1>5, <1>10, <2>1
<1>12. ASSUME NEW j \in 1..Len(B) - m PROVE R[j] = F[k + j]
  <2>0. j \in Nat /\ 1 <= j /\ j <= Len(B) - m
    BY <1>2, <1>4
  <2>1. R[j] = B[m + j]
    BY <1>5
  <2>2. /\ k + j \in Nat /\ 1 <= k + j /\ k + j <= Len(P) + Len(B)
        /\ ~(k + j <= Len(P)) /\ k + j - Len(P) = m + j
    <3>1. Len(P) \in Nat /\ Len(B) \in Nat
      BY <1>2
    <3> QED BY <1>4, <2>0, <3>1
  <2>3. k + j \in 1..Len(P) + Len(B)
    BY <1>2, <2>2
  <2>4. PB[k + j] = B[m + j]
    BY <1>7, <2>2, <2>3
  <2>5. k + j \in 1..Len(PB) + Len(rest) /\ k + j <= Len(PB)
    BY <1>2, <1>7, <1>9, <2>2
  <2>6. F[k + j] = PB[k + j]
    BY <1>8, <2>5
  <2> QED BY <2>1, <2>4, <2>6
<1>13. \A j \in 1..Len(R) : R[j] = F[k + j]
  BY <1>5, <1>12
<1> QED BY <1>0, <1>5, <1>11, <1>13 DEF F

LEMMA RestOfWhole ==
  ASSUME NEW S, NEW b \in Seq(Seq(S)), NEW k \in Nat, Cut(b, k) = {}, k <= Len(FlattenSeq(b))
  PROVE  FlattenSeq(Whole(b, k)) = From(FlattenSeq(b), k + 1)
<1> DEFINE Z == Whole(b, k)
           Q(n) == FlattenSeq(SubSeq(b, 1, n))
           G(n) == IF k <= Len(Q(n)) THEN From(Q(n), k + 1) ELSE <<>>
           T == {n \in Nat : n <= Len(b) => FlattenSeq(SubSeq(Z, 1, n)) = G(n)}
<1>1. Len(b) \in Nat /\ DOMAIN b = 1..Len(b)
  BY LenProperties
<1>2. Z \in Seq(Seq(S)) /\ Len(Z) = Len(b)
  <2>1. \A i \in 1..Len(b) : (IF k <= First(b, i) THEN b[i] ELSE <<>>) \in Seq(S)
    BY ElementOfSeq, EmptySeq
  <2>2. Z \in [1..Len(b) -> Seq(S)]
    BY <1>1, <2>1 DEF Whole
  <2> HIDE DEF Z
  <2> QED BY <1>1, <2>2
<1>3. \A i \in 1..Len(b) : Z[i] = IF k <= First(b, i) THEN b[i] ELSE <<>>
  BY <1>1 DEF Whole
<1> HIDE DEF Z
<1>4. 0 \in T
  <2>1. SubSeq(b, 1, 0) = <<>> /\ SubSeq(Z, 1, 0) = <<>>
    BY SubSeqEmpty
  <2>2. Q(0) = <<>> /\ Len(Q(0)) = 0
    <3>1. Q(0) = <<>>
      BY <2>1, FlattenEmpty
    <3> HIDE DEF Q
    <3> QED BY <3>1, EmptySeq
  <2>3. FlattenSeq(SubSeq(Z, 1, 0)) = <<>>
    BY <2>1, FlattenEmpty
  <2>4. k <= 0 => From(<<>>, k + 1) = <<>>
    BY EmptySeq, SubSeqEmpty DEF From
  <2> QED BY <2>2, <2>3, <2>4
<1>5. ASSUME NEW m \in Nat, m \in T PROVE m + 1 \in T
  <2> SUFFICES ASSUME m + 1 <= Len(b) PROVE FlattenSeq(SubSeq(Z, 1, m + 1)) = G(m + 1)
    OBVIOUS
  <2> DEFINE i == m + 1
  <2>1. i \in 1..Len(b) /\ i \in 1..Len(Z) /\ i - 1 = m
    BY <1>1, <1>2
  <2>2. FlattenSeq(SubSeq(Z, 1, m)) = G(m)
    BY <1>1, <1>5
  <2> HIDE DEF i
  <2>3. /\ Q(i) = Q(m) \o b[i] /\ Q(m) \in Seq(S) /\ b[i] \in Seq(S) /\ First(b, i) = Len(Q(m))
        /\ Len(Q(m)) \in Nat /\ Len(b[i]) \in Nat
    BY <2>1, PrefixOf DEF First
  <2>4. FlattenSeq(SubSeq(Z, 1, i)) = FlattenSeq(SubSeq(Z, 1, m)) \o Z[i]
    BY <1>2, <2>1, PrefixOf
  <2>5. Len(Q(i)) = Len(Q(m)) + Len(b[i])
    BY <2>3, ConcatProperties
  <2> HIDE DEF Q
  <2>6. CASE k <= Len(Q(m))
    <3>1. Z[i] = b[i] /\ G(m) = From(Q(m), k + 1)
      BY <1>3, <2>1, <2>3, <2>6
    <3>2. From(Q(m) \o b[i], k + 1) = From(Q(m), k + 1) \o b[i]
      BY <2>3, <2>6, FromConcat
    <3>3. G(i) = From(Q(i), k + 1)
      <4>1. k <= Len(Q(i))
        BY <2>3, <2>5, <2>6
      <4> QED BY <4>1
    <3> QED BY <2>2, <2>3, <2>4, <3>1, <3>2, <3>3 DEF i
  <2>7. CASE ~(k <= Len(Q(m)))
    <3>1. Z[i] = <<>> /\ G(m) = <<>>
      BY <1>3, <2>1, <2>3, <2>7
    <3>2. FlattenSeq(SubSeq(Z, 1, i)) = <<>>
      <4>1. <<>> \o <<>> = <<>>
        BY ConcatEmptySeq, EmptySeq
      <4> QED BY <2>2, <2>4, <3>1, <4>1
    <3>3. i \notin Cut(b, k) /\ i \in DOMAIN b
      BY <1>1, <2>1
    <3>4. Len(Q(i)) <= k
      BY <2>3, <2>5, <2>7, <3>3 DEF Cut
    <3>5. G(i) = <<>>
      <4>1. CASE k <= Len(Q(i))
        <5>1. Len(Q(i)) = k
          BY <2>3, <2>5, <3>4, <4>1
        <5>2. From(Q(i), k + 1) = <<>>
          BY <5>1, SubSeqEmpty DEF From
        <5> QED BY <5>2
      <4>2. CASE ~(k <= Len(Q(i)))
        BY <4>2
      <4> QED BY <4>1, <4>2
    <3> QED BY <3>2, <3>5 DEF i
  <2> QED BY <2>6, <2>7
<1> HIDE DEF T
<1>6. Len(b) \in T
  BY <1>1, <1>4, <1>5, Induct
<1>7. FlattenSeq(SubSeq(Z, 1, Len(b))) = G(Len(b))
  BY <1>1, <1>6 DEF T
<1>8. SubSeq(Z, 1, Len(b)) = Z /\ SubSeq(b, 1, Len(b)) = b
  BY <1>2, SubSeqFull
<1> QED BY <1>7, <1>8 DEF Z

-----------------------------------------------------------------------------
\* Writing.
WriteType ==
    /\ pending \in [listed : BOOLEAN, bufs : Seq(Seq(Byte)), bytes : Nat]
    /\ pending.listed => pending.bytes < Len(FlattenSeq(pending.bufs))
    /\ sent \in Seq(Byte) /\ owed \in Seq(Byte) /\ broken \in BOOLEAN

WriteOK == WriteType /\ WriteInv

\* The bytes of a pending write that the kernel has not taken.
Owing(pw) == From(FlattenSeq(pw.bufs), pw.bytes + 1)

LEMMA NothingOwing == Owing(NoWrite) = <<>>
<1>1. NoWrite.bufs = <<>> /\ NoWrite.bytes = 0
  BY DEF NoWrite
<1>2. FlattenSeq(NoWrite.bufs) = <<>>
  BY <1>1, FlattenEmpty
<1>3. From(<<>>, 0 + 1) = <<>>
  <2>1. Len(<<>>) < 0 + 1 /\ 0 + 1 \in Int /\ Len(<<>>) \in Int
    BY EmptySeq
  <2> QED BY <2>1, SubSeqEmpty DEF From
<1> QED BY <1>1, <1>2, <1>3 DEF Owing

LEMMA NoWriteType ==
  /\ NoWrite \in [listed : BOOLEAN, bufs : Seq(Seq(Byte)), bytes : Nat]
  /\ ~NoWrite.listed
BY EmptySeq DEF NoWrite

\* What fits is a number of bytes.
LEMMA FitsType ==
  ASSUME WriteOK, StreamAssumption, NEW s \in Seq(Byte)
  PROVE  /\ Fits(s) \in Nat /\ Fits(s) <= Len(s) /\ Len(sent) + Fits(s) <= SendRoom
<1>1. Len(s) \in Nat /\ Len(sent) \in Nat
  BY LenProperties DEF WriteOK, WriteType
<1>2. Len(sent) <= SendRoom /\ SendRoom \in Nat
  BY DEF WriteOK, WriteInv, StreamAssumption
<1> QED BY <1>1, <1>2 DEF Fits, Min2

LEMMA Associative ==
  ASSUME NEW S, NEW a \in Seq(S), NEW b \in Seq(S), NEW c \in Seq(S)
  PROVE  (a \o b) \o c = a \o (b \o c)
BY ConcatAssociative

LEMMA BytesAssociate == \A a, b, c \in Seq(Byte) : (a \o b) \o c = a \o (b \o c)
BY Associative

\* The kernel takes the first n bytes of some that follow what it has.
LEMMA Taken ==
  ASSUME NEW s \in Seq(Byte), NEW u \in Seq(Byte), NEW n \in Nat, n <= Len(u)
  PROVE  /\ s \o SubSeq(u, 1, n) \in Seq(Byte)
         /\ Len(s \o SubSeq(u, 1, n)) = Len(s) + n
         /\ s \o u = (s \o SubSeq(u, 1, n)) \o From(u, n + 1)
<1>1. /\ SubSeq(u, 1, n) \in Seq(Byte) /\ Len(SubSeq(u, 1, n)) = n
      /\ From(u, n + 1) \in Seq(Byte)
  BY StartProperties, FromProperties
<1>2. u = SubSeq(u, 1, n) \o From(u, n + 1)
  BY SplitAt
<1>3. (s \o SubSeq(u, 1, n)) \o From(u, n + 1) = s \o (SubSeq(u, 1, n) \o From(u, n + 1))
  <2> DEFINE a == SubSeq(u, 1, n)
             b == From(u, n + 1)
  <2>1. a \in Seq(Byte) /\ b \in Seq(Byte)
    BY <1>1
  <2> HIDE DEF a, b
  <2>2. (s \o a) \o b = s \o (a \o b)
    BY <2>1, BytesAssociate
  <2> QED BY <2>2 DEF a, b
<1>4. s \o SubSeq(u, 1, n) \in Seq(Byte) /\ Len(s \o SubSeq(u, 1, n)) = Len(s) + Len(SubSeq(u, 1, n))
  BY <1>1, ConcatProperties
<1>5. s \o u = (s \o SubSeq(u, 1, n)) \o From(u, n + 1)
  BY <1>2, <1>3
<1> QED BY <1>1, <1>4, <1>5

\* Socket_putdatas: the packet follows what is owed, and what was not taken is pending.
LEMMA PutKeepsWrites ==
  ASSUME WriteOK, StreamAssumption, NEW bufs \in Seq(Seq(Byte)), NEW complete \in BOOLEAN,
         Putdatas(bufs, complete), broken' = broken
  PROVE  WriteOK'
<1> DEFINE all == FlattenSeq(bufs)
           n   == Fits(all)
<1>1. /\ noPendingWrites /\ ~broken /\ complete = (n = Len(all))
      /\ owed' = owed \o all /\ sent' = sent \o SubSeq(all, 1, n)
      /\ pending' = IF complete THEN NoWrite ELSE [listed |-> TRUE, bufs |-> bufs, bytes |-> n]
  BY DEF Putdatas
<1>2. all \in Seq(Byte) /\ Len(all) \in Nat
  BY FlattenType, LenProperties
<1> HIDE DEF all
<1>3. n \in Nat /\ n <= Len(all) /\ Len(sent) + n <= SendRoom
  BY <1>2, FitsType
<1> HIDE DEF n
<1>4. sent \in Seq(Byte) /\ owed \in Seq(Byte) /\ owed = sent
  <2>1. pending = NoWrite /\ WriteFramed
    BY <1>1 DEF WriteOK, WriteInv, noPendingWrites
  <2>2. owed = sent \o Owing(NoWrite)
    BY <1>1, <2>1 DEF WriteFramed, Owing
  <2> QED BY <2>2, NothingOwing, ConcatEmptySeq DEF WriteOK, WriteType
<1>5. /\ sent' \in Seq(Byte) /\ Len(sent') = Len(sent) + n
      /\ owed' = sent' \o From(all, n + 1)
  BY <1>1, <1>2, <1>3, <1>4, Taken
<1>6. owed' \in Seq(Byte)
  BY <1>1, <1>2, <1>4, ConcatProperties
<1>7. broken' = FALSE
  BY <1>1 DEF WriteOK, WriteType
<1>8. CASE complete
  <2>1. pending' = NoWrite /\ n = Len(all)
    BY <1>1, <1>8
  <2>2. From(all, n + 1) = <<>>
    BY <1>2, <2>1, SubSeqEmpty DEF From
  <2>3. owed' = sent' \o Owing(pending')
    BY <1>5, <2>1, <2>2, NothingOwing
  <2>4. WriteFramed'
    BY <1>7, <2>3 DEF WriteFramed, Owing
  <2> QED BY <1>3, <1>5, <1>6, <1>7, <2>1, <2>4, NoWriteType DEF WriteOK, WriteType, WriteInv
<1>9. CASE ~complete
  <2>4. n # Len(all)
    BY <1>1, <1>9, Zenon
  <2>0. n < Len(all)
    BY <1>2, <1>3, <2>4
  <2>1. pending' = [listed |-> TRUE, bufs |-> bufs, bytes |-> n]
    BY <1>1, <1>9
  <2>2. /\ pending' \in [listed : BOOLEAN, bufs : Seq(Seq(Byte)), bytes : Nat]
        /\ pending'.listed /\ pending'.bufs = bufs /\ pending'.bytes = n
    BY <1>3, <2>1
  <2>3. WriteFramed'
    BY <1>5, <1>7, <2>2 DEF WriteFramed, all
  <2> QED BY <1>3, <1>5, <1>6, <1>7, <2>0, <2>2, <2>3 DEF WriteOK, WriteType, WriteInv, all
<1> QED BY <1>8, <1>9

\* Rest is the beginning of what is owing (Socket_continueWrite).
LEMMA RestStarts ==
  ASSUME WriteOK, ~noPendingWrites
  PROVE  /\ Rest(pending) \in Seq(Byte) /\ Owing(pending) \in Seq(Byte)
         /\ Len(Owing(pending)) = Len(FlattenSeq(pending.bufs)) - pending.bytes
         /\ Len(Rest(pending)) <= Len(Owing(pending))
         /\ \A i \in 1..Len(Rest(pending)) : Rest(pending)[i] = Owing(pending)[i]
<1> DEFINE b == pending.bufs
           k == pending.bytes
           F == FlattenSeq(b)
           R == Rest(pending)
<1>1. b \in Seq(Seq(Byte)) /\ k \in Nat /\ k < Len(F) /\ F \in Seq(Byte) /\ Len(F) \in Nat
  BY FlattenType, LenProperties DEF WriteOK, WriteType, noPendingWrites
<1>2. R = IF Cut(b, k) # {}
          THEN LET i == CHOOSE j \in Cut(b, k) : TRUE IN From(b[i], k - First(b, i) + 1)
          ELSE FlattenSeq(Whole(b, k))
  BY DEF Rest, Cut, First, Whole
<1> HIDE DEF R
<1>3. Owing(pending) = From(F, k + 1)
  BY DEF Owing
<1> HIDE DEF F, b, k
<1>4. /\ From(F, k + 1) \in Seq(Byte) /\ Len(From(F, k + 1)) = Len(F) - k
      /\ \A i \in 1..Len(F) - k : From(F, k + 1)[i] = F[k + i]
  <2>1. k <= Len(F)
    BY <1>1
  <2> QED BY <1>1, <2>1, FromProperties
<1>5. CASE Cut(b, k) = {}
  <2>1. R = From(F, k + 1)
    BY <1>1, <1>2, <1>5, RestOfWhole DEF F
  <2> QED BY <1>1, <1>3, <1>4, <2>1 DEF F, b, k, R
<1>6. CASE Cut(b, k) # {}
  <2>1. PICK i \in Cut(b, k) : R = From(b[i], k - First(b, i) + 1)
    BY <1>2, <1>6
  <2>2. R \in Seq(Byte) /\ k + Len(R) <= Len(F) /\ \A j \in 1..Len(R) : R[j] = F[k + j]
    BY <1>1, <2>1, RestOfCut DEF F
  <2>3. Len(R) \in Nat
    BY <2>2, LenProperties
  <2>4. Len(R) <= Len(F) - k
    BY <1>1, <2>2, <2>3
  <2>5. \A j \in 1..Len(R) : R[j] = From(F, k + 1)[j]
    <3> SUFFICES ASSUME NEW j \in 1..Len(R) PROVE R[j] = From(F, k + 1)[j]
      OBVIOUS
    <3>1. j \in 1..Len(F) - k
      BY <1>1, <2>3, <2>4
    <3> QED BY <1>4, <2>2, <3>1
  <2> QED BY <1>3, <1>4, <2>2, <2>4, <2>5 DEF F, b, k, R
<1> QED BY <1>5, <1>6

LEMMA ConcatTail ==
  ASSUME NEW S, NEW s \in Seq(S), NEW t \in Seq(S), s # <<>>
  PROVE  Tail(s \o t) = Tail(s) \o t
<1>1. s \o t \in Seq(S) /\ Len(s \o t) = Len(s) + Len(t) /\ Len(s) \in Nat /\ Len(t) \in Nat /\ Len(s) # 0
  BY ConcatProperties, LenProperties, EmptySeq
<1>2. s \o t # <<>>
  BY <1>1, EmptySeq
<1>3. \A i \in 1..Len(s) + Len(t) : (s \o t)[i] = IF i <= Len(s) THEN s[i] ELSE t[i - Len(s)]
  BY ConcatProperties
<1>4. /\ Tail(s \o t) \in Seq(S) /\ Len(Tail(s \o t)) = Len(s) + Len(t) - 1
      /\ \A i \in 1..Len(s) + Len(t) - 1 : Tail(s \o t)[i] = (s \o t)[i + 1]
  BY <1>1, <1>2, HeadTailProperties
<1>5. Tail(s) \in Seq(S) /\ Len(Tail(s)) = Len(s) - 1 /\ \A i \in 1..Len(s) - 1 : Tail(s)[i] = s[i + 1]
  BY <1>1, HeadTailProperties
<1>6. Len(Tail(s \o t)) = Len(Tail(s)) + Len(t)
  BY <1>1, <1>4, <1>5
<1>7. \A i \in 1..Len(Tail(s)) : Tail(s \o t)[i] = Tail(s)[i]
  <2> SUFFICES ASSUME NEW i \in 1..Len(s) - 1 PROVE Tail(s \o t)[i] = Tail(s)[i]
    BY <1>5
  <2>1. i \in 1..Len(s) + Len(t) - 1 /\ i + 1 \in 1..Len(s) + Len(t) /\ i + 1 <= Len(s)
    BY <1>1
  <2>2. (s \o t)[i + 1] = s[i + 1]
    BY <1>3, <2>1
  <2> QED BY <1>4, <1>5, <2>1, <2>2
<1>8. \A i \in 1..Len(t) : Tail(s \o t)[Len(Tail(s)) + i] = t[i]
  <2> SUFFICES ASSUME NEW i \in 1..Len(t) PROVE Tail(s \o t)[Len(s) - 1 + i] = t[i]
    BY <1>5
  <2>1. /\ Len(s) - 1 + i \in 1..Len(s) + Len(t) - 1 /\ Len(s) + i \in 1..Len(s) + Len(t)
        /\ ~(Len(s) + i <= Len(s)) /\ (Len(s) + i) - Len(s) = i /\ (Len(s) - 1 + i) + 1 = Len(s) + i
    BY <1>1
  <2>2. (s \o t)[Len(s) + i] = t[i]
    BY <1>3, <2>1
  <2> QED BY <1>4, <2>1, <2>2
<1> QED BY <1>4, <1>5, <1>6, <1>7, <1>8, TwoParts

LEMMA StartOfConcat ==
  ASSUME NEW S, NEW s \in Seq(S), NEW t \in Seq(S)
  PROVE  SubSeq(s \o t, 1, Len(s)) = s /\ IsPrefix(s, s \o t)
<1>1. s \o t \in Seq(S) /\ Len(s \o t) = Len(s) + Len(t) /\ Len(s) \in Nat /\ Len(t) \in Nat
  BY ConcatProperties, LenProperties
<1>2. \A i \in 1..Len(s) + Len(t) : (s \o t)[i] = IF i <= Len(s) THEN s[i] ELSE t[i - Len(s)]
  BY ConcatProperties
<1>3. Len(s) <= Len(s \o t)
  BY <1>1
<1>4. /\ SubSeq(s \o t, 1, Len(s)) \in Seq(S) /\ Len(SubSeq(s \o t, 1, Len(s))) = Len(s)
      /\ \A i \in 1..Len(s) : SubSeq(s \o t, 1, Len(s))[i] = (s \o t)[i]
  BY <1>1, <1>3, StartProperties
<1>5. \A i \in 1..Len(s) : (s \o t)[i] = s[i]
  BY <1>1, <1>2
<1>6. SubSeq(s \o t, 1, Len(s)) = s
  BY <1>4, <1>5, SeqEqual
<1> QED BY <1>3, <1>6 DEF IsPrefix

LEMMA OwingType ==
  ASSUME WriteOK
  PROVE  Owing(pending) \in Seq(Byte)
<1> DEFINE F == FlattenSeq(pending.bufs)
           k == pending.bytes
<1>1. CASE pending.listed
  <2>1. F \in Seq(Byte) /\ k \in Nat /\ k < Len(F) /\ Len(F) \in Nat
    BY <1>1, FlattenType, LenProperties DEF WriteOK, WriteType
  <2>2. k <= Len(F)
    BY <2>1
  <2> HIDE DEF F, k
  <2>3. From(F, k + 1) \in Seq(Byte)
    BY <2>1, <2>2, FromProperties
  <2> QED BY <2>3 DEF Owing, F, k
<1>2. CASE ~pending.listed
  BY <1>2, NothingOwing, EmptySeq DEF WriteOK, WriteInv
<1> QED BY <1>1, <1>2

LEMMA FromFrom ==
  ASSUME NEW S, NEW s \in Seq(S), NEW k \in Nat, NEW n \in Nat, k + n <= Len(s)
  PROVE  From(From(s, k + 1), n + 1) = From(s, k + n + 1)
<1>1. Len(s) \in Nat /\ k <= Len(s) /\ k + n \in Nat
  BY LenProperties
<1>2. /\ From(s, k + 1) \in Seq(S) /\ Len(From(s, k + 1)) = Len(s) - k
      /\ \A i \in 1..Len(s) - k : From(s, k + 1)[i] = s[k + i]
  BY <1>1, FromProperties
<1> DEFINE t == From(s, k + 1)
           m == k + n
<1>3. m \in Nat /\ m <= Len(s)
  BY <1>1
<1>4. /\ From(s, m + 1) \in Seq(S) /\ Len(From(s, m + 1)) = Len(s) - m
      /\ \A i \in 1..Len(s) - m : From(s, m + 1)[i] = s[m + i]
  BY <1>3, FromProperties
<1>5. n <= Len(t) /\ t \in Seq(S)
  BY <1>1, <1>2
<1>6. /\ From(t, n + 1) \in Seq(S) /\ Len(From(t, n + 1)) = Len(t) - n
      /\ \A i \in 1..Len(t) - n : From(t, n + 1)[i] = t[n + i]
  BY <1>5, FromProperties
<1> HIDE DEF t
<1>7. Len(From(t, n + 1)) = Len(From(s, m + 1)) /\ Len(t) - n = Len(s) - m
  BY <1>1, <1>2, <1>4, <1>6 DEF t
<1>8. \A i \in 1..Len(s) - m : From(t, n + 1)[i] = From(s, m + 1)[i]
  <2> SUFFICES ASSUME NEW i \in 1..Len(s) - m
               PROVE  From(t, n + 1)[i] = From(s, m + 1)[i]
    OBVIOUS
  <2>1. n + i \in 1..Len(s) - k /\ k + (n + i) = m + i
    BY <1>1
  <2>2. t[n + i] = s[k + (n + i)]
    BY <1>2, <2>1 DEF t
  <2>3. From(t, n + 1)[i] = t[n + i]
    BY <1>6, <1>7
  <2>4. From(s, m + 1)[i] = s[m + i]
    BY <1>4
  <2> QED BY <2>1, <2>2, <2>3, <2>4
<1>9. From(t, n + 1) = From(s, m + 1)
  <2> HIDE DEF m
  <2>1. Len(From(t, n + 1)) = Len(s) - m
    BY <1>4, <1>7
  <2> QED BY <1>4, <1>6, <1>8, <2>1, SeqEqual
<1> QED BY <1>9 DEF t

\* Socket_continueWrites: the next bytes of what was owing, and the rest stays pending.
LEMMA ContinueKeepsWrites ==
  ASSUME WriteOK, StreamAssumption, NEW done \in BOOLEAN, ContinueWrite(done), broken' = broken
  PROVE  WriteOK'
<1> DEFINE R == Rest(pending)
           O == Owing(pending)
           F == FlattenSeq(pending.bufs)
           k == pending.bytes
           n == IF broken THEN 0 ELSE Fits(R)
<1>1. /\ ~noPendingWrites /\ done = (broken \/ k + n = Len(F))
      /\ sent' = sent \o SubSeq(R, 1, n) /\ owed' = owed
      /\ pending' = IF done THEN NoWrite ELSE [pending EXCEPT !.bytes = @ + n]
  BY DEF ContinueWrite
<1>2. /\ R \in Seq(Byte) /\ O \in Seq(Byte) /\ Len(O) = Len(F) - k /\ Len(R) <= Len(O)
      /\ \A i \in 1..Len(R) : R[i] = O[i]
  BY <1>1, RestStarts
<1>3. /\ pending \in [listed : BOOLEAN, bufs : Seq(Seq(Byte)), bytes : Nat]
      /\ F \in Seq(Byte) /\ Len(F) \in Nat /\ k \in Nat /\ Len(R) \in Nat /\ Len(O) \in Nat
      /\ sent \in Seq(Byte) /\ owed \in Seq(Byte) /\ Len(sent) \in Nat /\ Len(sent) <= SendRoom
      /\ broken \in BOOLEAN /\ SendRoom \in Nat
  BY <1>2, FlattenType, LenProperties DEF WriteOK, WriteType, WriteInv, StreamAssumption
<1> HIDE DEF R
<1>4. n \in Nat /\ n <= Len(R) /\ Len(sent) + n <= SendRoom
  <2>1. CASE broken
    BY <1>3, <2>1
  <2>2. CASE ~broken
    BY <1>2, <2>2, FitsType
  <2> QED BY <2>1, <2>2
<1>5. WriteFramed /\ (~broken => owed = sent \o O)
  BY DEF WriteOK, WriteInv, WriteFramed, Owing
<1>6. (broken => n = 0) /\ (broken => done)
  BY <1>1
<1> HIDE DEF n, O
<1>7. SubSeq(R, 1, n) = SubSeq(O, 1, n)
  <2>1. /\ SubSeq(R, 1, n) \in Seq(Byte) /\ Len(SubSeq(R, 1, n)) = n
        /\ \A i \in 1..n : SubSeq(R, 1, n)[i] = R[i]
    BY <1>2, <1>4, StartProperties
  <2>2. n <= Len(O)
    BY <1>2, <1>3, <1>4
  <2>3. /\ SubSeq(O, 1, n) \in Seq(Byte) /\ Len(SubSeq(O, 1, n)) = n
        /\ \A i \in 1..n : SubSeq(O, 1, n)[i] = O[i]
    BY <1>2, <1>4, <2>2, StartProperties
  <2>4. \A i \in 1..n : SubSeq(R, 1, n)[i] = SubSeq(O, 1, n)[i]
    <3> SUFFICES ASSUME NEW i \in 1..n PROVE SubSeq(R, 1, n)[i] = SubSeq(O, 1, n)[i]
      OBVIOUS
    <3>1. i \in 1..Len(R)
      BY <1>3, <1>4
    <3> QED BY <1>2, <2>1, <2>3, <3>1
  <2> QED BY <2>1, <2>3, <2>4, SeqEqual
<1>8. n <= Len(O) /\ k + n <= Len(F)
  BY <1>2, <1>3, <1>4
<1>9. /\ sent' \in Seq(Byte) /\ Len(sent') = Len(sent) + n
      /\ sent \o O = sent' \o From(O, n + 1)
  <2>1. sent' = sent \o SubSeq(O, 1, n)
    BY <1>1, <1>7
  <2>2. /\ sent \o SubSeq(O, 1, n) \in Seq(Byte) /\ Len(sent \o SubSeq(O, 1, n)) = Len(sent) + n
        /\ sent \o O = (sent \o SubSeq(O, 1, n)) \o From(O, n + 1)
    <3>1. sent \in Seq(Byte) /\ O \in Seq(Byte) /\ n \in Nat /\ n <= Len(O)
      BY <1>2, <1>3, <1>4, <1>8
    <3> QED BY <3>1, Taken
  <2> QED BY <2>1, <2>2
<1>10. CASE broken
  <2>1. n = 0 /\ done /\ pending' = NoWrite
    BY <1>1, <1>6, <1>10
  <2>2. SubSeq(R, 1, 0) = <<>>
    BY <1>2, SubSeqEmpty
  <2>3. sent' = sent
    BY <1>1, <1>3, <2>1, <2>2, ConcatEmptySeq
  <2>4. WriteFramed'
    BY <1>1, <1>5, <1>10, <2>3 DEF WriteFramed
  <2> QED BY <1>1, <1>3, <1>10, <2>1, <2>3, <2>4, NoWriteType DEF WriteOK, WriteType, WriteInv
<1>11. CASE ~broken /\ done
  <2>1. pending' = NoWrite /\ k + n = Len(F)
    BY <1>1, <1>11, Zenon
  <2>2. n = Len(O)
    BY <1>2, <1>3, <1>4, <2>1
  <2>3. From(O, n + 1) = <<>>
    BY <1>2, <1>3, <2>2, SubSeqEmpty DEF From
  <2>4. owed' = sent' \o Owing(pending')
    BY <1>1, <1>5, <1>9, <1>11, <2>1, <2>3, NothingOwing
  <2>5. WriteFramed'
    BY <1>11, <2>4 DEF WriteFramed, Owing
  <2> QED BY <1>1, <1>3, <1>4, <1>9, <1>11, <2>1, <2>5, NoWriteType DEF WriteOK, WriteType, WriteInv
<1>12. CASE ~broken /\ ~done
  <2>0. k + n # Len(F)
    BY <1>1, <1>12, Zenon
  <2>1. pending' = [pending EXCEPT !.bytes = @ + n] /\ k + n < Len(F)
    BY <1>1, <1>3, <1>4, <1>8, <1>12, <2>0
  <2>2. /\ pending' \in [listed : BOOLEAN, bufs : Seq(Seq(Byte)), bytes : Nat]
        /\ pending'.bufs = pending.bufs /\ pending'.bytes = k + n
        /\ pending'.listed = pending.listed /\ pending.listed
    BY <1>1, <1>3, <1>4, <2>1 DEF noPendingWrites
  <2>3. From(O, n + 1) = From(F, k + n + 1)
    BY <1>3, <1>4, <1>8, FromFrom DEF O, Owing
  <2>4. owed' = sent' \o From(FlattenSeq(pending'.bufs), pending'.bytes + 1)
    BY <1>1, <1>5, <1>9, <1>12, <2>2, <2>3
  <2>5. WriteFramed'
    BY <1>12, <2>4 DEF WriteFramed
  <2> QED BY <1>1, <1>3, <1>4, <1>9, <2>1, <2>2, <2>5 DEF WriteOK, WriteType, WriteInv
<1> QED BY <1>10, <1>11, <1>12

\* Socket_close forgets what is written in part with the connection.
LEMMA CloseKeepsWrites ==
  ASSUME CloseSocket, StreamAssumption
  PROVE  WriteOK'
<1>1. /\ pending' = NoWrite /\ sent' = <<>> /\ owed' = <<>> /\ broken' = FALSE
  BY DEF CloseSocket
<1>2. <<>> \in Seq(Byte) /\ Len(<<>>) = 0 /\ <<>> \o <<>> = <<>>
  BY EmptySeq, ConcatEmptySeq
<1>3. owed' = sent' \o Owing(pending')
  BY <1>1, <1>2, NothingOwing
<1>4. WriteFramed'
  BY <1>1, <1>3 DEF WriteFramed, Owing
<1>5. Len(sent') <= SendRoom
  BY <1>1, <1>2 DEF StreamAssumption
<1>6. WriteType'
  BY <1>1, <1>2, NoWriteType DEF WriteType
<1> QED BY <1>1, <1>4, <1>5, <1>6, NoWriteType DEF WriteOK, WriteInv

\* What the kernel holds is owed.
LEMMA OwedThere ==
  ASSUME WriteOK, sent # <<>>
  PROVE  owed # <<>>
<1>1. sent \in Seq(Byte) /\ owed \in Seq(Byte) /\ Len(sent) \in Nat /\ WriteFramed
  BY LenProperties DEF WriteOK, WriteType, WriteInv
<1>2. Len(sent) # 0
  BY <1>1, EmptySeq
<1>3. CASE broken
  <2>1. Len(sent) <= Len(owed)
    BY <1>1, <1>3 DEF WriteFramed, IsPrefix
  <2> QED BY <1>1, <1>2, <2>1, EmptySeq
<1>4. CASE ~broken
  <2> DEFINE O == Owing(pending)
  <2>1. owed = sent \o O
    BY <1>1, <1>4 DEF WriteFramed, Owing
  <2>2. O \in Seq(Byte)
    BY OwingType
  <2> HIDE DEF O
  <2> QED BY <1>1, <1>2, <2>1, <2>2, ConcatProperties, EmptySeq
<1> QED BY <1>3, <1>4

\* The peer reads the first byte of both.
LEMMA PeerReadKeepsWrites ==
  ASSUME WriteOK, StreamAssumption, PeerReads
  PROVE  WriteOK'
<1>1. /\ sent # <<>> /\ sent' = Tail(sent) /\ owed' = Tail(owed)
      /\ pending' = pending /\ broken' = broken
  BY DEF PeerReads
<1>2. sent \in Seq(Byte) /\ owed \in Seq(Byte) /\ Len(sent) \in Nat /\ WriteFramed
  BY LenProperties DEF WriteOK, WriteType, WriteInv
<1>3. /\ sent' \in Seq(Byte) /\ Len(sent') = Len(sent) - 1 /\ Len(sent) # 0
      /\ \A i \in 1..Len(sent) - 1 : sent'[i] = sent[i + 1]
  BY <1>1, <1>2, HeadTailProperties, EmptySeq
<1>4. owed # <<>>
  BY <1>1, OwedThere
<1>5. /\ owed' \in Seq(Byte) /\ Len(owed') = Len(owed) - 1 /\ Len(owed) \in Nat
      /\ \A i \in 1..Len(owed) - 1 : owed'[i] = owed[i + 1]
  BY <1>1, <1>2, <1>4, HeadTailProperties, LenProperties
<1>6. WriteFramed'
  <2>1. CASE broken
    <3>1. Len(sent) <= Len(owed) /\ SubSeq(owed, 1, Len(sent)) = sent
      BY <1>2, <2>1 DEF WriteFramed, IsPrefix
    <3> DEFINE m == Len(sent)
    <3>2. \A i \in 1..m : sent[i] = owed[i]
      BY <1>2, <3>1, StartProperties
    <3>3. Len(sent') \in Nat /\ Len(sent') <= Len(owed')
      BY <1>2, <1>3, <1>5, <3>1
    <3>4. /\ SubSeq(owed', 1, Len(sent')) \in Seq(Byte) /\ Len(SubSeq(owed', 1, Len(sent'))) = Len(sent')
          /\ \A i \in 1..Len(sent') : SubSeq(owed', 1, Len(sent'))[i] = owed'[i]
      BY <1>5, <3>3, StartProperties
    <3>5. \A i \in 1..Len(sent') : owed'[i] = sent'[i]
      <4> SUFFICES ASSUME NEW i \in 1..Len(sent') PROVE owed'[i] = sent'[i]
        OBVIOUS
      <4>1. i \in 1..Len(sent) - 1 /\ i \in 1..Len(owed) - 1 /\ i + 1 \in 1..m
        BY <1>2, <1>3, <1>5, <3>1
      <4> QED BY <1>3, <1>5, <3>2, <4>1
    <3>6. \A i \in 1..Len(sent') : SubSeq(owed', 1, Len(sent'))[i] = sent'[i]
      BY <3>4, <3>5
    <3>7. SubSeq(owed', 1, Len(sent')) = sent'
      BY <1>3, <3>4, <3>6, SeqEqual
    <3>8. SubSeq(sent', 1, Len(sent')) = sent'
      BY <1>3, SubSeqFull
    <3>9. IsPrefix(sent', owed')
      BY <3>3, <3>7, <3>8 DEF IsPrefix
    <3> QED BY <1>1, <2>1, <3>9 DEF WriteFramed
  <2>2. CASE ~broken
    <3> DEFINE O == Owing(pending)
    <3>1. owed = sent \o O /\ O \in Seq(Byte)
      BY <1>2, <2>2, OwingType DEF WriteFramed, Owing
    <3> HIDE DEF O
    <3>2. Tail(sent \o O) = Tail(sent) \o O
      BY <1>1, <1>2, <3>1, ConcatTail
    <3>3. owed' = sent' \o Owing(pending')
      BY <1>1, <3>1, <3>2 DEF O
    <3> QED BY <1>1, <2>2, <3>3 DEF WriteFramed, Owing
  <2> QED BY <2>1, <2>2
<1>7. Len(sent') <= SendRoom
  <2>1. Len(sent) <= SendRoom /\ SendRoom \in Nat
    BY DEF WriteOK, WriteInv, StreamAssumption
  <2> QED BY <1>2, <1>3, <2>1
<1> QED BY <1>1, <1>3, <1>5, <1>6, <1>7 DEF WriteOK, WriteType, WriteInv

\* A connection that fails holds at least what the kernel has.
LEMMA BreakKeepsWrites ==
  ASSUME WriteOK, ~broken, broken' = TRUE, UNCHANGED writeVars
  PROVE  WriteOK'
<1> DEFINE O == Owing(pending)
<1>1. owed = sent \o O /\ sent \in Seq(Byte)
  BY DEF WriteOK, WriteInv, WriteType, WriteFramed, Owing
<1>2. O \in Seq(Byte)
  BY OwingType
<1> HIDE DEF O
<1>3. IsPrefix(sent, owed)
  BY <1>1, <1>2, StartOfConcat
<1>4. WriteFramed'
  BY <1>3 DEF WriteFramed, writeVars
<1> QED BY <1>4 DEF WriteOK, WriteType, WriteInv, writeVars

LEMMA UntouchedWrites ==
  ASSUME WriteOK, UNCHANGED <<writeVars, broken>>
  PROVE  WriteOK'
<1>1. WriteFramed'
  BY DEF WriteOK, WriteInv, WriteFramed, writeVars
<1> QED BY <1>1 DEF WriteOK, WriteType, WriteInv, writeVars

-----------------------------------------------------------------------------
\* What keepalive does: nothing, a PINGREQ written at once, or the end of the session.
Ping ==
    /\ Putdatas(PingReq, TRUE) /\ ping_outstanding = 0
    /\ ping_outstanding' = 1 /\ lastSent' = 0 /\ lastPing' = 0
    /\ UNCHANGED <<queue, peerVars, broken, connected, lastReceived>>

LEMMA KeepaliveCases ==
  ASSUME keepalive, ping_outstanding \in {0, 1}
  PROVE  Idle \/ (connected /\ CloseSession) \/ (connected /\ Ping)
<1> DEFINE expired(age) == age >= KeepAliveInterval
<1>1. CASE ~connected
  BY <1>1 DEF keepalive
<1>2. CASE connected /\ ping_outstanding = 1
  BY <1>2 DEF keepalive
<1>3. CASE connected /\ ping_outstanding # 1
  <2>1. CASE ~(expired(lastSent) \/ expired(lastReceived)) \/ ~noPendingWrites
    BY <1>3, <2>1 DEF keepalive
  <2>2. CASE ~(~(expired(lastSent) \/ expired(lastReceived)) \/ ~noPendingWrites)
    <3>1. \/ /\ Putdatas(PingReq, TRUE)
             /\ ping_outstanding' = 1 /\ lastSent' = 0 /\ lastPing' = 0
             /\ UNCHANGED <<queue, peerVars, broken, connected, lastReceived>>
          \/ CloseSession
      BY <1>3, <2>2 DEF keepalive
    <3> QED BY <1>3, <3>1 DEF Ping
  <2> QED BY <2>1, <2>2
<1> QED BY <1>1, <1>2, <1>3

LEMMA PingReqType ==
  ASSUME PacketAssumption
  PROVE  PingReq \in Seq(Seq(Byte))
<1>1. PINGREQ \in Byte /\ 0 \in Byte
  BY DEF PacketAssumption, Byte
<1>2. <<PINGREQ, 0>> \in Seq(Byte) /\ <<>> \in Seq(Byte)
  BY <1>1
<1> QED BY <1>2 DEF PingReq

\* Every step writes by one of these operations or not at all.
LEMMA WritesKept ==
  ASSUME WriteOK, Next, ping_outstanding \in {0, 1}, StreamAssumption, PacketAssumption
  PROVE  WriteOK'
<1>0. ASSUME CloseSession PROVE WriteOK'
  BY <1>0, CloseKeepsWrites DEF CloseSession
<1>1. ASSUME Connect PROVE WriteOK'
  BY <1>1, UntouchedWrites DEF Connect, streamVars
<1>2. ASSUME Disconnect PROVE WriteOK'
  BY <1>0, <1>2 DEF Disconnect
<1>3. ASSUME NEW bufs \in OutPackets, Publish(bufs) PROVE WriteOK'
  <2>1. bufs \in Seq(Seq(Byte))
    BY DEF PacketAssumption
  <2>2. CASE Putdatas(bufs, TRUE) /\ UNCHANGED broken
    BY <2>1, <2>2, PutKeepsWrites
  <2>3. CASE Putdatas(bufs, FALSE) /\ UNCHANGED broken
    BY <2>1, <2>3, PutKeepsWrites
  <2> QED BY <1>0, <1>3, <2>2, <2>3 DEF Publish
<1>4. ASSUME Select PROVE WriteOK'
  <2>1. CASE UNCHANGED <<writeVars, broken>>
    BY <2>1, UntouchedWrites
  <2>2. CASE ContinueWrite(TRUE) /\ UNCHANGED broken
    BY <2>2, ContinueKeepsWrites
  <2>3. CASE ContinueWrite(FALSE) /\ UNCHANGED broken
    BY <2>3, ContinueKeepsWrites
  <2> QED BY <1>4, <2>1, <2>2, <2>3 DEF Select
<1>5. ASSUME Gone \/ Factory \/ Handle PROVE WriteOK'
  BY <1>5, UntouchedWrites DEF Gone, Factory, Handle
<1>6. ASSUME Retry PROVE WriteOK'
  <2>1. CASE Idle
    BY <2>1, UntouchedWrites DEF Idle
  <2>2. CASE Ping
    BY <2>2, PingReqType, PutKeepsWrites DEF Ping
  <2>3. Idle \/ CloseSession \/ Ping
    BY <1>6, KeepaliveCases DEF Retry
  <2> QED BY <1>0, <2>1, <2>2, <2>3
<1>7. ASSUME After PROVE WriteOK'
  <2>1. CloseSession \/ UNCHANGED <<writeVars, broken>>
    BY <1>7 DEF After
  <2> QED BY <1>0, <2>1, UntouchedWrites
<1>8. ASSUME Tick PROVE WriteOK'
  BY <1>8, UntouchedWrites DEF Tick, streamVars
<1>9. ASSUME Broker PROVE WriteOK'
  <2>1. CASE PeerReads
    BY <2>1, PeerReadKeepsWrites
  <2>2. CASE Break
    BY <2>2, BreakKeepsWrites DEF Break
  <2>3. CASE UNCHANGED <<writeVars, broken>>
    BY <2>3, UntouchedWrites
  <2> QED BY <1>9, <2>1, <2>2, <2>3 DEF Broker, PeerSends, Arrive, streamVars
<1> QED BY <1>1, <1>2, <1>3, <1>4, <1>5, <1>6, <1>7, <1>8, <1>9 DEF Next, Step, Thread

-----------------------------------------------------------------------------
\* What the bytes of a packet are.
LEMMA EncodeType ==
  ASSUME StreamAssumption
  PROVE  \A n \in Nat : Encode[n] \in Seq(Byte) /\ Encode[n] # <<>>
<1> DEFINE good(j) == Encode[j] \in Seq(Byte) /\ Encode[j] # <<>>
           T == {k \in Nat : \A j \in 0..k : good(j)}
<1>0. LenBase \in Nat /\ LenBase > 1 /\ LenBase <= 128
  BY DEF StreamAssumption
<1>1. ASSUME NEW n \in Nat, \A j \in Nat : j < n => good(j)
      PROVE  good(n)
  <2>1. CASE n < LenBase
    <3>1. Encode[n] = <<n>>
      BY <2>1, EncodeDef
    <3>2. n \in Byte
      BY <1>0, <2>1 DEF Byte
    <3> QED BY <3>1, <3>2
  <2>2. CASE ~(n < LenBase)
    <3> DEFINE d == LenBase + (n % LenBase)
               m == n \div LenBase
    <3>1. Encode[n] = <<d>> \o Encode[m]
      BY <2>2, EncodeDef
    <3>2. m \in Nat /\ n % LenBase \in 0..LenBase - 1 /\ m < n
      BY <1>0, <2>2, Digits
    <3>3. d \in Byte
      BY <1>0, <3>2 DEF Byte
    <3> HIDE DEF d, m
    <3>4. Encode[m] \in Seq(Byte) /\ <<d>> \in Seq(Byte) /\ <<d>> # <<>>
      BY <1>1, <3>2, <3>3
    <3>5. <<d>> \o Encode[m] \in Seq(Byte) /\ <<d>> \o Encode[m] # <<>>
      BY <3>4, ConcatProperties, ConcatEqualIffEmpty
    <3> QED BY <3>1, <3>5
  <2> QED BY <2>1, <2>2
<1> HIDE DEF good
<1>2. 0 \in T
  <2>1. good(0)
    BY <1>1
  <2> QED BY <2>1
<1>3. ASSUME NEW k \in Nat, k \in T PROVE k + 1 \in T
  <2>1. \A j \in Nat : j < k + 1 => good(j)
    BY <1>3
  <2>2. good(k + 1)
    BY <1>1, <2>1
  <2>3. \A j \in 0..k + 1 : good(j)
    BY <2>1, <2>2
  <2> QED BY <2>3
<1> HIDE DEF T
<1>4. \A n \in Nat : n \in T
  BY <1>2, <1>3, Induct
<1>5. \A n \in Nat : good(n)
  BY <1>4 DEF T
<1> QED BY <1>5 DEF good

LEMMA HeaderType ==
  ASSUME StreamAssumption, NEW p \in Packet
  PROVE  /\ HeaderOf(p) \in Seq(Byte) /\ Len(HeaderOf(p)) \in Nat /\ Len(HeaderOf(p)) > 1
         /\ HeaderOf(p)[1] = p.type
         /\ p.data \in Seq(Byte) /\ Len(p.data) \in Nat
         /\ Wire(p) \in Seq(Byte) /\ Wire(p) = HeaderOf(p) \o p.data /\ Wire(p) # <<>>
<1> DEFINE e == Encode[Len(p.data)]
<1>1. p.type \in Byte /\ p.data \in Seq(Byte) /\ Len(p.data) \in Nat
  BY LenProperties DEF Packet
<1>2. e \in Seq(Byte) /\ e # <<>>
  BY <1>1, EncodeType
<1> HIDE DEF e
<1>3. Len(e) \in Nat /\ Len(e) # 0
  BY <1>2, EmptySeq, LenProperties
<1>4. <<p.type>> \in Seq(Byte) /\ Len(<<p.type>>) = 1 /\ <<p.type>>[1] = p.type
  BY <1>1
<1>5. HeaderOf(p) = <<p.type>> \o e
  BY DEF HeaderOf, e
<1>6. /\ HeaderOf(p) \in Seq(Byte) /\ Len(HeaderOf(p)) = 1 + Len(e)
      /\ \A i \in 1..1 + Len(e) : HeaderOf(p)[i] = IF i <= 1 THEN <<p.type>>[i] ELSE e[i - 1]
  BY <1>2, <1>4, <1>5, ConcatProperties
<1>7. HeaderOf(p)[1] = p.type
  BY <1>3, <1>4, <1>6
<1>8. Len(HeaderOf(p)) \in Nat /\ Len(HeaderOf(p)) > 1
  BY <1>3, <1>6
<1>9. Wire(p) = HeaderOf(p) \o p.data
  BY DEF Wire, HeaderOf
<1>10. Wire(p) \in Seq(Byte) /\ Len(Wire(p)) = Len(HeaderOf(p)) + Len(p.data)
  BY <1>1, <1>6, <1>9, ConcatProperties
<1>11. Wire(p) # <<>>
  BY <1>1, <1>8, <1>10, EmptySeq
<1> QED BY <1>1, <1>6, <1>7, <1>8, <1>9, <1>10, <1>11

LEMMA BytesMap ==
  ASSUME StreamAssumption, NEW ps \in Seq(Packet)
  PROVE  /\ [i \in DOMAIN ps |-> Wire(ps[i])] \in Seq(Seq(Byte))
         /\ Len([i \in DOMAIN ps |-> Wire(ps[i])]) = Len(ps)
         /\ \A i \in 1..Len(ps) : [j \in DOMAIN ps |-> Wire(ps[j])][i] = Wire(ps[i])
<1>1. DOMAIN ps = 1..Len(ps) /\ Len(ps) \in Nat
  BY LenProperties
<1>2. \A i \in 1..Len(ps) : Wire(ps[i]) \in Seq(Byte)
  <2> SUFFICES ASSUME NEW i \in 1..Len(ps) PROVE Wire(ps[i]) \in Seq(Byte)
    OBVIOUS
  <2>1. ps[i] \in Packet
    BY ElementOfSeq
  <2> QED BY <2>1, HeaderType
<1> QED BY <1>1, <1>2, IsASeq

LEMMA BytesType ==
  ASSUME StreamAssumption, NEW ps \in Seq(Packet)
  PROVE  Bytes(ps) \in Seq(Byte)
BY BytesMap, FlattenType DEF Bytes

LEMMA BytesEmpty == Bytes(<<>>) = <<>>
<1>1. [i \in DOMAIN <<>> |-> Wire(<<>>[i])] = <<>>
  OBVIOUS
<1> QED BY <1>1, FlattenEmpty DEF Bytes

LEMMA BytesAppend ==
  ASSUME StreamAssumption, NEW ps \in Seq(Packet), NEW p \in Packet
  PROVE  Bytes(Append(ps, p)) = Bytes(ps) \o Wire(p)
<1> DEFINE f == [i \in DOMAIN ps |-> Wire(ps[i])]
           q == Append(ps, p)
           g == [i \in DOMAIN q |-> Wire(q[i])]
<1>1. /\ q \in Seq(Packet) /\ Len(q) = Len(ps) + 1 /\ q[Len(ps) + 1] = p
      /\ \A i \in 1..Len(ps) : q[i] = ps[i]
  BY AppendProperties
<1>2. /\ f \in Seq(Seq(Byte)) /\ Len(f) = Len(ps)
      /\ \A i \in 1..Len(ps) : f[i] = Wire(ps[i])
  BY BytesMap
<1>3. /\ g \in Seq(Seq(Byte)) /\ Len(g) = Len(q)
      /\ \A i \in 1..Len(q) : g[i] = Wire(q[i])
  <2> HIDE DEF q
  <2> QED BY <1>1, BytesMap
<1>4. Wire(p) \in Seq(Byte) /\ Len(ps) \in Nat
  BY HeaderType, LenProperties
<1> HIDE DEF f, g, q
<1>5. /\ Append(f, Wire(p)) \in Seq(Seq(Byte)) /\ Len(Append(f, Wire(p))) = Len(f) + 1
      /\ Append(f, Wire(p))[Len(f) + 1] = Wire(p)
      /\ \A i \in 1..Len(f) : Append(f, Wire(p))[i] = f[i]
  BY <1>2, <1>4, AppendProperties
<1>6. \A i \in 1..Len(g) : g[i] = Append(f, Wire(p))[i]
  <2> SUFFICES ASSUME NEW i \in 1..Len(ps) + 1 PROVE g[i] = Append(f, Wire(p))[i]
    BY <1>1, <1>3
  <2>1. g[i] = Wire(q[i])
    BY <1>1, <1>3
  <2>2. CASE i = Len(ps) + 1
    BY <1>1, <1>2, <1>5, <2>1, <2>2
  <2>3. CASE i # Len(ps) + 1
    <3>1. i \in 1..Len(ps)
      BY <1>4, <2>3
    <3> QED BY <1>1, <1>2, <1>5, <2>1, <3>1
  <2> QED BY <2>2, <2>3
<1>7. Len(g) = Len(Append(f, Wire(p)))
  BY <1>1, <1>2, <1>3, <1>5
<1>8. g = Append(f, Wire(p))
  BY <1>3, <1>5, <1>6, <1>7, SeqEqual
<1>9. FlattenSeq(g) = FlattenSeq(f) \o Wire(p)
  BY <1>2, <1>4, <1>8, FlattenAny
<1> QED BY <1>9 DEF Bytes, f, g, q

LEMMA BytesHead ==
  ASSUME StreamAssumption, NEW ps \in Seq(Packet), ps # <<>>
  PROVE  Bytes(ps) = Wire(Head(ps)) \o Bytes(Tail(ps))
<1> DEFINE f == [i \in DOMAIN ps |-> Wire(ps[i])]
           t == Tail(ps)
           g == [i \in DOMAIN t |-> Wire(t[i])]
<1>1. /\ Head(ps) = ps[1] /\ t \in Seq(Packet) /\ Len(t) = Len(ps) - 1
      /\ \A i \in 1..Len(t) : t[i] = ps[i + 1]
  BY HeadTailProperties
<1>2. Len(ps) \in Nat /\ Len(ps) # 0
  BY EmptySeq, LenProperties
<1>3. /\ f \in Seq(Seq(Byte)) /\ Len(f) = Len(ps)
      /\ \A i \in 1..Len(ps) : f[i] = Wire(ps[i])
  BY BytesMap
<1>4. /\ g \in Seq(Seq(Byte)) /\ Len(g) = Len(t)
      /\ \A i \in 1..Len(t) : g[i] = Wire(t[i])
  <2> HIDE DEF t
  <2> QED BY <1>1, BytesMap
<1> HIDE DEF f, g, t
<1>5. f # <<>>
  BY <1>2, <1>3, EmptySeq
<1>6. Head(f) = f[1] /\ Tail(f) \in Seq(Seq(Byte)) /\ Len(Tail(f)) = Len(f) - 1
      /\ \A i \in 1..Len(Tail(f)) : Tail(f)[i] = f[i + 1]
  BY <1>3, <1>5, HeadTailProperties
<1>7. Head(f) = Wire(Head(ps))
  BY <1>1, <1>2, <1>3, <1>6
<1>8. \A i \in 1..Len(g) : g[i] = Tail(f)[i]
  <2> SUFFICES ASSUME NEW i \in 1..Len(ps) - 1 PROVE g[i] = Tail(f)[i]
    BY <1>1, <1>4
  <2>1. i + 1 \in 1..Len(ps)
    BY <1>2
  <2>2. g[i] = Wire(ps[i + 1])
    BY <1>1, <1>4
  <2>3. Tail(f)[i] = f[i + 1]
    BY <1>3, <1>6
  <2> QED BY <1>3, <2>1, <2>2, <2>3
<1>9. Len(g) = Len(Tail(f))
  BY <1>1, <1>3, <1>4, <1>6
<1>10. g = Tail(f)
  BY <1>4, <1>6, <1>8, <1>9, SeqEqual
<1>11. FlattenSeq(f) = Head(f) \o FlattenSeq(Tail(f))
  BY <1>3, <1>5, FlattenHead
<1> QED BY <1>7, <1>10, <1>11 DEF Bytes, f, g, t

\* The digit with the continuation bit has the digit as its rest.
LEMMA DigitOf ==
  ASSUME StreamAssumption, NEW r \in 0..LenBase - 1
  PROVE  r % LenBase = r /\ (LenBase + r) % LenBase = r
<1>0. LenBase \in Nat /\ LenBase > 1 /\ r \in Nat
  BY DEF StreamAssumption
<1>1. ASSUME NEW a \in Nat, NEW d \in Nat, NEW e \in 0..LenBase - 1, NEW k \in {0, 1},
             a = LenBase * d + e, a = LenBase * k + r
      PROVE  e = r
  <2>1. CASE d = k
    BY <1>0, <1>1, <2>1
  <2>2. CASE d < k
    <3>1. d = 0 /\ k = 1 /\ LenBase * d = 0 /\ LenBase * k = LenBase
      BY <1>0, <2>2
    <3> QED BY <1>0, <1>1, <3>1
  <2>3. CASE d > k
    <3>1. PICK x \in Nat : d = k + 1 + x
      <4>1. d - k - 1 \in Nat /\ d = k + 1 + (d - k - 1)
        BY <2>3
      <4> QED BY <4>1
    <3>2. LenBase * (k + 1 + x) = LenBase * k + LenBase + LenBase * x
      BY <1>0
    <3>3. LenBase * x \in Nat /\ LenBase * k \in Nat
      BY <1>0
    <3> QED BY <1>0, <1>1, <3>1, <3>2, <3>3
  <2> QED BY <2>1, <2>2, <2>3
<1>2. r % LenBase = r
  <2>1. /\ r \div LenBase \in Nat /\ r % LenBase \in 0..LenBase - 1
        /\ r = LenBase * (r \div LenBase) + (r % LenBase)
    BY <1>0, Digits
  <2>2. r = LenBase * 0 + r
    BY <1>0
  <2> QED BY <1>0, <1>1, <2>1, <2>2
<1>3. (LenBase + r) % LenBase = r
  <2> DEFINE a == LenBase + r
  <2>1. a \in Nat
    BY <1>0
  <2> HIDE DEF a
  <2>2. /\ a \div LenBase \in Nat /\ a % LenBase \in 0..LenBase - 1
        /\ a = LenBase * (a \div LenBase) + (a % LenBase)
    BY <2>1, Digits
  <2>3. a = LenBase * 1 + r
    BY <1>0 DEF a
  <2>4. a % LenBase = r
    BY <1>1, <2>1, <2>2, <2>3
  <2> QED BY <2>4 DEF a
<1> QED BY <1>2, <1>3

\* The bytes read so far begin the packet, and the next byte that arrives continues it.
LEMMA NextByte ==
  ASSUME NEW h \in Seq(Byte), NEW a \in Seq(Byte), NEW H \in Seq(Byte),
         NEW w \in Seq(Byte), NEW u \in Seq(Byte),
         a # <<>>, Len(h) < Len(H), h = SubSeq(H, 1, Len(h)), (h \o a) \o w = H \o u
  PROVE  /\ Head(a) \in Byte /\ Head(a) = H[Len(h) + 1]
         /\ Append(h, Head(a)) = SubSeq(H, 1, Len(h) + 1)
         /\ Append(h, Head(a)) \in Seq(Byte) /\ Len(Append(h, Head(a))) = Len(h) + 1
         /\ Tail(a) \in Seq(Byte) /\ Append(h, Head(a)) \o Tail(a) = h \o a
<1>1. /\ Len(h) \in Nat /\ Len(a) \in Nat /\ Len(H) \in Nat /\ Len(w) \in Nat /\ Len(u) \in Nat
      /\ Len(a) # 0
  BY EmptySeq, LenProperties
<1>2. /\ Head(a) \in Byte /\ Tail(a) \in Seq(Byte) /\ Head(a) = a[1]
      /\ Len(Tail(a)) = Len(a) - 1 /\ \A i \in 1..Len(Tail(a)) : Tail(a)[i] = a[i + 1]
  BY HeadTailProperties
<1> DEFINE x == Head(a)
           g == Append(h, x)
           m == Len(h)
<1>3. /\ g \in Seq(Byte) /\ Len(g) = m + 1 /\ g[m + 1] = x
      /\ \A i \in 1..m : g[i] = h[i]
  BY <1>2, AppendProperties
<1>4. /\ h \o a \in Seq(Byte) /\ Len(h \o a) = m + Len(a)
      /\ \A i \in 1..m + Len(a) : (h \o a)[i] = IF i <= m THEN h[i] ELSE a[i - m]
  BY ConcatProperties
<1>5. \A i \in 1..m + Len(a) + Len(w) :
         ((h \o a) \o w)[i] = IF i <= m + Len(a) THEN (h \o a)[i] ELSE w[i - (m + Len(a))]
  BY <1>4, ConcatProperties
<1>6. \A i \in 1..Len(H) + Len(u) : (H \o u)[i] = IF i <= Len(H) THEN H[i] ELSE u[i - Len(H)]
  BY ConcatProperties
<1>7. x = H[m + 1]
  <2>1. /\ m + 1 \in 1..m + Len(a) /\ m + 1 \in 1..m + Len(a) + Len(w) /\ m + 1 <= m + Len(a)
        /\ ~(m + 1 <= m) /\ (m + 1) - m = 1 /\ m + 1 \in 1..Len(H) + Len(u) /\ m + 1 <= Len(H)
    BY <1>1
  <2>2. ((h \o a) \o w)[m + 1] = (h \o a)[m + 1]
    BY <1>5, <2>1
  <2>3. (h \o a)[m + 1] = a[1]
    BY <1>4, <2>1
  <2>4. (H \o u)[m + 1] = H[m + 1]
    BY <1>6, <2>1
  <2> QED BY <1>2, <2>2, <2>3, <2>4
<1> HIDE DEF x, g
<1>8. g = SubSeq(H, 1, m + 1)
  <2>1. /\ SubSeq(H, 1, m + 1) \in Seq(Byte) /\ Len(SubSeq(H, 1, m + 1)) = m + 1
        /\ \A i \in 1..m + 1 : SubSeq(H, 1, m + 1)[i] = H[i]
    <3>1. m + 1 \in Nat /\ m + 1 <= Len(H)
      BY <1>1
    <3> QED BY <3>1, StartProperties
  <2>2. \A i \in 1..m : h[i] = H[i]
    <3>1. m \in Nat /\ m <= Len(H)
      BY <1>1
    <3>2. \A i \in 1..m : SubSeq(H, 1, m)[i] = H[i]
      BY <3>1, StartProperties
    <3> QED BY <3>2
  <2>3. \A i \in 1..m + 1 : g[i] = SubSeq(H, 1, m + 1)[i]
    <3> SUFFICES ASSUME NEW i \in 1..m + 1 PROVE g[i] = H[i]
      BY <2>1
    <3>1. CASE i = m + 1
      BY <1>3, <1>7, <3>1
    <3>2. CASE i # m + 1
      <4>1. i \in 1..m
        BY <1>1, <3>2
      <4> QED BY <1>3, <2>2, <4>1
    <3> QED BY <3>1, <3>2
  <2> QED BY <1>3, <2>1, <2>3, SeqEqual
<1>9. g \o Tail(a) = h \o a
  <2>1. Len(h \o a) = Len(g) + Len(Tail(a))
    BY <1>1, <1>2, <1>3, <1>4
  <2>2. \A i \in 1..Len(g) : (h \o a)[i] = g[i]
    <3> SUFFICES ASSUME NEW i \in 1..m + 1 PROVE (h \o a)[i] = g[i]
      BY <1>3
    <3>0. i \in 1..m + Len(a)
      BY <1>1
    <3>1. CASE i = m + 1
      <4>1. (h \o a)[i] = a[1]
        BY <1>1, <1>4, <3>0, <3>1
      <4> QED BY <1>2, <1>3, <3>1, <4>1 DEF x
    <3>2. CASE i # m + 1
      <4>1. i \in 1..m /\ i <= m
        BY <1>1, <3>2
      <4> QED BY <1>3, <1>4, <3>0, <4>1
    <3> QED BY <3>1, <3>2
  <2>3. \A i \in 1..Len(Tail(a)) : (h \o a)[Len(g) + i] = Tail(a)[i]
    <3> SUFFICES ASSUME NEW i \in 1..Len(a) - 1 PROVE (h \o a)[m + 1 + i] = a[i + 1]
      BY <1>2, <1>3
    <3>1. m + 1 + i \in 1..m + Len(a) /\ ~(m + 1 + i <= m) /\ (m + 1 + i) - m = i + 1
      BY <1>1
    <3> QED BY <1>4, <3>1
  <2> QED BY <1>2, <1>3, <1>4, <2>1, <2>2, <2>3, TwoParts
<1> QED BY <1>2, <1>3, <1>7, <1>8, <1>9 DEF x, g

-----------------------------------------------------------------------------
\* Reading.
QueueType == [saved : BOOLEAN, header : Seq(Byte), index : 0..HeaderRoom, data : Seq(Byte)]

FactoryType == [header : Byte, value : Nat, multiplier : Nat, len : 0..MaxLenBytes,
                pack : Packet, rc : {"ok", "error"}]
USE DEF FactoryType

ReadType ==
    /\ onTheWay \in Seq(Byte) /\ arriving \in Seq(Byte) /\ expected \in Seq(Packet)
    /\ queue \in QueueType
    /\ at \in {"select", "ready", "length", "data", "handle", "retry", "after"}
    /\ factory \in FactoryType
    /\ broken \in BOOLEAN /\ connected \in BOOLEAN

ReadOK == ReadType /\ ReadInv

\* What the reader keeps and what has arrived.
Stream(q, rest) == (q.header \o q.data) \o rest

LEMMA StreamOf ==
  ASSUME ReadOK, at # "handle"
  PROVE  Bytes(expected) = Stream(queue, arriving) \o onTheWay
BY DEF ReadOK, ReadInv, ReadFramed, Bytes, Stream

LEMMA StreamType ==
  ASSUME ReadOK
  PROVE  /\ queue.header \in Seq(Byte) /\ queue.data \in Seq(Byte)
         /\ queue.header \o queue.data \in Seq(Byte) /\ Stream(queue, arriving) \in Seq(Byte)
<1>1. /\ queue.header \in Seq(Byte) /\ queue.data \in Seq(Byte) /\ arriving \in Seq(Byte)
  BY DEF ReadOK, ReadType, QueueType
<1>2. queue.header \o queue.data \in Seq(Byte)
  BY <1>1, ConcatProperties
<1>3. (queue.header \o queue.data) \o arriving \in Seq(Byte)
  BY <1>1, <1>2, ConcatProperties
<1> QED BY <1>1, <1>2, <1>3 DEF Stream

LEMMA SomePacket ==
  ASSUME ReadOK, at # "handle",
         queue.header # <<>> \/ queue.data # <<>> \/ arriving # <<>> \/ onTheWay # <<>>
  PROVE  expected # <<>>
<1> SUFFICES ASSUME expected = <<>> PROVE FALSE
  OBVIOUS
<1> DEFINE h == queue.header
           d == queue.data
<1>1. Stream(queue, arriving) \o onTheWay = <<>>
  BY StreamOf, BytesEmpty
<1>2. /\ h \in Seq(Byte) /\ d \in Seq(Byte) /\ h \o d \in Seq(Byte)
      /\ Stream(queue, arriving) \in Seq(Byte)
  BY StreamType
<1>3. onTheWay \in Seq(Byte) /\ arriving \in Seq(Byte)
  BY DEF ReadOK, ReadType
<1>4. Stream(queue, arriving) = <<>> /\ onTheWay = <<>>
  BY <1>1, <1>2, <1>3, ConcatEqualIffEmpty
<1>5. (h \o d) \o arriving = <<>>
  BY <1>4 DEF Stream
<1>6. h \o d = <<>> /\ arriving = <<>>
  BY <1>2, <1>3, <1>5, ConcatEqualIffEmpty
<1>7. h = <<>> /\ d = <<>>
  BY <1>2, <1>6, ConcatEqualIffEmpty
<1> QED BY <1>4, <1>6, <1>7

\* The first packet, its header and its data.
LEMMA FirstPacket ==
  ASSUME ReadOK, StreamAssumption, expected # <<>>
  PROVE  LET p == Head(expected) IN
         /\ p \in Packet /\ HeaderOf(p) \in Seq(Byte) /\ Len(HeaderOf(p)) \in Nat
         /\ Len(HeaderOf(p)) > 1 /\ HeaderOf(p)[1] = p.type
         /\ p.data \in Seq(Byte) /\ Len(p.data) \in Nat
         /\ Bytes(Tail(expected)) \in Seq(Byte)
         /\ Bytes(expected) = (HeaderOf(p) \o p.data) \o Bytes(Tail(expected))
         /\ Wire(p) = HeaderOf(p) \o p.data
<1> DEFINE p == Head(expected)
<1>1. expected \in Seq(Packet) /\ p \in Packet /\ Tail(expected) \in Seq(Packet)
  BY HeadTailProperties DEF ReadOK, ReadType
<1>2. Bytes(expected) = Wire(p) \o Bytes(Tail(expected))
  BY <1>1, BytesHead
<1>3. Bytes(Tail(expected)) \in Seq(Byte)
  BY <1>1, BytesType
<1> HIDE DEF p
<1>4. /\ HeaderOf(p) \in Seq(Byte) /\ Len(HeaderOf(p)) \in Nat /\ Len(HeaderOf(p)) > 1
      /\ HeaderOf(p)[1] = p.type
      /\ p.data \in Seq(Byte) /\ Len(p.data) \in Nat /\ Wire(p) = HeaderOf(p) \o p.data
  BY <1>1, HeaderType
<1> QED BY <1>1, <1>2, <1>3, <1>4 DEF p

\* The reader's index is inside the header of the packet while it reads the header.
LEMMA IndexBefore ==
  ASSUME ReadOK, StreamAssumption, at \in {"ready", "length"}, expected # <<>>
  PROVE  queue.index < Len(HeaderOf(Head(expected)))
<1> DEFINE H == HeaderOf(Head(expected))
           i == queue.index
<1>1. H \in Seq(Byte) /\ Len(H) \in Nat /\ Len(H) > 1
  BY FirstPacket
<1> HIDE DEF H
<1>2. CASE at = "ready"
  <2>1. i = 0
    BY <1>2 DEF ReadOK, ReadInv, IndexInv
  <2> QED BY <1>1, <2>1 DEF H
<1>3. CASE at = "length"
  <2>1. PICK q \in Nat : H = SubSeq(H, 1, i) \o Encode[q]
    BY <1>3 DEF ReadOK, ReadInv, DecodeInv, H
  <2>2. i \in Nat /\ i <= Len(queue.header) /\ Len(queue.header) <= Len(H)
    BY <1>3 DEF ReadOK, ReadInv, IndexInv, KeptInv, ReadType, QueueType, H
  <2>3. i <= Len(H)
    <3>1. Len(queue.header) \in Nat
      BY StreamType, LenProperties
    <3> QED BY <1>1, <2>2, <3>1
  <2>4. SubSeq(H, 1, i) \in Seq(Byte) /\ Len(SubSeq(H, 1, i)) = i
    BY <1>1, <2>2, <2>3, StartProperties
  <2>5. Encode[q] \in Seq(Byte) /\ Encode[q] # <<>>
    BY EncodeType
  <2> DEFINE e == Encode[q]
             f == SubSeq(H, 1, i)
  <2>6. Len(e) \in Nat /\ Len(e) # 0
    BY <2>5, EmptySeq, LenProperties
  <2> HIDE DEF e, f
  <2>7. Len(f \o e) = Len(f) + Len(e)
    BY <2>4, <2>5, ConcatProperties DEF e, f
  <2>8. Len(H) = i + Len(e)
    BY <2>1, <2>4, <2>7 DEF e, f
  <2> QED BY <1>1, <2>2, <2>6, <2>8 DEF H
<1> QED BY <1>2, <1>3

\* Data is kept only behind a whole header, so a reader at the end of what is kept of the
\* header holds no data.
LEMMA NoDataYet ==
  ASSUME ReadOK, StreamAssumption, at \in {"ready", "length"},
         queue.saved => queue.index >= Len(queue.header)
  PROVE  queue.data = <<>> /\ queue.index = Len(queue.header)
<1>0. queue.index \in Nat /\ Len(queue.header) \in Nat /\ queue.saved \in BOOLEAN
  BY StreamType, LenProperties DEF ReadOK, ReadType, QueueType
<1>1. /\ queue.index <= Len(queue.header)
      /\ ~queue.saved => queue.index = Len(queue.header) /\ queue.data = <<>>
  BY DEF ReadOK, ReadInv, IndexInv
<1>2. queue.index = Len(queue.header)
  BY <1>0, <1>1
<1>3. ASSUME queue.data # <<>> PROVE FALSE
  <2>1. expected # <<>>
    BY <1>3, SomePacket
  <2>2. queue.header = HeaderOf(Head(expected))
    BY <1>3, <2>1 DEF ReadOK, ReadInv, KeptInv
  <2>3. queue.index < Len(HeaderOf(Head(expected)))
    BY <2>1, IndexBefore
  <2> QED BY <1>0, <1>2, <2>2, <2>3
<1> QED BY <1>2, <1>3

\* What Socket_getch does, one case after the other.
LEMMA GetchCases ==
  /\ queue.saved /\ queue.index < Len(queue.header) =>
        /\ Getch.rc = "complete" /\ Getch.c = queue.header[queue.index + 1]
        /\ Getch.queue = [queue EXCEPT !.index = @ + 1] /\ Getch.arriving = arriving
  /\ ~(queue.saved /\ queue.index < Len(queue.header)) =>
        \/ Getch.rc = "error" /\ Getch.queue = queue /\ Getch.arriving = arriving
        \/ /\ Getch.rc = "complete" /\ arriving # <<>> /\ Getch.c = Head(arriving)
           /\ Getch.queue = queueChar(queue, Head(arriving)) /\ Getch.arriving = Tail(arriving)
        \/ /\ Getch.rc = "interrupted" /\ arriving = <<>>
           /\ Getch.queue = interrupted(queue, 0) /\ Getch.arriving = arriving
BY DEF Getch

\* A byte that Socket_getch returns is the next byte of the first packet's header, and the
\* queue still holds what it has read of it.
LEMMA GetchReads ==
  ASSUME ReadOK, StreamAssumption, at \in {"ready", "length"},
         at = "length" => factory.len < MaxLenBytes, Getch.rc = "complete"
  PROVE  LET H == HeaderOf(Head(expected))
             Q == Getch.queue
         IN  /\ expected # <<>> /\ queue.index < Len(H)
             /\ Getch.c = H[queue.index + 1] /\ Getch.c \in Byte
             /\ Q \in QueueType /\ Q.index = queue.index + 1 /\ Q.index <= Len(Q.header)
             /\ Len(Q.header) <= HeaderRoom /\ Len(Q.header) <= Len(H)
             /\ Q.header = SubSeq(H, 1, Len(Q.header))
             /\ Q.data # <<>> => Q.header = H /\ Len(Q.data) < Len(Head(expected).data)
             /\ ~Q.saved => Q.index = Len(Q.header) /\ Q.data = <<>>
             /\ Getch.arriving \in Seq(Byte)
             /\ Stream(Q, Getch.arriving) = Stream(queue, arriving)
<1> DEFINE H == HeaderOf(Head(expected))
           Q == Getch.queue
           h == queue.header
           i == queue.index
<1>0. /\ queue \in QueueType /\ h \in Seq(Byte) /\ Len(h) \in Nat /\ i \in 0..HeaderRoom
      /\ arriving \in Seq(Byte) /\ HeaderRoom \in Nat
  BY LenProperties DEF ReadOK, ReadType, QueueType, StreamAssumption
<1>1. /\ i <= Len(h) /\ Len(h) <= HeaderRoom
      /\ ~queue.saved => i = Len(h) /\ queue.data = <<>>
  BY DEF ReadOK, ReadInv, IndexInv
<1>2. CASE queue.saved /\ i < Len(h)
  <2>1. /\ Getch.c = h[i + 1] /\ Q = [queue EXCEPT !.index = @ + 1] /\ Getch.arriving = arriving
    BY <1>2, GetchCases
  <2>2. h # <<>>
    BY <1>0, <1>2, EmptySeq
  <2>3. expected # <<>>
    BY <2>2, SomePacket
  <2>4. /\ Len(h) <= Len(H) /\ h = SubSeq(H, 1, Len(h))
        /\ queue.data # <<>> => h = H /\ Len(queue.data) < Len(Head(expected).data)
    BY <2>3 DEF ReadOK, ReadInv, KeptInv
  <2>5. H \in Seq(Byte) /\ Len(H) \in Nat
    BY <2>3, FirstPacket
  <2> HIDE DEF H, Q
  <2>6. i + 1 \in 1..Len(h) /\ i < Len(H) /\ i + 1 \in 0..HeaderRoom
    BY <1>0, <1>1, <1>2, <2>4, <2>5
  <2>7. h[i + 1] = H[i + 1]
    <3>1. \A j \in 1..Len(h) : SubSeq(H, 1, Len(h))[j] = H[j]
      BY <1>0, <2>4, <2>5, StartProperties
    <3> QED BY <2>4, <2>6, <3>1
  <2>8. h[i + 1] \in Byte
    BY <1>0, <2>6, ElementOfSeq
  <2>9. /\ Q \in QueueType /\ Q.index = i + 1 /\ Q.header = h /\ Q.data = queue.data
        /\ Q.saved = queue.saved
    BY <1>0, <2>1, <2>6 DEF QueueType
  <2>10. Q.index <= Len(Q.header)
    BY <1>0, <2>6, <2>9
  <2>11. Stream(Q, Getch.arriving) = Stream(queue, arriving)
    BY <2>1, <2>9 DEF Stream
  <2> QED BY <1>0, <1>1, <1>2, <2>1, <2>3, <2>4, <2>6, <2>7, <2>8, <2>9, <2>10, <2>11 DEF H, Q
<1>3. CASE ~(queue.saved /\ i < Len(h))
  <2> DEFINE x == Head(arriving)
  <2>1. /\ arriving # <<>> /\ Getch.c = x /\ Q = queueChar(queue, x)
        /\ Getch.arriving = Tail(arriving)
    BY <1>3, GetchCases
  <2>2. expected # <<>>
    BY <2>1, SomePacket
  <2>3. queue.data = <<>> /\ i = Len(h)
    <3>1. queue.saved => i >= Len(h)
      BY <1>0, <1>3
    <3> QED BY <3>1, NoDataYet
  <2>4. i < Len(H)
    BY <2>2, IndexBefore
  <2>5. H \in Seq(Byte) /\ Len(H) \in Nat /\ Head(expected).data \in Seq(Byte)
        /\ Bytes(Tail(expected)) \in Seq(Byte)
        /\ Bytes(expected) = (H \o Head(expected).data) \o Bytes(Tail(expected))
    BY <2>2, FirstPacket
  <2>6. h = SubSeq(H, 1, Len(h))
    BY <2>2 DEF ReadOK, ReadInv, KeptInv
  <2>7. i < HeaderRoom
    <3>1. CASE at = "ready"
      <4>1. i = 0 /\ HeaderRoom # 0
        BY <3>1 DEF ReadOK, ReadInv, IndexInv, StreamAssumption
      <4> QED BY <1>0, <4>1
    <3>2. CASE at = "length"
      <4>1. i = factory.len + 1
        BY <3>2 DEF ReadOK, ReadInv, DecodeInv
      <4>2. factory.len \in Nat /\ factory.len < MaxLenBytes /\ MaxLenBytes < HeaderRoom
            /\ MaxLenBytes \in Nat
        BY <3>2 DEF ReadOK, ReadType, StreamAssumption
      <4> QED BY <1>0, <4>1, <4>2
    <3> QED BY <3>1, <3>2
  <2> DEFINE u == Head(expected).data \o Bytes(Tail(expected))
  <2>8. (h \o arriving) \o onTheWay = H \o u /\ u \in Seq(Byte)
    <3>1. h \o <<>> = h
      BY <1>0, ConcatEmptySeq
    <3>2. Stream(queue, arriving) = h \o arriving
      BY <2>3, <3>1 DEF Stream
    <3>3. Bytes(expected) = (h \o arriving) \o onTheWay
      BY <3>2, StreamOf
    <3>4. u \in Seq(Byte)
      BY <2>5, ConcatProperties
    <3>5. Bytes(expected) = H \o u
      <4> DEFINE D == Head(expected).data
                 B == Bytes(Tail(expected))
      <4> HIDE DEF H, D, B
      <4>0. H \in Seq(Byte) /\ D \in Seq(Byte) /\ B \in Seq(Byte)
        BY <2>5 DEF D, B
      <4>1. (H \o D) \o B = H \o (D \o B)
        BY <4>0, BytesAssociate
      <4>2. Bytes(expected) = (H \o D) \o B
        BY <2>5 DEF D, B
      <4> QED BY <4>1, <4>2 DEF D, B
    <3> QED BY <3>3, <3>4, <3>5
  <2>9. onTheWay \in Seq(Byte) /\ Len(h) < Len(H)
    BY <2>3, <2>4 DEF ReadOK, ReadType
  <2> HIDE DEF H, u, Q, x
  <2>10. /\ x \in Byte /\ x = H[Len(h) + 1]
         /\ Append(h, x) = SubSeq(H, 1, Len(h) + 1)
         /\ Append(h, x) \in Seq(Byte) /\ Len(Append(h, x)) = Len(h) + 1
         /\ Tail(arriving) \in Seq(Byte) /\ Append(h, x) \o Tail(arriving) = h \o arriving
    BY <1>0, <2>1, <2>5, <2>6, <2>8, <2>9, NextByte DEF x
  <2>11. SubSeq(h, 1, i) = h
    BY <1>0, <2>3, SubSeqFull
  <2>12. Q = [queue EXCEPT !.header = Append(h, x), !.index = @ + 1]
    <3>1. ~(queue.index >= HeaderRoom)
      BY <1>0, <2>7
    <3>2. Q = [queue EXCEPT !.header = Append(SubSeq(h, 1, i), x), !.index = @ + 1]
      BY <2>1, <3>1 DEF queueChar
    <3> QED BY <2>11, <3>2
  <2>13. /\ Q \in QueueType /\ Q.index = i + 1 /\ Q.header = Append(h, x) /\ Q.data = <<>>
         /\ Q.saved = queue.saved
    <3>1. i + 1 \in 0..HeaderRoom
      BY <1>0, <2>7
    <3> QED BY <1>0, <2>3, <2>10, <2>12, <3>1 DEF QueueType
  <2>14. Stream(Q, Getch.arriving) = Stream(queue, arriving)
    <3>1. h \o <<>> = h /\ Append(h, x) \o <<>> = Append(h, x)
      BY <1>0, <2>10, ConcatEmptySeq
    <3> QED BY <2>1, <2>3, <2>10, <2>13, <3>1 DEF Stream
  <2>15. /\ Len(Q.header) = i + 1 /\ Q.index <= Len(Q.header) /\ Q.index = Len(Q.header)
         /\ Len(Q.header) <= HeaderRoom /\ Len(Q.header) <= Len(H)
    BY <1>0, <2>3, <2>4, <2>5, <2>7, <2>10, <2>13
  <2>16. Q.header = SubSeq(H, 1, Len(Q.header)) /\ x = H[i + 1]
    BY <2>3, <2>10, <2>13, <2>15
  <2>17. Getch.c = H[i + 1] /\ Getch.c \in Byte /\ Getch.arriving \in Seq(Byte)
    BY <2>1, <2>10, <2>16
  <2> QED BY <2>2, <2>4, <2>13, <2>14, <2>15, <2>16, <2>17 DEF H, Q
<1> QED BY <1>2, <1>3

\* A step of Factory leaves these alone.
OnlyReads == connected /\ UNCHANGED <<onTheWay, expected, broken, connected>>

LEMMA FrameKept ==
  ASSUME ReadOK, at # "handle", at' # "handle", OnlyReads,
         Stream(queue', arriving') = Stream(queue, arriving)
  PROVE  ReadFramed'
<1>1. Bytes(expected) = Stream(queue, arriving) \o onTheWay
  BY StreamOf
<1>2. expected' = expected /\ onTheWay' = onTheWay
  BY DEF OnlyReads
<1>3. Bytes(expected') = Stream(queue', arriving') \o onTheWay'
  BY <1>1, <1>2
<1> QED BY <1>3 DEF ReadFramed, Bytes, Stream

LEMMA NoPacketType ==
  ASSUME NEW rc, NoPacket(rc), StreamAssumption
  PROVE  /\ at' = "retry"
         /\ factory' \in FactoryType
         /\ rc = "error" => factory'.rc = "error"
<1>1. 0 \in Byte /\ <<>> \in Seq(Byte) /\ 0 \in 0..MaxLenBytes
  BY EmptySeq DEF Byte, StreamAssumption
<1>2. [type |-> 0, data |-> <<>>] \in Packet
  BY <1>1 DEF Packet
<1>3. NoFactory \in FactoryType
  BY <1>1, <1>2 DEF NoFactory
<1> QED BY <1>3 DEF NoPacket

\* An error leaves what has been read as it is.
LEMMA StopOnError ==
  ASSUME ReadOK, StreamAssumption, at # "handle", OnlyReads,
         NoPacket("error"), UNCHANGED <<queue, arriving>>
  PROVE  ReadOK'
<1>1. /\ at' = "retry" /\ factory'.rc = "error"
      /\ factory' \in FactoryType
  BY NoPacketType
<1>2. ReadType'
  BY <1>1 DEF ReadOK, ReadType, OnlyReads
<1>3. ReadFramed'
  BY <1>1, FrameKept DEF OnlyReads
<1>4. IndexInv'
  BY <1>1 DEF ReadOK, ReadInv, IndexInv, OnlyReads
<1>5. KeptInv'
  BY <1>1 DEF ReadOK, ReadInv, KeptInv, OnlyReads
<1>6. DecodeInv'
  BY <1>1 DEF DecodeInv
<1> QED BY <1>2, <1>3, <1>4, <1>5, <1>6 DEF ReadOK, ReadInv

\* An interruption in the header keeps the header and starts again at its first byte.
LEMMA StopInHeader ==
  ASSUME ReadOK, StreamAssumption, at \in {"ready", "length"}, OnlyReads,
         NoPacket("interrupted"), queue' = interrupted(queue, 0), arriving' = arriving,
         queue.saved => queue.index >= Len(queue.header)
  PROVE  ReadOK'
<1>1. /\ at' = "retry"
      /\ factory' \in FactoryType
  BY NoPacketType
<1>2. queue.data = <<>>
  BY NoDataYet
<1>3. SubSeq(queue.data, 1, 0) = <<>>
  BY SubSeqEmpty
<1>4. queue \in QueueType /\ HeaderRoom \in Nat /\ Len(queue.header) \in Nat
  BY StreamType, LenProperties DEF ReadOK, ReadType, StreamAssumption
<1>5. /\ queue' \in QueueType /\ queue'.saved = TRUE /\ queue'.index = 0
      /\ queue'.data = <<>> /\ queue'.header = queue.header
  <2>1. queue' = [queue EXCEPT !.saved = TRUE, !.index = 0, !.data = <<>>]
    BY <1>3 DEF interrupted
  <2>2. <<>> \in Seq(Byte) /\ 0 \in 0..HeaderRoom
    BY <1>4, EmptySeq
  <2> QED BY <1>4, <2>1, <2>2 DEF QueueType
<1>6. ReadType'
  BY <1>1, <1>5 DEF ReadOK, ReadType, OnlyReads
<1>7. ReadFramed'
  <2>1. Stream(queue', arriving') = Stream(queue, arriving)
    BY <1>2, <1>5 DEF Stream
  <2> QED BY <1>1, <2>1, FrameKept
<1>8. IndexInv'
  BY <1>1, <1>4, <1>5 DEF ReadOK, ReadInv, IndexInv, OnlyReads
<1>9. KeptInv'
  BY <1>1, <1>5 DEF ReadOK, ReadInv, KeptInv, OnlyReads
<1>10. DecodeInv'
  BY <1>1 DEF DecodeInv
<1> QED BY <1>6, <1>7, <1>8, <1>9, <1>10 DEF ReadOK, ReadInv

\* Socket_getch without a byte.
LEMMA GetchStops ==
  ASSUME ReadOK, StreamAssumption, at \in {"ready", "length"}, OnlyReads,
         Getch.rc # "complete", NoPacket(Getch.rc),
         queue' = Getch.queue, arriving' = Getch.arriving
  PROVE  ReadOK'
<1>1. ~(queue.saved /\ queue.index < Len(queue.header))
  BY GetchCases
<1>2. queue.saved => queue.index >= Len(queue.header)
  <2>1. queue.index \in Nat /\ Len(queue.header) \in Nat
    BY StreamType, LenProperties DEF ReadOK, ReadType, QueueType
  <2> QED BY <1>1, <2>1
<1>3. CASE Getch.rc = "error"
  <2>1. Getch.queue = queue /\ Getch.arriving = arriving
    BY <1>1, <1>3, GetchCases
  <2> QED BY <1>3, <2>1, StopOnError
<1>4. CASE Getch.rc # "error"
  <2>1. /\ Getch.rc = "interrupted" /\ Getch.queue = interrupted(queue, 0)
        /\ Getch.arriving = arriving
    BY <1>1, <1>4, GetchCases
  <2> QED BY <1>2, <2>1, StopInHeader
<1> QED BY <1>3, <1>4

\* Everything but what is decoded, after a byte of the header.
LEMMA HeaderByte ==
  ASSUME ReadOK, StreamAssumption, at \in {"ready", "length"}, OnlyReads,
         at = "length" => factory.len < MaxLenBytes, Getch.rc = "complete",
         queue' = Getch.queue, arriving' = Getch.arriving, at' \in {"length", "data"},
         factory' \in FactoryType
  PROVE  ReadType' /\ ReadFramed' /\ IndexInv' /\ KeptInv'
<1> DEFINE H == HeaderOf(Head(expected))
           Q == Getch.queue
<1>1. /\ expected # <<>> /\ queue.index < Len(H)
      /\ Q \in QueueType /\ Q.index = queue.index + 1 /\ Q.index <= Len(Q.header)
      /\ Len(Q.header) <= HeaderRoom /\ Len(Q.header) <= Len(H)
      /\ Q.header = SubSeq(H, 1, Len(Q.header))
      /\ Q.data # <<>> => Q.header = H /\ Len(Q.data) < Len(Head(expected).data)
      /\ ~Q.saved => Q.index = Len(Q.header) /\ Q.data = <<>>
      /\ Getch.arriving \in Seq(Byte)
      /\ Stream(Q, Getch.arriving) = Stream(queue, arriving)
  BY GetchReads
<1> HIDE DEF Q
<1>2. queue' = Q /\ expected' = expected /\ connected' = connected /\ connected
  BY DEF Q, OnlyReads
<1>3. ReadType'
  BY <1>1, <1>2 DEF ReadOK, ReadType, OnlyReads
<1>4. ReadFramed'
  BY <1>1, <1>2, FrameKept
<1>5. IndexInv'
  BY <1>1, <1>2 DEF IndexInv
<1>6. KeptInv'
  BY <1>1, <1>2 DEF KeptInv
<1> QED BY <1>3, <1>4, <1>5, <1>6

LEMMA ReadHeaderKeeps ==
  ASSUME ReadOK, StreamAssumption, OnlyReads, ReadHeader
  PROVE  ReadOK'
<1>0. at = "ready" /\ queue' = Getch.queue /\ arriving' = Getch.arriving
  BY DEF ReadHeader
<1>1. CASE Getch.rc = "complete"
  <2> DEFINE p == Head(expected)
             H == HeaderOf(p)
  <2>1. factory' = [NoFactory EXCEPT !.header = Getch.c] /\ at' = "length"
    BY <1>1 DEF ReadHeader
  <2>2. /\ expected # <<>> /\ Getch.c = H[queue.index + 1] /\ Getch.c \in Byte
        /\ Getch.queue.index = queue.index + 1
    BY <1>0, <1>1, GetchReads
  <2>3. /\ p \in Packet /\ H \in Seq(Byte) /\ H[1] = p.type /\ p.data \in Seq(Byte)
        /\ Len(p.data) \in Nat /\ p.type \in Byte
    BY <2>2, FirstPacket DEF Packet
  <2>4. queue.index = 0
    BY <1>0 DEF ReadOK, ReadInv, IndexInv
  <2> DEFINE x == Getch.c
  <2>5. x = p.type /\ x \in Byte /\ queue'.index = 1
    BY <1>0, <2>2, <2>3, <2>4
  <2> HIDE DEF x
  <2>6. factory' = [header |-> x, value |-> 0, multiplier |-> 1, len |-> 0,
                    pack |-> [type |-> 0, data |-> <<>>], rc |-> "ok"]
    BY <2>1 DEF NoFactory, x
  <2>7. /\ factory' \in FactoryType
        /\ factory'.header = x /\ factory'.value = 0 /\ factory'.multiplier = 1 /\ factory'.len = 0
    <3>1. 0 \in Byte /\ <<>> \in Seq(Byte) /\ 0 \in 0..MaxLenBytes
      BY EmptySeq DEF Byte, StreamAssumption
    <3>2. [type |-> 0, data |-> <<>>] \in Packet
      BY <3>1 DEF Packet
    <3> QED BY <2>5, <2>6, <3>1, <3>2
  <2>8. ReadType' /\ ReadFramed' /\ IndexInv' /\ KeptInv'
    BY <1>0, <1>1, <2>1, <2>7, HeaderByte
  <2>9. expected' = expected
    BY DEF OnlyReads
  <2>10. H = SubSeq(H, 1, 1) \o Encode[Len(p.data)]
    <3> DEFINE e == Encode[Len(p.data)]
    <3>1. e \in Seq(Byte)
      BY <2>3, EncodeType
    <3> HIDE DEF e
    <3>2. H = <<p.type>> \o e
      BY DEF HeaderOf, e
    <3>3. <<p.type>> \in Seq(Byte) /\ Len(<<p.type>>) = 1
      BY <2>3
    <3>4. SubSeq(<<p.type>> \o e, 1, 1) = <<p.type>>
      BY <3>1, <3>3, StartOfConcat
    <3> QED BY <3>2, <3>4 DEF e
  <2>11. Len(p.data) = 0 + 1 * Len(p.data)
    BY <2>3
  <2>12. DecodeInv'
    <3>1. /\ expected' # <<>> /\ factory'.header = Head(expected').type
      BY <2>2, <2>5, <2>7, <2>9
    <3>2. queue'.index = factory'.len + 1
      BY <2>5, <2>7
    <3>3. /\ Len(Head(expected').data) = factory'.value + factory'.multiplier * Len(p.data)
          /\ HeaderOf(Head(expected')) =
                SubSeq(HeaderOf(Head(expected')), 1, queue'.index) \o Encode[Len(p.data)]
      BY <2>5, <2>7, <2>9, <2>10, <2>11
    <3> HIDE DEF p
    <3> QED BY <2>1, <2>3, <3>1, <3>2, <3>3 DEF DecodeInv
  <2> QED BY <2>8, <2>12 DEF ReadOK, ReadInv
<1>2. CASE Getch.rc # "complete"
  <2>1. NoPacket(Getch.rc)
    BY <1>2 DEF ReadHeader
  <2> QED BY <1>0, <1>2, <2>1, GetchStops
<1> QED BY <1>1, <1>2

\* MQTTPacket_decode: a digit that is read says what it encodes of the remaining length, and
\* the other digits encode the rest of it.
LEMMA DigitRead ==
  ASSUME StreamAssumption, NEW H \in Seq(Byte), NEW i \in Nat, i < Len(H),
         NEW q \in Nat, H = SubSeq(H, 1, i) \o Encode[q]
  PROVE  /\ H[i + 1] < LenBase => H[i + 1] = q /\ q < LenBase /\ Len(H) = i + 1
         /\ ~(H[i + 1] < LenBase) => H = SubSeq(H, 1, i + 1) \o Encode[q \div LenBase]
         /\ H[i + 1] % LenBase = q % LenBase
<1> DEFINE f == SubSeq(H, 1, i)
           e == Encode[q]
<1>0. LenBase \in Nat /\ LenBase > 1 /\ Len(H) \in Nat /\ i <= Len(H)
  BY LenProperties DEF StreamAssumption
<1>1. f \in Seq(Byte) /\ Len(f) = i /\ e \in Seq(Byte)
  BY <1>0, StartProperties, EncodeType
<1>2. Len(e) \in Nat
  BY <1>1, LenProperties
<1>3. Len(f \o e) = i + Len(e)
      /\ \A j \in 1..i + Len(e) : (f \o e)[j] = IF j <= i THEN f[j] ELSE e[j - i]
  <2>1. Len(f \o e) = Len(f) + Len(e)
        /\ \A j \in 1..Len(f) + Len(e) : (f \o e)[j] = IF j <= Len(f) THEN f[j] ELSE e[j - Len(f)]
    <3> HIDE DEF f, e
    <3> QED BY <1>1, ConcatProperties
  <2> HIDE DEF f, e
  <2> QED BY <1>1, <2>1
<1>4. H = f \o e
  OBVIOUS
<1> HIDE DEF f, e
<1>5. Len(H) = i + Len(e) /\ H[i + 1] = e[1]
  <2>1. Len(H) = i + Len(e)
    BY <1>3, <1>4
  <2>2. i + 1 \in 1..i + Len(e) /\ ~(i + 1 <= i) /\ (i + 1) - i = 1
    BY <1>0, <1>2, <2>1
  <2>3. (f \o e)[i + 1] = e[1]
    BY <1>3, <2>2
  <2> QED BY <1>4, <2>1, <2>3
<1>6. CASE q < LenBase
  <2>1. e = <<q>>
    BY <1>6, EncodeDef DEF e
  <2>2. Len(e) = 1 /\ e[1] = q
    BY <2>1
  <2> QED BY <1>0, <1>5, <1>6, <2>2
<1>7. CASE ~(q < LenBase)
  <2> DEFINE r == q % LenBase
             m == q \div LenBase
             d == LenBase + r
             g == Encode[m]
  <2>1. r \in 0..LenBase - 1 /\ m \in Nat
    BY Digits
  <2>2. e = <<d>> \o g
    BY <1>7, EncodeDef DEF e
  <2>3. g \in Seq(Byte)
    BY <2>1, EncodeType
  <2> HIDE DEF r, g
  <2>4. d \in Byte /\ ~(d < LenBase) /\ d \in Nat
    BY <1>0, <2>1 DEF Byte, StreamAssumption
  <2>5. d % LenBase = r /\ r % LenBase = r
    BY <2>1, DigitOf
  <2> HIDE DEF d, m
  <2>6. <<d>> \in Seq(Byte) /\ Len(<<d>>) = 1 /\ <<d>>[1] = d
    BY <2>4
  <2>7. Len(e) = 1 + Len(g) /\ e[1] = d
    <3>1. /\ Len(<<d>> \o g) = 1 + Len(g)
          /\ \A j \in 1..1 + Len(g) : (<<d>> \o g)[j] = IF j <= 1 THEN <<d>>[j] ELSE g[j - 1]
      BY <2>3, <2>6, ConcatProperties
    <3>2. Len(g) \in Nat
      BY <2>3, LenProperties
    <3> QED BY <2>2, <2>6, <3>1, <3>2
  <2>8. H = SubSeq(H, 1, i + 1) \o g
    <3>1. H = (f \o <<d>>) \o g
      BY <1>1, <1>4, <2>2, <2>3, <2>6, BytesAssociate
    <3>2. f \o <<d>> \in Seq(Byte) /\ Len(f \o <<d>>) = i + 1
      BY <1>1, <2>6, ConcatProperties
    <3> DEFINE s == f \o <<d>>
    <3> HIDE DEF s
    <3>3. SubSeq(s \o g, 1, Len(s)) = s
      BY <2>3, <3>2, StartOfConcat DEF s
    <3> QED BY <3>1, <3>2, <3>3 DEF s
  <2>9. H[i + 1] = d
    BY <1>5, <2>7
  <2>10. ~(H[i + 1] < LenBase) /\ H[i + 1] % LenBase = q % LenBase
    BY <2>4, <2>5, <2>9 DEF r
  <2> QED BY <2>8, <2>10 DEF g, m
<1> QED BY <1>6, <1>7

LEMMA ReadLengthKeeps ==
  ASSUME ReadOK, StreamAssumption, OnlyReads, ReadLength
  PROVE  ReadOK'
<1>0. at = "length"
  BY DEF ReadLength
<1>1. CASE factory.len >= MaxLenBytes
  BY <1>0, <1>1, StopOnError DEF ReadLength
<1>2. CASE ~(factory.len >= MaxLenBytes) /\ Getch.rc # "complete"
  <2>1. queue' = Getch.queue /\ arriving' = Getch.arriving /\ NoPacket(Getch.rc)
    BY <1>0, <1>2 DEF ReadLength
  <2> QED BY <1>0, <1>2, <2>1, GetchStops
<1>3. CASE ~(factory.len >= MaxLenBytes) /\ Getch.rc = "complete"
  <2> DEFINE p == Head(expected)
             H == HeaderOf(p)
             i == queue.index
             c == Getch.c
  <2>0. /\ factory \in FactoryType
        /\ MaxLenBytes \in Nat /\ LenBase \in Nat /\ LenBase > 1 /\ i \in Nat
    BY DEF ReadOK, ReadType, StreamAssumption, QueueType
  <2>1. factory.len < MaxLenBytes
    BY <1>3, <2>0
  <2>2. /\ queue' = Getch.queue /\ arriving' = Getch.arriving
        /\ factory' = [factory EXCEPT !.len = @ + 1,
                                      !.value = @ + (Getch.c % LenBase) * factory.multiplier,
                                      !.multiplier = @ * LenBase]
        /\ at' = IF Getch.c >= LenBase THEN "length" ELSE "data"
    BY <1>0, <1>3 DEF ReadLength
  <2>3. /\ expected # <<>> /\ i < Len(H) /\ c = H[i + 1] /\ c \in Byte
        /\ Getch.queue.index = i + 1
    BY <1>0, <1>3, <2>1, GetchReads
  <2>4. H \in Seq(Byte) /\ Len(H) \in Nat /\ Len(p.data) \in Nat /\ expected' = expected
    BY <2>3, FirstPacket DEF OnlyReads
  <2>5. factory.header = p.type /\ i = factory.len + 1
    BY <1>0 DEF ReadOK, ReadInv, DecodeInv
  <2>6. PICK q \in Nat : /\ Len(p.data) = factory.value + factory.multiplier * q
                         /\ H = SubSeq(H, 1, i) \o Encode[q]
    BY <1>0 DEF ReadOK, ReadInv, DecodeInv
  <2> HIDE DEF H, c
  <2>7. /\ H[i + 1] < LenBase => H[i + 1] = q /\ q < LenBase /\ Len(H) = i + 1
        /\ ~(H[i + 1] < LenBase) => H = SubSeq(H, 1, i + 1) \o Encode[q \div LenBase]
        /\ H[i + 1] % LenBase = q % LenBase
    <3>1. H \in Seq(Byte) /\ i \in Nat /\ i < Len(H)
      BY <2>0, <2>3, <2>4
    <3>2. H = SubSeq(H, 1, i) \o Encode[q]
      BY <2>6
    <3> HIDE DEF i
    <3> QED BY <3>1, <3>2, DigitRead
  <2> DEFINE r == q % LenBase
             m == q \div LenBase
             mu == factory.multiplier
             v == factory.value
  <2>8. r \in 0..LenBase - 1 /\ m \in Nat /\ q = LenBase * m + r /\ c % LenBase = r
    BY <2>3, <2>7, Digits
  <2> HIDE DEF r, m
  <2>9. r \in Nat /\ mu \in Nat /\ v \in Nat /\ r * mu \in Nat /\ mu * LenBase \in Nat
    BY <2>0, <2>8
  <2>10. factory' = [factory EXCEPT !.len = @ + 1, !.value = @ + r * mu, !.multiplier = @ * LenBase]
    BY <2>2, <2>8 DEF c
  <2>11. /\ factory'.len = factory.len + 1 /\ factory'.value = v + r * mu
         /\ factory'.multiplier = mu * LenBase /\ factory'.header = factory.header
         /\ factory' \in FactoryType
    <3>1. factory.len + 1 \in 0..MaxLenBytes /\ v + r * mu \in Nat
      BY <2>0, <2>1, <2>9
    <3> QED BY <2>0, <2>9, <2>10, <3>1
  <2>12. at' \in {"length", "data"} /\ (at' = "length" => ~(c < LenBase)) /\ (at' = "data" => c < LenBase)
    <3>1. c \in Nat
      <4>1. c \in Byte
        BY <2>3
      <4> QED BY <4>1 DEF Byte
    <3> QED BY <2>0, <2>2, <3>1 DEF c
  <2>13. ReadType' /\ ReadFramed' /\ IndexInv' /\ KeptInv'
    BY <1>0, <1>3, <2>1, <2>2, <2>11, <2>12, HeaderByte
  <2>14. queue'.index = i + 1 /\ Head(expected') = p /\ expected' # <<>>
    BY <2>2, <2>3, <2>4
  <2>15. Len(p.data) = (v + r * mu) + (mu * LenBase) * m
    <3>1. Len(p.data) = v + mu * (LenBase * m + r)
      BY <2>6, <2>8
    <3>2. mu * (LenBase * m + r) = mu * (LenBase * m) + mu * r
      BY <2>0, <2>8, <2>9
    <3>3. mu * (LenBase * m) = (mu * LenBase) * m /\ mu * r = r * mu
      BY <2>0, <2>8, <2>9
    <3>4. (mu * LenBase) * m \in Nat
      BY <2>8, <2>9
    <3> QED BY <2>9, <3>1, <3>2, <3>3, <3>4
  <2>16. CASE at' = "length"
    <3>1. ~(H[i + 1] < LenBase)
      BY <2>3, <2>12, <2>16
    <3>2. H = SubSeq(H, 1, i + 1) \o Encode[m]
      BY <2>7, <3>1 DEF m
    <3>3. /\ Len(p.data) = factory'.value + factory'.multiplier * m
          /\ H = SubSeq(H, 1, queue'.index) \o Encode[m]
      BY <2>11, <2>14, <2>15, <3>2
    <3>4. queue'.index = factory'.len + 1
      BY <2>5, <2>11, <2>14
    <3>5. DecodeInv'
      BY <2>5, <2>8, <2>11, <2>14, <2>16, <3>3, <3>4 DEF DecodeInv, H
    <3> QED BY <2>13, <3>5 DEF ReadOK, ReadInv
  <2>17. CASE at' = "data"
    <3>1. c < LenBase /\ c = q /\ q < LenBase /\ Len(H) = i + 1
      BY <2>3, <2>7, <2>12, <2>17
    <3>2. r = q
      <4>1. q \in 0..LenBase - 1
        BY <2>0, <3>1
      <4> QED BY <4>1, DigitOf DEF r
    <3>3. v + r * mu = Len(p.data)
      <4>1. mu * q = r * mu
        BY <2>9, <3>2
      <4> QED BY <2>6, <4>1
    <3>4. factory'.value = Len(p.data) /\ queue'.index = Len(H)
      BY <2>11, <2>14, <3>1, <3>3
    <3>5. DecodeInv'
      BY <2>5, <2>11, <2>14, <2>17, <3>4 DEF DecodeInv, H
    <3> QED BY <2>13, <3>5 DEF ReadOK, ReadInv
  <2> QED BY <2>12, <2>16, <2>17
<1> QED BY <1>1, <1>2, <1>3

LEMMA CancelLeft ==
  ASSUME NEW S, NEW a \in Seq(S), NEW b \in Seq(S), NEW c \in Seq(S), a \o b = a \o c
  PROVE  b = c
BY ConcatSimplifications, Zenon

LEMMA SameStart ==
  ASSUME NEW S, NEW a \in Seq(S), NEW b \in Seq(S), NEW c \in Seq(S), NEW d \in Seq(S),
         Len(a) = Len(c), a \o b = c \o d
  PROVE  a = c
<1>1. SubSeq(a \o b, 1, Len(a)) = a /\ SubSeq(c \o d, 1, Len(c)) = c
  BY StartOfConcat
<1> QED BY <1>1

LEMMA EmptyQueueType ==
  /\ EmptyQueue.index = 0 /\ EmptyQueue.header = <<>>
  /\ EmptyQueue.data = <<>> /\ EmptyQueue.saved = FALSE
  /\ StreamAssumption => EmptyQueue \in QueueType
BY EmptySeq DEF EmptyQueue, QueueType, StreamAssumption

\* Socket_getdata: more of the data of the first packet, or all of it.
LEMMA ReadDataKeeps ==
  ASSUME ReadOK, StreamAssumption, OnlyReads, ReadData
  PROVE  ReadOK'
<1> DEFINE p    == Head(expected)
           H    == HeaderOf(p)
           D    == p.data
           kept == queue.data
           n    == Min2(factory.value - Len(kept), Len(arriving))
           new  == SubSeq(arriving, 1, n)
           data == kept \o new
           rest == From(arriving, n + 1)
<1>0. at = "data" /\ expected # <<>> /\ factory.header = p.type /\ factory.value = Len(D)
      /\ queue.index = Len(H)
  BY DEF ReadData, ReadOK, ReadInv, DecodeInv
<1>1. /\ p \in Packet /\ H \in Seq(Byte) /\ Len(H) \in Nat /\ D \in Seq(Byte) /\ Len(D) \in Nat
      /\ Bytes(Tail(expected)) \in Seq(Byte)
      /\ Bytes(expected) = (H \o D) \o Bytes(Tail(expected)) /\ Wire(p) = H \o D
  BY <1>0, FirstPacket
<1>2. /\ queue \in QueueType /\ queue.header \in Seq(Byte) /\ Len(queue.header) \in Nat
      /\ kept \in Seq(Byte) /\ Len(kept) \in Nat
      /\ arriving \in Seq(Byte) /\ Len(arriving) \in Nat /\ onTheWay \in Seq(Byte)
  BY StreamType, LenProperties DEF ReadOK, ReadType
<1>3. /\ queue.index <= Len(queue.header) /\ Len(queue.header) <= HeaderRoom
      /\ ~queue.saved => queue.data = <<>>
  BY DEF ReadOK, ReadInv, IndexInv
<1>4. /\ Len(queue.header) <= Len(H) /\ queue.header = SubSeq(H, 1, Len(queue.header))
      /\ kept # <<>> => Len(kept) < Len(D)
  BY <1>0 DEF ReadOK, ReadInv, KeptInv
<1>5. queue.header = H
  <2>1. Len(queue.header) = Len(H)
    BY <1>0, <1>1, <1>2, <1>3, <1>4
  <2>2. SubSeq(H, 1, Len(H)) = H
    BY <1>1, SubSeqFull
  <2> QED BY <1>4, <2>1, <2>2
<1>6. (IF queue.saved THEN queue.data ELSE <<>>) = kept
  BY <1>3
<1>7. Len(kept) <= Len(D)
  <2>1. CASE kept = <<>>
    BY <1>1, <1>2, <2>1, EmptySeq
  <2>2. CASE kept # <<>>
    BY <1>1, <1>2, <1>4, <2>2
  <2> QED BY <2>1, <2>2
<1>8. n \in Nat /\ n <= Len(arriving) /\ Len(kept) + n <= Len(D)
  <2> DEFINE a == factory.value - Len(kept)
             b == Len(arriving)
  <2>1. a \in Nat /\ b \in Nat /\ Len(kept) + a = Len(D)
    BY <1>0, <1>1, <1>2, <1>7
  <2>2. n = Min2(a, b)
    OBVIOUS
  <2> HIDE DEF a
  <2> QED BY <1>1, <1>2, <2>1, <2>2 DEF Min2
<1>9. \/ Len(data) = factory.value /\ Complete(data, rest)
      \/ /\ Len(data) # factory.value /\ n = 0 /\ broken /\ NoPacket("error")
         /\ UNCHANGED <<queue, arriving>>
      \/ /\ Len(data) # factory.value
         /\ queue' = interrupted([queue EXCEPT !.data = data], Len(data))
         /\ arriving' = rest /\ NoPacket("interrupted")
  <2> DEFINE kk == IF queue.saved THEN queue.data ELSE <<>>
             m  == Min2(factory.value - Len(kk), Len(arriving))
             all == kk \o SubSeq(arriving, 1, m)
  <2>1. IF Len(all) = factory.value
        THEN Complete(all, From(arriving, m + 1))
        ELSE IF m = 0 /\ broken
        THEN NoPacket("error") /\ UNCHANGED <<queue, arriving>>
        ELSE /\ queue' = interrupted([queue EXCEPT !.data = all], Len(all))
             /\ arriving' = From(arriving, m + 1)
             /\ NoPacket("interrupted")
    BY DEF ReadData
  <2>2. kk = kept
    BY <1>6
  <2>3. m = n /\ all = data /\ From(arriving, m + 1) = rest
    BY <2>2
  <2> HIDE DEF kk, m, all, data, rest, n
  <2> QED BY <2>1, <2>3
<1> HIDE DEF n
<1>10. /\ new \in Seq(Byte) /\ Len(new) = n /\ rest \in Seq(Byte)
       /\ arriving = new \o rest
  BY <1>2, <1>8, StartProperties, FromProperties, SplitAt
<1> HIDE DEF new, rest
<1>11. data \in Seq(Byte) /\ Len(data) = Len(kept) + n
  BY <1>2, <1>10, ConcatProperties
<1>12. Stream(queue, arriving) = (H \o data) \o rest
  <2>1. (H \o kept) \o (new \o rest) = ((H \o kept) \o new) \o rest
    <3>1. H \o kept \in Seq(Byte)
      BY <1>1, <1>2, ConcatProperties
    <3> DEFINE hk == H \o kept
    <3> HIDE DEF hk
    <3>2. hk \in Seq(Byte) /\ new \in Seq(Byte) /\ rest \in Seq(Byte)
      BY <1>10, <3>1 DEF hk
    <3>3. (hk \o new) \o rest = hk \o (new \o rest)
      BY <3>2, BytesAssociate
    <3> QED BY <3>3 DEF hk
  <2>2. (H \o kept) \o new = H \o data
    <3> HIDE DEF H, kept
    <3>1. H \in Seq(Byte) /\ kept \in Seq(Byte) /\ new \in Seq(Byte)
      BY <1>1, <1>2, <1>10 DEF H, kept
    <3>2. (H \o kept) \o new = H \o (kept \o new)
      BY <3>1, BytesAssociate
    <3> QED BY <3>2
  <2> QED BY <1>5, <1>10, <2>1, <2>2 DEF Stream
<1>13. Bytes(expected) = ((H \o data) \o rest) \o onTheWay
  BY <1>0, <1>12, StreamOf
<1> HIDE DEF data, H, D, kept
<1>14. CASE Len(data) = factory.value /\ Complete(data, rest)
  <2>1. /\ queue' = EmptyQueue /\ arriving' = rest /\ at' = "handle"
        /\ factory' = [factory EXCEPT !.pack = [type |-> factory.header, data |-> data]]
    BY <1>14 DEF Complete
  <2>2. data = D /\ Bytes(Tail(expected)) = rest \o onTheWay
    <3> DEFINE B == Bytes(Tail(expected))
               ro == rest \o onTheWay
    <3>1. ro \in Seq(Byte)
      BY <1>2, <1>10, ConcatProperties
    <3>2. B \in Seq(Byte)
      BY <1>1
    <3>3. H \o data \in Seq(Byte) /\ H \o D \in Seq(Byte)
      BY <1>1, <1>11, ConcatProperties
    <3>4. ((H \o data) \o rest) \o onTheWay = (H \o data) \o ro
      <4> DEFINE hd == H \o data
      <4> HIDE DEF hd
      <4>1. hd \in Seq(Byte) /\ rest \in Seq(Byte) /\ onTheWay \in Seq(Byte)
        BY <1>2, <1>10, <3>3 DEF hd
      <4>2. (hd \o rest) \o onTheWay = hd \o (rest \o onTheWay)
        BY <4>1, BytesAssociate
      <4> QED BY <4>2 DEF hd
    <3> HIDE DEF ro, B
    <3>5. (H \o data) \o ro = H \o (data \o ro) /\ (H \o D) \o B = H \o (D \o B)
      <4>1. /\ H \in Seq(Byte) /\ data \in Seq(Byte) /\ ro \in Seq(Byte)
            /\ D \in Seq(Byte) /\ B \in Seq(Byte)
        BY <1>1, <1>11, <3>1, <3>2 DEF H, D
      <4>2. \A a, b, c \in Seq(Byte) : (a \o b) \o c = a \o (b \o c)
        BY BytesAssociate
      <4> QED BY <4>1, <4>2
    <3>6. H \o (data \o ro) = H \o (D \o B)
      BY <1>1, <1>13, <3>4, <3>5 DEF B
    <3>7. data \o ro \in Seq(Byte) /\ D \o B \in Seq(Byte)
      BY <1>1, <1>11, <3>1, <3>2, ConcatProperties
    <3>8. data \o ro = D \o B
      BY <1>1, <3>6, <3>7, CancelLeft
    <3>9. Len(data) = Len(D)
      BY <1>0, <1>14 DEF D
    <3>10. data = D
      BY <1>1, <1>11, <3>1, <3>2, <3>8, <3>9, SameStart
    <3>11. ro = B
      BY <1>1, <3>1, <3>2, <3>8, <3>10, CancelLeft
    <3> QED BY <3>10, <3>11 DEF ro, B
  <2>3. [type |-> factory.header, data |-> data] = p
    BY <1>0, <1>1, <2>2 DEF Packet, D
  <2>4. factory.header \in Byte /\ factory \in FactoryType
    BY DEF ReadOK, ReadType
  <2>5. /\ factory'.pack = p
        /\ factory' \in FactoryType
    <3> HIDE DEF p
    <3>1. factory' = [factory EXCEPT !.pack = p]
      BY <2>1, <2>3
    <3> QED BY <1>1, <2>4, <3>1
  <2>6. EmptyQueue \in QueueType /\ EmptyQueue.index = 0 /\ EmptyQueue.header = <<>>
        /\ EmptyQueue.data = <<>> /\ EmptyQueue.saved = FALSE
    BY EmptyQueueType
  <2>7. ReadType'
    BY <1>10, <2>1, <2>5, <2>6 DEF ReadOK, ReadType, OnlyReads
  <2>8. IndexInv'
    BY <2>1, <2>6, EmptySeq DEF IndexInv, StreamAssumption
  <2>9. KeptInv' /\ DecodeInv'
    BY <2>1 DEF KeptInv, DecodeInv
  <2>10. ReadFramed'
    <3> DEFINE B == Bytes(Tail(expected))
    <3>1. Bytes(expected) = Wire(p) \o (rest \o onTheWay)
      BY <1>1, <2>2
    <3>2. Wire(p) \in Seq(Byte)
      BY <1>1, ConcatProperties
    <3>3. Wire(p) \o (rest \o onTheWay) = (Wire(p) \o rest) \o onTheWay
      <4> DEFINE wp == Wire(p)
      <4>1. wp \in Seq(Byte)
        BY <3>2
      <4> HIDE DEF wp
      <4>2. (wp \o rest) \o onTheWay = wp \o (rest \o onTheWay)
        <5>1. wp \in Seq(Byte) /\ rest \in Seq(Byte) /\ onTheWay \in Seq(Byte)
          BY <1>2, <1>10, <4>1
        <5> QED BY <5>1, BytesAssociate
      <4> QED BY <4>2 DEF wp
    <3>4. expected' = expected /\ onTheWay' = onTheWay
      BY DEF OnlyReads
    <3>5. Bytes(expected') = (Wire(factory'.pack) \o arriving') \o onTheWay'
      BY <2>1, <2>5, <3>1, <3>3, <3>4
    <3>6. expected' # <<>> /\ factory'.pack = Head(expected')
      BY <1>0, <2>5, <3>4
    <3> QED BY <2>1, <3>5, <3>6 DEF ReadFramed, Bytes
  <2> QED BY <2>7, <2>8, <2>9, <2>10 DEF ReadOK, ReadInv
<1>15. CASE NoPacket("error") /\ UNCHANGED <<queue, arriving>>
  BY <1>0, <1>15, StopOnError
<1>16. CASE /\ Len(data) # factory.value
            /\ queue' = interrupted([queue EXCEPT !.data = data], Len(data))
            /\ arriving' = rest /\ NoPacket("interrupted")
  <2>1. /\ at' = "retry"
        /\ factory' \in FactoryType
    BY <1>16, NoPacketType
  <2>2. SubSeq(data, 1, Len(data)) = data
    BY <1>11, SubSeqFull
  <2>3. queue' = [queue EXCEPT !.saved = TRUE, !.index = 0, !.data = data]
    <3>1. [queue EXCEPT !.data = data].data = data
      BY <1>2 DEF QueueType
    <3>2. queue' = [[queue EXCEPT !.data = data] EXCEPT !.saved = TRUE, !.index = 0, !.data = data]
      BY <1>16, <2>2, <3>1 DEF interrupted
    <3> QED BY <1>2, <3>2 DEF QueueType
  <2>4. /\ queue' \in QueueType /\ queue'.saved = TRUE /\ queue'.index = 0
        /\ queue'.data = data /\ queue'.header = queue.header
    <3>1. 0 \in 0..HeaderRoom
      BY DEF StreamAssumption
    <3> QED BY <1>2, <1>11, <2>3, <3>1 DEF QueueType
  <2>5. ReadType'
    BY <1>10, <1>16, <2>1, <2>4 DEF ReadOK, ReadType, OnlyReads
  <2>6. ReadFramed'
    <3>1. Stream(queue', arriving') = Stream(queue, arriving)
      BY <1>5, <1>12, <1>16, <2>4 DEF Stream
    <3> QED BY <1>0, <2>1, <3>1, FrameKept
  <2>7. IndexInv'
    <3>1. 0 <= Len(queue.header)
      BY <1>2
    <3> QED BY <1>3, <2>1, <2>4, <3>1 DEF IndexInv, OnlyReads
  <2>8. KeptInv'
    <3>1. Len(data) < Len(D)
      <4>1. Len(data) # Len(D) /\ Len(data) <= Len(D) /\ Len(data) \in Nat
        BY <1>0, <1>2, <1>8, <1>11, <1>16 DEF D, kept
      <4> QED BY <1>1, <4>1
    <3>2. expected' = expected
      BY DEF OnlyReads
    <3> QED BY <1>4, <1>5, <2>1, <2>4, <3>1, <3>2 DEF KeptInv, H, D
  <2>9. DecodeInv'
    BY <2>1 DEF DecodeInv
  <2> QED BY <2>5, <2>6, <2>7, <2>8, <2>9 DEF ReadOK, ReadInv
<1> QED BY <1>9, <1>14, <1>15, <1>16 DEF data, new, rest, n, kept

LEMMA MoveHead ==
  ASSUME NEW S, NEW a \in Seq(S), NEW b \in Seq(S), b # <<>>
  PROVE  Append(a, Head(b)) \o Tail(b) = a \o b
<1> DEFINE x == Head(b)
           t == Tail(b)
<1>1. x \in S /\ t \in Seq(S) /\ <<x>> \in Seq(S)
  BY HeadTailProperties
<1>2. b = <<x>> \o t
  <2>1. Len(b) \in Nat /\ Len(b) # 0 /\ x = b[1] /\ Len(t) = Len(b) - 1
        /\ \A i \in 1..Len(t) : t[i] = b[i + 1]
    BY HeadTailProperties, EmptySeq, LenProperties
  <2>2. Len(<<x>>) = 1 /\ <<x>>[1] = x
    OBVIOUS
  <2> HIDE DEF x, t
  <2>3. Len(b) = Len(<<x>>) + Len(t)
    BY <2>1, <2>2
  <2>4. \A i \in 1..Len(<<x>>) : b[i] = <<x>>[i]
    BY <2>1, <2>2
  <2>5. \A i \in 1..Len(t) : b[Len(<<x>>) + i] = t[i]
    <3> SUFFICES ASSUME NEW i \in 1..Len(t) PROVE b[1 + i] = t[i]
      BY <2>2
    <3>1. 1 + i = i + 1
      BY <2>1
    <3> QED BY <2>1, <3>1
  <2> QED BY <1>1, <2>3, <2>4, <2>5, TwoParts
<1> HIDE DEF x, t
<1>3. Append(a, x) = a \o <<x>>
  BY <1>1, AppendIsConcat
<1>4. (a \o <<x>>) \o t = a \o (<<x>> \o t)
  BY <1>1, Associative
<1> QED BY <1>2, <1>3, <1>4 DEF x, t

LEMMA AppendConcat ==
  ASSUME NEW a \in Seq(Byte), NEW b \in Seq(Byte), NEW e \in Byte
  PROVE  Append(a \o b, e) = a \o Append(b, e)
<1>1. a \o b \in Seq(Byte) /\ <<e>> \in Seq(Byte)
  BY ConcatProperties
<1>2. Append(a \o b, e) = (a \o b) \o <<e>> /\ Append(b, e) = b \o <<e>>
  BY <1>1, AppendIsConcat
<1>3. (a \o b) \o <<e>> = a \o (b \o <<e>>)
  BY <1>1, BytesAssociate
<1> QED BY <1>2, <1>3

\* A closed session has nothing to read, and it is not closed in the middle of a packet.
LEMMA CloseKeepsReads ==
  ASSUME CloseSession, StreamAssumption, at' \in {"select", "ready", "after"},
         factory' \in FactoryType
  PROVE  ReadOK'
<1>1. /\ connected' = FALSE /\ queue' = EmptyQueue /\ onTheWay' = <<>> /\ arriving' = <<>>
      /\ expected' = <<>> /\ broken' = FALSE
  BY DEF CloseSession, CloseSocket
<1>2. <<>> \in Seq(Byte) /\ <<>> \in Seq(Packet) /\ Len(<<>>) = 0 /\ HeaderRoom \in Nat
  BY EmptySeq DEF StreamAssumption
<1>3. ReadType'
  BY <1>1, <1>2, EmptyQueueType DEF ReadType
<1>4. IndexInv'
  BY <1>1, <1>2, EmptyQueueType DEF IndexInv
<1>5. KeptInv' /\ DecodeInv'
  BY <1>1 DEF KeptInv, DecodeInv
<1>6. ReadFramed'
  <2>1. ((<<>> \o <<>>) \o <<>>) \o <<>> = <<>>
    BY <1>2, ConcatEmptySeq
  <2>2. Bytes(expected') = Stream(queue', arriving') \o onTheWay'
    BY <1>1, <2>1, BytesEmpty, EmptyQueueType DEF Stream
  <2> QED BY <1>1, <2>2 DEF ReadFramed, Bytes, Stream
<1> QED BY <1>3, <1>4, <1>5, <1>6 DEF ReadOK, ReadInv

\* The background thread goes on to another step and has not touched the stream.
LEMMA MoveKeepsReads ==
  ASSUME ReadOK, StreamAssumption, UNCHANGED <<queue, peerVars, broken, connected>>,
         factory' \in FactoryType, at \in {"select", "ready", "retry", "after"},
         at' \in {"select", "ready", "retry", "after"}, queue.index = 0
  PROVE  ReadOK'
<1>1. /\ queue' = queue /\ onTheWay' = onTheWay /\ arriving' = arriving
      /\ expected' = expected /\ broken' = broken /\ connected' = connected
  BY DEF peerVars
<1>2. ReadType'
  BY <1>1 DEF ReadOK, ReadType
<1>3. IndexInv'
  BY <1>1 DEF ReadOK, ReadInv, IndexInv
<1>4. KeptInv'
  BY <1>1 DEF ReadOK, ReadInv, KeptInv
<1>5. DecodeInv'
  BY DEF DecodeInv
<1>6. ReadFramed'
  BY <1>1 DEF ReadOK, ReadInv, ReadFramed
<1> QED BY <1>2, <1>3, <1>4, <1>5, <1>6 DEF ReadOK, ReadInv

\* The end of a cycle whose read failed keeps the index; the session is closed next.
LEMMA SameKeepsReads ==
  ASSUME ReadOK, UNCHANGED <<queue, factory, peerVars>>, broken' \in BOOLEAN,
         connected' = connected \/ (~connected /\ connected'), connected' \in BOOLEAN,
         at' = at \/ (at = "retry" /\ at' = "after")
  PROVE  ReadOK'
<1>1. /\ queue' = queue /\ onTheWay' = onTheWay /\ arriving' = arriving /\ factory' = factory
      /\ expected' = expected
  BY DEF peerVars
<1>2. ReadType'
  BY <1>1 DEF ReadOK, ReadType
<1>3. IndexInv'
  BY <1>1 DEF ReadOK, ReadInv, IndexInv
<1>4. KeptInv'
  BY <1>1 DEF ReadOK, ReadInv, KeptInv
<1>5. DecodeInv'
  <2>1. CASE at' = at
    BY <1>1, <2>1 DEF ReadOK, ReadInv, DecodeInv
  <2>2. CASE at' = "after"
    BY <2>2 DEF DecodeInv
  <2> QED BY <2>1, <2>2
<1>6. ReadFramed'
  BY <1>1 DEF ReadOK, ReadInv, ReadFramed
<1> QED BY <1>2, <1>3, <1>4, <1>5, <1>6 DEF ReadOK, ReadInv

\* The packet is handled: what follows it begins the stream.
LEMMA HandleKeepsReads ==
  ASSUME ReadOK, StreamAssumption, Handle
  PROVE  ReadOK'
<1>1. /\ at = "handle" /\ at' = "retry" /\ expected' = Tail(expected)
      /\ queue' = queue /\ factory' = factory /\ onTheWay' = onTheWay /\ arriving' = arriving
      /\ broken' = broken /\ connected' = connected
  BY DEF Handle, readVars
<1>2. /\ expected # <<>> /\ factory.pack = Head(expected)
      /\ Bytes(expected) = (Wire(factory.pack) \o arriving) \o onTheWay
  BY <1>1 DEF ReadOK, ReadInv, ReadFramed, Bytes
<1>3. expected \in Seq(Packet) /\ Tail(expected) \in Seq(Packet) /\ Head(expected) \in Packet
      /\ arriving \in Seq(Byte) /\ onTheWay \in Seq(Byte)
  BY <1>2, HeadTailProperties DEF ReadOK, ReadType
<1> DEFINE w == Wire(Head(expected))
           B == Bytes(Tail(expected))
<1>4. w \in Seq(Byte) /\ B \in Seq(Byte) /\ Bytes(expected) = w \o B
  BY <1>2, <1>3, HeaderType, BytesType, BytesHead
<1>5. (w \o arriving) \o onTheWay = w \o B
  BY <1>2, <1>4
<1> HIDE DEF w, B
<1>6. arriving \o onTheWay \in Seq(Byte)
  BY <1>3, ConcatProperties
<1>7. (w \o arriving) \o onTheWay = w \o (arriving \o onTheWay)
  <2>1. \A a, b, c \in Seq(Byte) : (a \o b) \o c = a \o (b \o c)
    BY BytesAssociate
  <2> QED BY <1>3, <1>4, <2>1
<1>8. B = arriving \o onTheWay
  <2> DEFINE ao == arriving \o onTheWay
  <2> HIDE DEF ao
  <2>1. w \o ao = w \o B /\ ao \in Seq(Byte)
    BY <1>5, <1>6, <1>7 DEF ao
  <2>2. ao = B
    BY <1>4, <2>1, CancelLeft
  <2> QED BY <2>2 DEF ao
<1>9. queue = EmptyQueue
  BY <1>1 DEF ReadOK, ReadInv, IndexInv
<1>10. ReadType'
  BY <1>1, <1>3 DEF ReadOK, ReadType
<1>11. IndexInv'
  BY <1>1, <1>9, EmptyQueueType DEF ReadOK, ReadInv, IndexInv
<1>12. KeptInv'
  <2> SUFFICES ASSUME expected' # <<>>
               PROVE  LET H == HeaderOf(Head(expected')) IN
                      0 <= Len(H) /\ <<>> = SubSeq(H, 1, 0)
    BY <1>1, <1>9, EmptyQueueType, EmptySeq DEF KeptInv
  <2>1. Head(expected') \in Packet
    BY <1>1, <1>3, HeadTailProperties
  <2>2. Len(HeaderOf(Head(expected'))) \in Nat
    BY <2>1, HeaderType
  <2> QED BY <2>2, SubSeqEmpty
<1>13. DecodeInv'
  BY <1>1 DEF DecodeInv
<1>14. ReadFramed'
  <2>1. Stream(EmptyQueue, arriving) = arriving
    <3>1. <<>> \o <<>> = <<>> /\ <<>> \o arriving = arriving
      BY <1>3, EmptySeq, ConcatEmptySeq
    <3> QED BY <3>1, EmptyQueueType DEF Stream
  <2>2. Bytes(expected') = Stream(queue', arriving') \o onTheWay'
    BY <1>1, <1>8, <1>9, <2>1 DEF B
  <2> QED BY <1>1, <2>2 DEF ReadFramed, Bytes, Stream
<1> QED BY <1>10, <1>11, <1>12, <1>13, <1>14 DEF ReadOK, ReadInv

\* A packet of the peer follows what is already on its way.
LEMMA PeerSendKeepsReads ==
  ASSUME ReadOK, StreamAssumption, NEW p \in Packet, PeerSends(p), connected, UNCHANGED connected
  PROVE  ReadOK'
<1>1. /\ onTheWay' = onTheWay \o Wire(p) /\ expected' = Append(expected, p)
      /\ arriving' = arriving /\ queue' = queue /\ factory' = factory /\ at' = at
      /\ broken' = broken /\ connected' = connected
  BY DEF PeerSends, readVars
<1>2. /\ expected \in Seq(Packet) /\ onTheWay \in Seq(Byte) /\ arriving \in Seq(Byte)
      /\ Wire(p) \in Seq(Byte)
  BY HeaderType DEF ReadOK, ReadType
<1>3. expected' \in Seq(Packet) /\ expected' # <<>> /\ onTheWay' \in Seq(Byte)
  BY <1>1, <1>2, AppendProperties, ConcatProperties
<1>4. expected # <<>> => Head(expected') = Head(expected)
  BY <1>1, <1>2
<1>5. ReadType'
  BY <1>1, <1>3 DEF ReadOK, ReadType
<1>6. IndexInv'
  BY <1>1 DEF ReadOK, ReadInv, IndexInv
<1>7. KeptInv'
  <2>1. CASE expected # <<>> \/ at = "handle"
    BY <1>1, <1>4, <2>1 DEF ReadOK, ReadInv, KeptInv
  <2>2. CASE expected = <<>> /\ at # "handle"
    <3>1. queue.header = <<>> /\ queue.data = <<>>
      BY <2>2, SomePacket
    <3>2. Head(expected') \in Packet
      BY <1>3, HeadTailProperties
    <3>3. Len(HeaderOf(Head(expected'))) \in Nat
      BY <3>2, HeaderType
    <3> QED BY <1>1, <3>1, <3>3, EmptySeq, SubSeqEmpty DEF KeptInv
  <2> QED BY <2>1, <2>2
<1>8. DecodeInv'
  BY <1>1, <1>3, <1>4 DEF ReadOK, ReadInv, DecodeInv
<1>9. ReadFramed'
  <2> DEFINE front == (IF at = "handle" THEN Wire(factory.pack) ELSE queue.header \o queue.data) \o arriving
  <2>1. Bytes(expected) = front \o onTheWay
    BY DEF ReadOK, ReadInv, ReadFramed, Bytes
  <2>2. front \in Seq(Byte)
    <3>1. Wire(factory.pack) \in Seq(Byte)
      <4>1. factory.pack \in Packet
        BY DEF ReadOK, ReadType
      <4> QED BY <4>1, HeaderType
    <3>2. queue.header \o queue.data \in Seq(Byte)
      BY StreamType
    <3> QED BY <1>2, <3>1, <3>2, ConcatProperties
  <2> HIDE DEF front
  <2>3. Bytes(expected') = (front \o onTheWay) \o Wire(p)
    BY <1>1, <1>2, <2>1, BytesAppend
  <2>4. (front \o onTheWay) \o Wire(p) = front \o (onTheWay \o Wire(p))
    <3>1. \A a, b, c \in Seq(Byte) : (a \o b) \o c = a \o (b \o c)
      BY BytesAssociate
    <3> QED BY <1>2, <2>2, <3>1
  <2>5. Bytes(expected') = front \o onTheWay'
    BY <1>1, <2>3, <2>4
  <2>6. at' = "handle" => expected' # <<>> /\ factory'.pack = Head(expected')
    BY <1>1, <1>3, <1>4 DEF ReadOK, ReadInv, ReadFramed
  <2> QED BY <1>1, <2>5, <2>6 DEF ReadFramed, Bytes, front
<1> QED BY <1>5, <1>6, <1>7, <1>8, <1>9 DEF ReadOK, ReadInv

\* The network brings the next byte.
LEMMA ArriveKeepsReads ==
  ASSUME ReadOK, StreamAssumption, Arrive, UNCHANGED connected
  PROVE  ReadOK'
<1>1. /\ onTheWay # <<>> /\ arriving' = Append(arriving, Head(onTheWay))
      /\ onTheWay' = Tail(onTheWay) /\ expected' = expected
      /\ queue' = queue /\ factory' = factory /\ at' = at
      /\ broken' = broken /\ connected' = connected
  BY DEF Arrive, readVars
<1>2. onTheWay \in Seq(Byte) /\ arriving \in Seq(Byte)
  BY DEF ReadOK, ReadType
<1>3. Head(onTheWay) \in Byte /\ Tail(onTheWay) \in Seq(Byte) /\ arriving' \in Seq(Byte)
  BY <1>1, <1>2, HeadTailProperties, AppendProperties
<1>4. ReadType'
  BY <1>1, <1>3 DEF ReadOK, ReadType
<1>5. IndexInv' /\ KeptInv' /\ DecodeInv'
  <2>1. IndexInv'
    BY <1>1 DEF ReadOK, ReadInv, IndexInv
  <2>2. KeptInv'
    BY <1>1 DEF ReadOK, ReadInv, KeptInv
  <2>3. DecodeInv'
    BY <1>1 DEF ReadOK, ReadInv, DecodeInv
  <2> QED BY <2>1, <2>2, <2>3
<1>6. ReadFramed'
  <2> DEFINE front == IF at = "handle" THEN Wire(factory.pack) ELSE queue.header \o queue.data
  <2>1. Bytes(expected) = (front \o arriving) \o onTheWay
    BY DEF ReadOK, ReadInv, ReadFramed, Bytes
  <2>2. front \in Seq(Byte)
    <3>1. Wire(factory.pack) \in Seq(Byte)
      <4>1. factory.pack \in Packet
        BY DEF ReadOK, ReadType
      <4> QED BY <4>1, HeaderType
    <3>2. queue.header \o queue.data \in Seq(Byte)
      BY StreamType
    <3> QED BY <3>1, <3>2
  <2> HIDE DEF front
  <2>3. Append(front \o arriving, Head(onTheWay)) \o Tail(onTheWay) = (front \o arriving) \o onTheWay
    <3> DEFINE fa == front \o arriving
    <3>1. fa \in Seq(Byte)
      BY <1>2, <2>2, ConcatProperties
    <3> HIDE DEF fa
    <3>2. Append(fa, Head(onTheWay)) \o Tail(onTheWay) = fa \o onTheWay
      BY <1>1, <1>2, <3>1, MoveHead
    <3> QED BY <3>2 DEF fa
  <2>4. Append(front \o arriving, Head(onTheWay)) = front \o Append(arriving, Head(onTheWay))
    <3> DEFINE x == Head(onTheWay)
    <3>1. x \in Byte /\ front \in Seq(Byte) /\ arriving \in Seq(Byte)
      BY <1>2, <1>3, <2>2
    <3> HIDE DEF x
    <3>2. Append(front \o arriving, x) = front \o Append(arriving, x)
      BY <3>1, AppendConcat
    <3> QED BY <3>2 DEF x
  <2>5. Bytes(expected') = (front \o arriving') \o onTheWay'
    BY <1>1, <2>1, <2>3, <2>4
  <2>6. at' = "handle" => expected' # <<>> /\ factory'.pack = Head(expected')
    BY <1>1 DEF ReadOK, ReadInv, ReadFramed
  <2> QED BY <1>1, <2>5, <2>6 DEF ReadFramed, Bytes, front
<1> QED BY <1>4, <1>5, <1>6 DEF ReadOK, ReadInv

LEMMA NoFactoryType ==
  ASSUME StreamAssumption
  PROVE  NoFactory \in FactoryType
<1>1. 0 \in Byte /\ <<>> \in Seq(Byte) /\ 0 \in 0..MaxLenBytes
  BY EmptySeq DEF Byte, StreamAssumption
<1>2. [type |-> 0, data |-> <<>>] \in Packet
  BY <1>1 DEF Packet
<1> QED BY <1>1, <1>2 DEF NoFactory

LEMMA ReadsKept ==
  ASSUME ReadOK, Next, ping_outstanding \in {0, 1},
         StreamAssumption, PacketAssumption
  PROVE  ReadOK'
<1>0. /\ factory \in FactoryType /\ connected \in BOOLEAN /\ broken \in BOOLEAN
      /\ at \in {"select", "ready"} \/ (at = "retry" /\ factory.rc = "ok") => queue.index = 0
      /\ factory.rc \in {"ok", "error"}
  BY DEF ReadOK, ReadType, ReadInv, IndexInv
<1>1. ASSUME Connect PROVE ReadOK'
  BY <1>0, <1>1, SameKeepsReads DEF Connect, streamVars, readVars, peerVars
<1>2. ASSUME Disconnect PROVE ReadOK'
  BY <1>0, <1>2, CloseKeepsReads DEF Disconnect, MutexFree
<1>3. ASSUME NEW bufs \in OutPackets, Publish(bufs) PROVE ReadOK'
  <2>1. MutexFree /\ at' = at
    BY <1>3 DEF Publish
  <2>2. \/ CloseSession /\ UNCHANGED factory
        \/ UNCHANGED <<readVars, peerVars, broken, connected>>
    BY <1>3 DEF Publish
  <2>3. CASE CloseSession /\ UNCHANGED factory
    BY <1>0, <2>1, <2>3, CloseKeepsReads DEF MutexFree
  <2>4. CASE UNCHANGED <<readVars, peerVars, broken, connected>>
    BY <1>0, <2>1, <2>4, SameKeepsReads DEF readVars
  <2> QED BY <2>2, <2>3, <2>4
<1>4. ASSUME Select PROVE ReadOK'
  <2>1. /\ at = "select" /\ factory' = NoFactory /\ at' \in {"ready", "retry"}
        /\ UNCHANGED <<queue, peerVars, broken, connected>>
    BY <1>4 DEF Select
  <2>2. factory' \in FactoryType
    BY <2>1, NoFactoryType
  <2> QED BY <1>0, <2>1, <2>2, MoveKeepsReads
<1>5. ASSUME Gone PROVE ReadOK'
  <2>1. /\ at = "ready" /\ at' = "retry" /\ UNCHANGED <<queue, factory, peerVars, broken, connected>>
    BY <1>5 DEF Gone, readVars
  <2> QED BY <1>0, <2>1, MoveKeepsReads
<1>6. ASSUME Factory PROVE ReadOK'
  <2>1. OnlyReads
    BY <1>6 DEF Factory, OnlyReads
  <2>2. ReadHeader \/ ReadLength \/ ReadData
    BY <1>6 DEF Factory
  <2> QED BY <2>1, <2>2, ReadHeaderKeeps, ReadLengthKeeps, ReadDataKeeps
<1>7. ASSUME Handle PROVE ReadOK'
  BY <1>7, HandleKeepsReads
<1>8. ASSUME Retry PROVE ReadOK'
  <2>1. /\ at = "retry" /\ at' = IF factory.rc = "error" THEN "after" ELSE "select"
        /\ factory' = factory
    BY <1>8 DEF Retry
  <2>2. \/ CloseSession
        \/ UNCHANGED <<queue, peerVars, broken, connected>>
    <3>1. Idle \/ CloseSession \/ Ping
      BY <1>8, KeepaliveCases DEF Retry
    <3> QED BY <3>1 DEF Idle, Ping
  <2>3. CASE CloseSession
    BY <1>0, <2>1, <2>3, CloseKeepsReads
  <2>4. CASE UNCHANGED <<queue, peerVars, broken, connected>> /\ factory.rc = "error"
    BY <1>0, <2>1, <2>4, SameKeepsReads
  <2>5. CASE UNCHANGED <<queue, peerVars, broken, connected>> /\ factory.rc # "error"
    <3>1. queue.index = 0
      BY <1>0, <2>1, <2>5
    <3> QED BY <1>0, <2>1, <2>5, <3>1, MoveKeepsReads
  <2> QED BY <2>2, <2>3, <2>4, <2>5
<1>9. ASSUME After PROVE ReadOK'
  <2>1. at = "after" /\ at' = "select" /\ factory' = factory
    BY <1>9 DEF After
  <2>2. CASE connected
    <3>1. CloseSession
      BY <1>9, <2>2 DEF After
    <3> QED BY <1>0, <2>1, <3>1, CloseKeepsReads
  <2>3. CASE ~connected
    <3>1. UNCHANGED <<queue, peerVars, broken, connected>>
      BY <1>9, <2>3 DEF After
    <3>2. queue.index = 0
      BY <2>3, EmptyQueueType DEF ReadOK, ReadInv, IndexInv
    <3> QED BY <1>0, <2>1, <3>1, <3>2, MoveKeepsReads
  <2> QED BY <2>2, <2>3
<1>10. ASSUME Tick PROVE ReadOK'
  BY <1>0, <1>10, SameKeepsReads DEF Tick, streamVars, readVars, peerVars
<1>11. ASSUME Broker PROVE ReadOK'
  <2>0. connected /\ connected' = connected
    BY <1>11 DEF Broker
  <2>1. CASE PeerReads
    BY <1>0, <2>0, <2>1, SameKeepsReads DEF PeerReads, readVars
  <2>2. CASE \E p \in Packet : PeerSends(p)
    BY <2>0, <2>2, PeerSendKeepsReads
  <2>3. CASE Arrive
    BY <2>0, <2>3, ArriveKeepsReads
  <2>4. CASE Break
    BY <1>0, <2>0, <2>4, SameKeepsReads DEF Break, readVars
  <2>5. CASE UNCHANGED streamVars
    BY <1>0, <2>0, <2>5, SameKeepsReads DEF streamVars, readVars
  <2>6. PingResp \in Packet
    <3>1. PINGRESP \in Byte /\ <<>> \in Seq(Byte)
      BY EmptySeq DEF PacketAssumption
    <3> QED BY <3>1 DEF PingResp, Packet
  <2>7. InPackets \subseteq Packet
    BY DEF PacketAssumption
  <2> QED BY <1>11, <2>1, <2>2, <2>3, <2>4, <2>5, <2>6, <2>7 DEF Broker
<1> QED BY <1>1, <1>2, <1>3, <1>4, <1>5, <1>6, <1>7, <1>8, <1>9, <1>10, <1>11 DEF Next, Step, Thread

-----------------------------------------------------------------------------
\* Pings.  What is written is told apart byte by byte, and what comes back by the packet.
ReqAt(s)  == {i \in DOMAIN s : s[i] = PINGREQ}
RespAt(s) == {i \in DOMAIN s : s[i] = PingResp}
OnlyOne(S) == \A i, j \in S : i = j

\* No PINGREQ is kept in part, a broken connection has no peer, and a PINGRESP is an answer.
\* A ping of the connection is in one place: written, with the broker, or on its way back.
PingInv ==
    /\ OnlyOne(ReqAt(owed)) /\ OnlyOne(RespAt(expected))
    /\ ReqAt(owed) = {} \/ RespAt(expected) = {}
    /\ ping_outstanding = 0 => ReqAt(owed) = {} /\ RespAt(expected) = {}
    /\ pending.listed => ReqAt(FlattenSeq(pending.bufs)) = {}
    /\ broken => ~peerAlive /\ connected
    /\ \A i \in DOMAIN expected : expected[i].type = PINGRESP => expected[i] = PingResp
    /\ pinged \in {0, 1}
    /\ connected /\ pinged = 1 =>
           ReqAt(owed) = {} /\ RespAt(expected) = {} /\ ping_outstanding = 1
    /\ connected /\ ping_outstanding = 1 =>
           ReqAt(owed) # {} \/ RespAt(expected) # {} \/ pinged = 1

LEMMA PingCount == PingInv /\ ping_outstanding \in {0, 1} => OnePing
<1> SUFFICES ASSUME PingInv, ping_outstanding \in {0, 1}, connected PROVE OnePing
  BY DEF OnePing
<1>1. ASSUME NEW T, OnlyOne(T) PROVE Cardinality(T) = IF T = {} THEN 0 ELSE 1
  <2>1. CASE T = {}
    BY <2>1, FS_EmptySet
  <2>2. CASE T # {}
    <3>1. PICK x : T = {x}
      BY <1>1, <2>2 DEF OnlyOne
    <3> QED BY <2>2, <3>1, FS_Singleton
  <2> QED BY <2>1, <2>2
<1> DEFINE a == Cardinality(ReqAt(owed))
           b == Cardinality(RespAt(expected))
<1>2. a = IF ReqAt(owed) = {} THEN 0 ELSE 1
  BY <1>1 DEF PingInv
<1>3. b = IF RespAt(expected) = {} THEN 0 ELSE 1
  BY <1>1 DEF PingInv
<1> HIDE DEF a, b
<1>4. a + pinged + b = ping_outstanding
  BY <1>2, <1>3 DEF PingInv
<1> QED BY <1>4 DEF OnePing, ReqAt, RespAt, a, b

LEMMA ReqConcat ==
  ASSUME NEW s \in Seq(Byte), NEW t \in Seq(Byte), ReqAt(t) = {}
  PROVE  ReqAt(s \o t) = ReqAt(s)
<1>1. Len(s) \in Nat /\ Len(t) \in Nat /\ DOMAIN s = 1..Len(s) /\ DOMAIN t = 1..Len(t)
  BY LenProperties
<1>2. /\ s \o t \in Seq(Byte) /\ Len(s \o t) = Len(s) + Len(t)
      /\ \A i \in 1..Len(s) + Len(t) : (s \o t)[i] = IF i <= Len(s) THEN s[i] ELSE t[i - Len(s)]
  BY ConcatProperties
<1>3. DOMAIN (s \o t) = 1..Len(s) + Len(t)
  BY <1>2, LenProperties
<1>4. \A i : i \in ReqAt(s \o t) <=> i \in ReqAt(s)
  <2> TAKE i
  <2>1. CASE i \in 1..Len(s)
    <3>1. i \in 1..Len(s) + Len(t) /\ i <= Len(s)
      BY <1>1, <2>1
    <3>2. (s \o t)[i] = s[i]
      BY <1>2, <3>1
    <3> QED BY <1>1, <1>3, <2>1, <3>1, <3>2 DEF ReqAt
  <2>2. CASE i \notin 1..Len(s) /\ i \in 1..Len(s) + Len(t)
    <3>1. i - Len(s) \in 1..Len(t) /\ ~(i <= Len(s))
      BY <1>1, <2>2
    <3>2. (s \o t)[i] = t[i - Len(s)]
      BY <1>2, <2>2, <3>1
    <3>3. t[i - Len(s)] # PINGREQ
      BY <1>1, <3>1 DEF ReqAt
    <3> QED BY <1>1, <1>3, <2>2, <3>2, <3>3 DEF ReqAt
  <2>3. CASE i \notin 1..Len(s) /\ i \notin 1..Len(s) + Len(t)
    BY <1>1, <1>3, <2>3 DEF ReqAt
  <2> QED BY <2>1, <2>2, <2>3
<1> QED BY <1>4

\* A first element less: what is left of the places is one further on.
LEMMA ReqTail ==
  ASSUME NEW s \in Seq(Byte), s # <<>>
  PROVE  /\ \A i \in ReqAt(Tail(s)) : i \in Nat /\ i + 1 \in ReqAt(s) /\ i + 1 # 1
         /\ \A i \in ReqAt(s) : i = 1 \/ i - 1 \in ReqAt(Tail(s))
         /\ 1 \in ReqAt(s) <=> Head(s) = PINGREQ
<1>1. /\ Tail(s) \in Seq(Byte) /\ Len(Tail(s)) = Len(s) - 1
      /\ \A i \in 1..Len(Tail(s)) : Tail(s)[i] = s[i + 1]
  BY HeadTailProperties
<1>2. Len(s) \in Nat /\ DOMAIN s = 1..Len(s) /\ DOMAIN Tail(s) = 1..Len(s) - 1
  BY <1>1, LenProperties
<1>3. ASSUME NEW i \in ReqAt(Tail(s)) PROVE i \in Nat /\ i + 1 \in ReqAt(s) /\ i + 1 # 1
  <2>1. i \in 1..Len(s) - 1 /\ Tail(s)[i] = PINGREQ
    BY <1>2 DEF ReqAt
  <2>2. i \in Nat /\ i + 1 \in 1..Len(s) /\ s[i + 1] = PINGREQ
    BY <1>1, <1>2, <2>1
  <2> QED BY <1>2, <2>1, <2>2 DEF ReqAt
<1>4. ASSUME NEW i \in ReqAt(s), i # 1 PROVE i - 1 \in ReqAt(Tail(s))
  <2>1. i \in 1..Len(s) /\ s[i] = PINGREQ
    BY <1>2 DEF ReqAt
  <2>2. i - 1 \in 1..Len(s) - 1 /\ (i - 1) + 1 = i
    BY <1>2, <1>4, <2>1
  <2>3. Tail(s)[i - 1] = PINGREQ
    BY <1>1, <2>1, <2>2
  <2> QED BY <1>2, <2>2, <2>3 DEF ReqAt
<1>5. 1 \in ReqAt(s) <=> Head(s) = PINGREQ
  <2>1. 1 \in DOMAIN s /\ Head(s) = s[1]
    BY <1>2, EmptySeq
  <2> QED BY <2>1 DEF ReqAt
<1> QED BY <1>3, <1>4, <1>5

LEMMA RespTail ==
  ASSUME NEW s \in Seq(Packet), s # <<>>
  PROVE  /\ \A i \in RespAt(Tail(s)) : i \in Nat /\ i + 1 \in RespAt(s) /\ i + 1 # 1
         /\ \A i \in RespAt(s) : i = 1 \/ i - 1 \in RespAt(Tail(s))
         /\ \A i \in DOMAIN Tail(s) : i + 1 \in DOMAIN s /\ Tail(s)[i] = s[i + 1]
         /\ 1 \in DOMAIN s /\ Head(s) = s[1]
<1>1. /\ Tail(s) \in Seq(Packet) /\ Len(Tail(s)) = Len(s) - 1
      /\ \A i \in 1..Len(Tail(s)) : Tail(s)[i] = s[i + 1]
  BY HeadTailProperties
<1>2. Len(s) \in Nat /\ DOMAIN s = 1..Len(s) /\ DOMAIN Tail(s) = 1..Len(s) - 1 /\ Len(s) # 0
  BY <1>1, LenProperties, EmptySeq
<1>3. \A i \in DOMAIN Tail(s) : i \in Nat /\ i + 1 # 1 /\ i + 1 \in DOMAIN s /\ Tail(s)[i] = s[i + 1]
  BY <1>1, <1>2
<1>4. \A i \in RespAt(Tail(s)) : i \in Nat /\ i + 1 \in RespAt(s) /\ i + 1 # 1
  BY <1>3 DEF RespAt
<1>5. 1 \in DOMAIN s /\ Head(s) = s[1]
  BY <1>2
<1>6. ASSUME NEW i \in RespAt(s), i # 1 PROVE i - 1 \in RespAt(Tail(s))
  <2>1. i \in 1..Len(s) /\ s[i] = PingResp
    BY <1>2 DEF RespAt
  <2>2. i - 1 \in 1..Len(s) - 1 /\ (i - 1) + 1 = i
    BY <1>2, <1>6, <2>1
  <2>3. Tail(s)[i - 1] = PingResp
    BY <1>1, <2>1, <2>2
  <2> QED BY <1>2, <2>2, <2>3 DEF RespAt
<1> QED BY <1>3, <1>4, <1>5, <1>6

LEMMA RespAppend ==
  ASSUME NEW s \in Seq(Packet), NEW p \in Packet
  PROVE  /\ DOMAIN Append(s, p) = DOMAIN s \cup {Len(s) + 1} /\ Len(s) + 1 \notin DOMAIN s
         /\ \A i \in DOMAIN s : Append(s, p)[i] = s[i]
         /\ Append(s, p)[Len(s) + 1] = p
         /\ p # PingResp => RespAt(Append(s, p)) = RespAt(s)
         /\ p = PingResp => RespAt(Append(s, p)) = RespAt(s) \cup {Len(s) + 1}
<1>1. /\ Append(s, p) \in Seq(Packet) /\ Len(Append(s, p)) = Len(s) + 1
      /\ \A i \in 1..Len(s) : Append(s, p)[i] = s[i]
      /\ Append(s, p)[Len(s) + 1] = p
  BY AppendProperties
<1>2. Len(s) \in Nat /\ DOMAIN s = 1..Len(s) /\ DOMAIN Append(s, p) = 1..Len(s) + 1
  BY <1>1, LenProperties
<1>3. DOMAIN Append(s, p) = DOMAIN s \cup {Len(s) + 1} /\ Len(s) + 1 \notin DOMAIN s
  BY <1>2
<1>4. p # PingResp => RespAt(Append(s, p)) = RespAt(s)
  BY <1>1, <1>2, <1>3 DEF RespAt
<1>5. p = PingResp => RespAt(Append(s, p)) = RespAt(s) \cup {Len(s) + 1}
  BY <1>1, <1>2, <1>3 DEF RespAt
<1> QED BY <1>1, <1>2, <1>3, <1>4, <1>5

LEMMA PingUntouched ==
  ASSUME PingInv, UNCHANGED <<owed, expected, broken>>,
         UNCHANGED ping_outstanding, UNCHANGED pending,
         UNCHANGED <<peerAlive, connected, pinged>>
  PROVE  PingInv'
BY DEF PingInv, ReqAt, RespAt, OnlyOne

\* A new connection begins with nothing asked, nothing owed and nothing read.
LEMMA PingConnect ==
  ASSUME PingInv, LinkInv, Connect
  PROVE  PingInv'
<1>1. /\ UNCHANGED <<owed, expected, broken, pending, ping_outstanding>>
      /\ ~connected /\ connected' /\ pinged' = 0
  BY DEF Connect, streamVars, writeVars, peerVars
<1>2. ping_outstanding = 0 /\ ~broken
  BY <1>1 DEF LinkInv, ClosedInv, PingInv
<1>3. ReqAt(owed') = ReqAt(owed) /\ RespAt(expected') = RespAt(expected)
  BY <1>1
<1> HIDE DEF ReqAt, RespAt
<1>4. ReqAt(FlattenSeq(pending'.bufs)) = ReqAt(FlattenSeq(pending.bufs))
  BY <1>1
<1> QED BY <1>1, <1>2, <1>3, <1>4 DEF PingInv, OnlyOne

LEMMA PingClose ==
  ASSUME PingInv, CloseSession, UNCHANGED pinged
  PROVE  PingInv'
<1>1. /\ owed' = <<>> /\ expected' = <<>> /\ broken' = FALSE /\ pending' = NoWrite
      /\ connected' = FALSE /\ pinged' \in {0, 1}
  BY DEF CloseSession, CloseSocket, PingInv
<1>2. ReqAt(owed') = {} /\ RespAt(expected') = {} /\ DOMAIN expected' = {}
  BY <1>1, EmptySeq DEF ReqAt, RespAt
<1> QED BY <1>1, <1>2, NoWriteType DEF PingInv, OnlyOne, ReqAt, RespAt

\* The application writes no PINGREQ.
LEMMA PingPublish ==
  ASSUME PingInv, WriteOK, PacketAssumption, PingAssumption,
         NEW bufs \in OutPackets, NEW complete \in BOOLEAN, Putdatas(bufs, complete),
         UNCHANGED <<expected, broken, connected, ping_outstanding, peerAlive, pinged>>
  PROVE  PingInv'
<1> DEFINE all == FlattenSeq(bufs)
<1>1. /\ owed' = owed \o all
      /\ pending' = IF complete THEN NoWrite ELSE [listed |-> TRUE, bufs |-> bufs, bytes |-> Fits(all)]
  BY DEF Putdatas
<1>2. bufs \in Seq(Seq(Byte)) /\ PINGREQ \notin Range(all)
  BY DEF PacketAssumption, PingAssumption
<1>3. all \in Seq(Byte) /\ ReqAt(all) = {}
  BY <1>2, FlattenType DEF ReqAt, Range
<1>4. owed \in Seq(Byte)
  BY DEF WriteOK, WriteType
<1> HIDE DEF all
<1>5. ReqAt(owed') = ReqAt(owed)
  BY <1>1, <1>3, <1>4, ReqConcat
<1>6. pending'.listed => ReqAt(FlattenSeq(pending'.bufs)) = {}
  <2>1. CASE complete
    BY <1>1, <2>1, NoWriteType
  <2>2. CASE ~complete
    BY <1>1, <1>3, <2>2 DEF all
  <2> QED BY <2>1, <2>2
<1> QED BY <1>5, <1>6 DEF PingInv, ReqAt, RespAt, OnlyOne

\* keepalive writes one PINGREQ, when none is outstanding.
LEMMA PingPing ==
  ASSUME PingInv, WriteOK, PacketAssumption, PingAssumption, Ping,
         UNCHANGED <<peerAlive, pinged>>
  PROVE  PingInv'
<1> DEFINE all == FlattenSeq(PingReq)
<1>1. /\ owed' = owed \o all /\ pending' = NoWrite
      /\ ping_outstanding = 0 /\ ping_outstanding' = 1
      /\ UNCHANGED <<expected, broken, connected>>
  BY DEF Ping, Putdatas, peerVars
<1>2. PINGREQ \in Byte /\ 0 \in Byte
  BY DEF PacketAssumption, Byte
<1>3. all = <<PINGREQ, 0>>
  <2> DEFINE b == <<PINGREQ, 0>>
  <2>1. b \in Seq(Byte) /\ <<>> \in Seq(Byte) /\ <<b>> \in Seq(Seq(Byte)) /\ <<b>> # <<>>
    BY <1>2
  <2>2. PingReq = Append(<<b>>, <<>>)
    BY DEF PingReq
  <2> HIDE DEF b
  <2>3. FlattenSeq(Append(<<b>>, <<>>)) = FlattenSeq(<<b>>) \o <<>>
    BY <2>1, FlattenAny
  <2>4. FlattenSeq(<<b>>) = b
    BY FlattenOne
  <2>5. b \o <<>> = b
    BY <2>1, ConcatEmptySeq
  <2> QED BY <2>2, <2>3, <2>4, <2>5 DEF b
<1> HIDE DEF all
<1>4. owed \in Seq(Byte) /\ ReqAt(owed) = {} /\ RespAt(expected) = {}
  BY <1>1 DEF WriteOK, WriteType, PingInv
<1>5. ReqAt(owed') \subseteq {Len(owed) + 1} /\ Len(owed) + 1 \in ReqAt(owed')
  <2>1. all \in Seq(Byte) /\ Len(all) = 2 /\ all[1] = PINGREQ /\ all[2] = 0
    BY <1>2, <1>3
  <2>2. Len(owed) \in Nat /\ DOMAIN owed = 1..Len(owed)
    BY <1>4, LenProperties
  <2>3. /\ owed \o all \in Seq(Byte) /\ Len(owed \o all) = Len(owed) + Len(all)
        /\ \A i \in 1..Len(owed) + Len(all) :
              (owed \o all)[i] = IF i <= Len(owed) THEN owed[i] ELSE all[i - Len(owed)]
    BY <1>4, <2>1, ConcatProperties
  <2>4. DOMAIN (owed \o all) = 1..Len(owed) + 2
    BY <2>1, <2>3, LenProperties
  <2>0. Len(owed) + 1 \in ReqAt(owed \o all)
    <3> DEFINE n == Len(owed) + 1
    <3>1. n \in 1..Len(owed) + 2 /\ ~(n <= Len(owed)) /\ n - Len(owed) = 1
      BY <2>2
    <3>2. (owed \o all)[n] = PINGREQ
      BY <2>1, <2>3, <3>1
    <3> QED BY <2>4, <3>1, <3>2 DEF ReqAt
  <2> SUFFICES ASSUME NEW i \in ReqAt(owed \o all) PROVE i = Len(owed) + 1
    BY <1>1, <2>0
  <2>5. i \in 1..Len(owed) + 2 /\ (owed \o all)[i] = PINGREQ
    BY <2>4 DEF ReqAt
  <2>6. CASE i <= Len(owed)
    <3>1. owed[i] = PINGREQ /\ i \in DOMAIN owed
      BY <2>1, <2>2, <2>3, <2>5, <2>6
    <3> QED BY <1>4, <3>1 DEF ReqAt
  <2>7. CASE i = Len(owed) + 2
    <3>1. ~(i <= Len(owed)) /\ i - Len(owed) = 2
      BY <2>2, <2>7
    <3>2. (owed \o all)[i] = 0
      BY <2>1, <2>3, <2>5, <3>1
    <3> QED BY <2>5, <3>2 DEF PingAssumption
  <2> QED BY <2>2, <2>5, <2>6, <2>7
<1>6. RespAt(expected') = {} /\ (broken' => ~peerAlive' /\ connected')
  BY <1>1, <1>4 DEF PingInv
<1>7. pinged' \in {0, 1} /\ (connected' => pinged' # 1)
  BY <1>1 DEF PingInv
<1>8. \A i \in DOMAIN expected' : expected'[i].type = PINGRESP => expected'[i] = PingResp
  BY <1>1 DEF PingInv
<1> HIDE DEF ReqAt, RespAt
<1>9. OnlyOne(ReqAt(owed')) /\ OnlyOne(RespAt(expected'))
  BY <1>5, <1>6 DEF OnlyOne
<1> QED BY <1>1, <1>5, <1>6, <1>7, <1>8, <1>9, NoWriteType DEF PingInv

\* A pending write that goes on keeps its buffers.
LEMMA PingContinue ==
  ASSUME PingInv, WriteOK, NEW done \in BOOLEAN, ContinueWrite(done),
         UNCHANGED <<expected, broken, connected, ping_outstanding, peerAlive, pinged>>
  PROVE  PingInv'
<1>1. /\ owed' = owed
      /\ pending' = NoWrite \/ \E n : pending' = [pending EXCEPT !.bytes = n]
  BY DEF ContinueWrite
<1>2. pending'.listed => pending.listed /\ pending'.bufs = pending.bufs
  <2>1. CASE pending' = NoWrite
    BY <2>1, NoWriteType
  <2>2. CASE \E n : pending' = [pending EXCEPT !.bytes = n]
    BY <2>2 DEF WriteOK, WriteType
  <2> QED BY <1>1, <2>1, <2>2
<1> QED BY <1>1, <1>2 DEF PingInv, ReqAt, RespAt, OnlyOne

\* A PINGRESP is handled when it was the only packet of a ping under way.
LEMMA PingHandle ==
  ASSUME PingInv, ReadOK, ping_outstanding \in {0, 1}, Handle
  PROVE  PingInv'
<1>1. /\ at = "handle" /\ expected' = Tail(expected)
      /\ ping_outstanding' = IF factory.pack.type = PINGRESP THEN 0 ELSE ping_outstanding
      /\ UNCHANGED <<owed, pending, broken, connected, peerAlive, pinged>>
  BY DEF Handle, writeVars
<1>2. expected # <<>> /\ factory.pack = Head(expected) /\ expected \in Seq(Packet)
  BY <1>1 DEF ReadOK, ReadType, ReadInv, ReadFramed
<1>3. /\ \A i \in RespAt(expected') : i \in Nat /\ i + 1 \in RespAt(expected) /\ i + 1 # 1
      /\ \A i \in RespAt(expected) : i = 1 \/ i - 1 \in RespAt(expected')
      /\ \A i \in DOMAIN expected' : i + 1 \in DOMAIN expected /\ expected'[i] = expected[i + 1]
      /\ 1 \in DOMAIN expected /\ Head(expected) = expected[1]
  BY <1>1, <1>2, RespTail
<1>4. OnlyOne(RespAt(expected'))
  <2> SUFFICES ASSUME NEW i \in RespAt(expected'), NEW j \in RespAt(expected') PROVE i = j
    BY DEF OnlyOne
  <2>1. i \in Nat /\ j \in Nat /\ i + 1 \in RespAt(expected) /\ j + 1 \in RespAt(expected)
    BY <1>3
  <2>2. i + 1 = j + 1
    BY <2>1 DEF PingInv, OnlyOne
  <2> QED BY <2>1, <2>2
<1>5. RespAt(expected) = {} => RespAt(expected') = {}
  BY <1>3
<1>6. /\ ping_outstanding' = 0 => ReqAt(owed) = {} /\ RespAt(expected') = {}
      /\ connected /\ pinged = 1 =>
             ReqAt(owed) = {} /\ RespAt(expected') = {} /\ ping_outstanding' = 1
      /\ connected /\ ping_outstanding' = 1 =>
             ReqAt(owed) # {} \/ RespAt(expected') # {} \/ pinged = 1
  <2>1. CASE factory.pack.type = PINGRESP
    <3>1. 1 \in RespAt(expected)
      BY <1>2, <1>3, <2>1 DEF PingInv, RespAt
    <3>2. ReqAt(owed) = {}
      BY <3>1 DEF PingInv
    <3>3. RespAt(expected') = {}
      BY <1>3, <3>1 DEF PingInv, OnlyOne
    <3>4. ~(connected /\ pinged = 1) /\ ping_outstanding' = 0
      BY <1>1, <2>1, <3>1 DEF PingInv
    <3> QED BY <3>2, <3>3, <3>4
  <2>2. CASE factory.pack.type # PINGRESP
    <3>1. 1 \notin RespAt(expected) /\ ping_outstanding' = ping_outstanding
      BY <1>1, <1>2, <1>3, <2>2 DEF RespAt, PingResp
    <3>2. RespAt(expected) # {} => RespAt(expected') # {}
      BY <1>3, <3>1
    <3> QED BY <1>5, <3>1, <3>2 DEF PingInv
  <2> QED BY <2>1, <2>2
<1>7. \A i \in DOMAIN expected' : expected'[i].type = PINGRESP => expected'[i] = PingResp
  BY <1>3 DEF PingInv
<1>8. ReqAt(owed') = ReqAt(owed)
  BY <1>1
<1> HIDE DEF ReqAt, RespAt
<1>9. \/ ReqAt(owed') = {} \/ RespAt(expected') = {}
  BY <1>5, <1>8 DEF PingInv
<1>10. OnlyOne(ReqAt(owed'))
  BY <1>8 DEF PingInv
<1>11. /\ ping_outstanding' = 0 => ReqAt(owed') = {}
       /\ pending'.listed => ReqAt(FlattenSeq(pending'.bufs)) = {}
       /\ broken' => ~peerAlive' /\ connected'
       /\ pinged' \in {0, 1}
  BY <1>1, <1>6 DEF PingInv
<1>12. /\ connected' /\ pinged' = 1 =>
              ReqAt(owed') = {} /\ RespAt(expected') = {} /\ ping_outstanding' = 1
       /\ connected' /\ ping_outstanding' = 1 =>
              ReqAt(owed') # {} \/ RespAt(expected') # {} \/ pinged' = 1
  BY <1>1, <1>6, <1>8
<1> QED BY <1>4, <1>6, <1>7, <1>8, <1>9, <1>10, <1>11, <1>12 DEF PingInv

\* A PINGREQ that is read was the only one, and passes to the broker.
LEMMA PingPeerReads ==
  ASSUME PingInv, WriteOK, PeerReads, UNCHANGED <<connected, ping_outstanding, peerAlive>>,
         owed # <<>>, connected, ping_outstanding \in {0, 1},
         pinged' = IF Head(owed) = PINGREQ THEN pinged + 1 ELSE pinged
  PROVE  PingInv'
<1>1. owed' = Tail(owed) /\ UNCHANGED <<pending, expected, broken>>
  BY DEF PeerReads, peerVars
<1>2. /\ \A i \in ReqAt(owed') : i \in Nat /\ i + 1 \in ReqAt(owed) /\ i + 1 # 1
      /\ \A i \in ReqAt(owed) : i = 1 \/ i - 1 \in ReqAt(owed')
      /\ 1 \in ReqAt(owed) <=> Head(owed) = PINGREQ
  BY <1>1, ReqTail DEF WriteOK, WriteType
<1>3. OnlyOne(ReqAt(owed'))
  <2> SUFFICES ASSUME NEW i \in ReqAt(owed'), NEW j \in ReqAt(owed') PROVE i = j
    BY DEF OnlyOne
  <2>1. i \in Nat /\ j \in Nat /\ i + 1 \in ReqAt(owed) /\ j + 1 \in ReqAt(owed)
    BY <1>2
  <2>2. i + 1 = j + 1
    BY <2>1 DEF PingInv, OnlyOne
  <2> QED BY <2>1, <2>2
<1>4. ReqAt(owed) = {} => ReqAt(owed') = {}
  BY <1>2
<1>5. RespAt(expected') = RespAt(expected)
  BY <1>1
<1>6. /\ pinged' \in {0, 1}
      /\ pinged' = 1 => ReqAt(owed') = {} /\ RespAt(expected') = {} /\ ping_outstanding = 1
      /\ ping_outstanding = 1 => ReqAt(owed') # {} \/ RespAt(expected') # {} \/ pinged' = 1
  <2>1. CASE Head(owed) = PINGREQ
    <3>1. 1 \in ReqAt(owed)
      BY <1>2, <2>1
    <3>2. RespAt(expected) = {} /\ ping_outstanding = 1 /\ pinged = 0
      BY <3>1 DEF PingInv
    <3>3. ReqAt(owed') = {}
      BY <1>2, <3>1 DEF PingInv, OnlyOne
    <3> QED BY <1>5, <2>1, <3>2, <3>3
  <2>2. CASE Head(owed) # PINGREQ
    <3>1. ReqAt(owed) # {} => ReqAt(owed') # {}
      BY <1>2, <2>2
    <3>2. pinged' = pinged
      BY <2>2
    <3> QED BY <1>4, <1>5, <3>1, <3>2 DEF PingInv
  <2> QED BY <2>1, <2>2
<1>7. \A i \in DOMAIN expected' : expected'[i].type = PINGRESP => expected'[i] = PingResp
  BY <1>1 DEF PingInv
<1> HIDE DEF ReqAt, RespAt
<1>8. /\ pending'.listed => ReqAt(FlattenSeq(pending'.bufs)) = {}
      /\ broken' => ~peerAlive' /\ connected'
      /\ OnlyOne(RespAt(expected'))
      /\ ReqAt(owed') = {} \/ RespAt(expected') = {}
      /\ ping_outstanding' = 0 => ReqAt(owed') = {} /\ RespAt(expected') = {}
  BY <1>1, <1>4, <1>5 DEF PingInv
<1>9. connected' /\ ping_outstanding' = ping_outstanding
  OBVIOUS
<1> QED BY <1>3, <1>6, <1>7, <1>8, <1>9 DEF PingInv

\* The broker's answer to a ping it has read, or another packet.
LEMMA PingPeerSends ==
  ASSUME PingInv, ReadOK, NEW p \in Packet, PeerSends(p), connected,
         UNCHANGED <<connected, ping_outstanding, peerAlive>>,
         p.type = PINGRESP => p = PingResp,
         IF p = PingResp THEN pinged = 1 /\ pinged' = 0 ELSE pinged' = pinged
  PROVE  PingInv'
<1>1. expected' = Append(expected, p) /\ UNCHANGED <<owed, pending, broken>>
  BY DEF PeerSends, writeVars
<1>2. expected \in Seq(Packet)
  BY DEF ReadOK, ReadType
<1> DEFINE n == Len(expected) + 1
<1>3. /\ DOMAIN expected' = DOMAIN expected \cup {n}
      /\ \A i \in DOMAIN expected : expected'[i] = expected[i]
      /\ expected'[n] = p
      /\ p # PingResp => RespAt(expected') = RespAt(expected)
      /\ p = PingResp => RespAt(expected') = RespAt(expected) \cup {n}
  BY <1>1, <1>2, RespAppend
<1> HIDE DEF n
<1>4. \A i \in DOMAIN expected' : expected'[i].type = PINGRESP => expected'[i] = PingResp
  BY <1>3 DEF PingInv
<1>5. p = PingResp => ReqAt(owed) = {} /\ RespAt(expected) = {} /\ ping_outstanding = 1
  BY DEF PingInv
<1>6. /\ OnlyOne(RespAt(expected'))
      /\ ReqAt(owed) = {} \/ RespAt(expected') = {}
      /\ ping_outstanding = 0 => ReqAt(owed) = {} /\ RespAt(expected') = {}
  BY <1>3, <1>5 DEF PingInv, OnlyOne
<1>7. /\ pinged' \in {0, 1}
      /\ pinged' = 1 => ReqAt(owed) = {} /\ RespAt(expected') = {} /\ ping_outstanding = 1
      /\ ping_outstanding = 1 => ReqAt(owed) # {} \/ RespAt(expected') # {} \/ pinged' = 1
  <2>1. CASE p = PingResp
    BY <1>3, <2>1
  <2>2. CASE p # PingResp
    BY <1>3, <2>2 DEF PingInv
  <2> QED BY <2>1, <2>2
<1>8. ReqAt(owed') = ReqAt(owed)
  BY <1>1
<1> HIDE DEF ReqAt, RespAt
<1>9. /\ pending'.listed => ReqAt(FlattenSeq(pending'.bufs)) = {}
      /\ broken' => ~peerAlive' /\ connected'
      /\ OnlyOne(ReqAt(owed'))
  BY <1>1, <1>8 DEF PingInv
<1>10. connected' /\ ping_outstanding' = ping_outstanding
  OBVIOUS
<1> QED BY <1>4, <1>6, <1>7, <1>8, <1>9, <1>10 DEF PingInv

LEMMA PingsKept ==
  ASSUME PingInv, WriteOK, ReadOK, LinkInv, Next,
         StreamAssumption, PacketAssumption, PingAssumption
  PROVE  PingInv'
<1>0. ping_outstanding \in {0, 1} /\ (broken => ~peerAlive /\ connected)
  BY DEF LinkInv, LinkType, PingInv
<1>1. ASSUME Connect PROVE PingInv'
  BY <1>1, PingConnect
<1>2. ASSUME Disconnect PROVE PingInv'
  BY <1>2, PingClose DEF Disconnect
<1>3. ASSUME NEW bufs \in OutPackets, Publish(bufs) PROVE PingInv'
  <2>1. \/ CloseSession
        \/ /\ \E complete \in BOOLEAN : Putdatas(bufs, complete)
           /\ UNCHANGED <<expected, broken, connected, ping_outstanding, peerAlive>>
    BY <1>3 DEF Publish, peerVars
  <2>2. pinged' = pinged
    BY <1>3 DEF Publish
  <2> QED BY <2>1, <2>2, PingClose, PingPublish
<1>4. ASSUME Select PROVE PingInv'
  <2>1. UNCHANGED <<expected, broken, connected, ping_outstanding, peerAlive, pinged>>
    BY <1>4 DEF Select, peerVars
  <2>2. \/ UNCHANGED <<owed, pending>>
        \/ \E done \in BOOLEAN : ContinueWrite(done)
    BY <1>4 DEF Select, writeVars
  <2> QED BY <2>1, <2>2, PingUntouched, PingContinue
<1>5. ASSUME Gone \/ Factory PROVE PingInv'
  BY <1>5, PingUntouched DEF Gone, Factory, writeVars, peerVars
<1>6. ASSUME Handle PROVE PingInv'
  BY <1>0, <1>6, PingHandle
<1>7. ASSUME Retry PROVE PingInv'
  <2>1. UNCHANGED <<peerAlive, pinged>>
    BY <1>7 DEF Retry
  <2>2. Idle \/ CloseSession \/ Ping
    BY <1>0, <1>7, KeepaliveCases DEF Retry
  <2>3. CASE Idle
    BY <2>1, <2>3, PingUntouched DEF Idle, writeVars, peerVars
  <2> QED BY <2>1, <2>2, <2>3, PingClose, PingPing
<1>8. ASSUME After PROVE PingInv'
  <2>1. CloseSession \/ UNCHANGED <<owed, pending, expected, broken, connected, ping_outstanding>>
    BY <1>8 DEF After, writeVars, peerVars
  <2>2. UNCHANGED <<peerAlive, pinged>>
    BY <1>8 DEF After
  <2> QED BY <2>1, <2>2, PingClose, PingUntouched
<1>9. ASSUME Tick PROVE PingInv'
  BY <1>9, PingUntouched DEF Tick, streamVars, writeVars, peerVars
<1>10. ASSUME Broker PROVE PingInv'
  <2>0. connected /\ UNCHANGED <<connected, ping_outstanding>>
    BY <1>10 DEF Broker
  <2>1. CASE /\ peerAlive /\ PeerReads /\ UNCHANGED peerAlive
             /\ pinged' = IF Head(sent) = PINGREQ THEN pinged + 1 ELSE pinged
    <3>1. owed # <<>>
      BY <2>1, OwedThere DEF PeerReads
    <3>2. Head(sent) = Head(owed)
      <4>1. owed = sent \o Owing(pending)
        BY <1>0, <2>1 DEF WriteOK, WriteType, WriteInv, WriteFramed, Owing
      <4>2. sent # <<>> /\ sent \in Seq(Byte) /\ Owing(pending) \in Seq(Byte)
        BY <2>1, OwingType DEF PeerReads, WriteOK, WriteType
      <4>3. Len(sent) \in Nat \ {0} /\ Len(Owing(pending)) \in Nat
        BY <4>2, LenProperties, EmptySeq
      <4>4. 1 \in 1..Len(sent) + Len(Owing(pending)) /\ 1 <= Len(sent)
        BY <4>3
      <4>5. owed[1] = sent[1]
        BY <4>1, <4>2, <4>4, ConcatProperties
      <4> QED BY <4>5
    <3> QED BY <1>0, <2>0, <2>1, <3>1, <3>2, PingPeerReads
  <2>2. CASE /\ peerAlive /\ PeerSends(PingResp) /\ UNCHANGED peerAlive
             /\ sent = <<>> /\ pinged > 0 /\ pinged' = pinged - 1
    <3>1. PingResp \in Packet
      BY EmptySeq DEF PacketAssumption, PingResp, Packet
    <3>2. pinged = 1 /\ pinged' = 0
      BY <2>2 DEF PingInv
    <3> QED BY <2>0, <2>2, <3>1, <3>2, PingPeerSends
  <2>3. CASE (\E p \in InPackets : PeerSends(p) /\ UNCHANGED peerAlive) /\ UNCHANGED pinged
    <3>1. PICK p \in InPackets : PeerSends(p) /\ UNCHANGED peerAlive
      BY <2>3
    <3>2. p \in Packet /\ p.type # PINGRESP /\ PingResp.type = PINGRESP
      BY DEF PacketAssumption, PingAssumption, PingResp
    <3> QED BY <2>0, <2>3, <3>1, <3>2, PingPeerSends
  <2>4. CASE Arrive /\ UNCHANGED <<peerAlive, pinged>>
    BY <2>0, <2>4, PingUntouched DEF Arrive, writeVars
  <2>5. CASE Break /\ peerAlive' = FALSE /\ UNCHANGED pinged
    <3>1. /\ UNCHANGED <<owed, expected, pending>> /\ connected' /\ ~peerAlive'
      BY <2>0, <2>5 DEF Break, writeVars, peerVars
    <3> QED BY <2>0, <2>5, <3>1 DEF PingInv, ReqAt, RespAt, OnlyOne
  <2>6. CASE peerAlive /\ peerAlive' = FALSE /\ UNCHANGED <<streamVars, pinged>>
    <3>1. UNCHANGED <<owed, expected, pending, broken>> /\ ~broken
      BY <1>0, <2>6 DEF streamVars, writeVars, peerVars
    <3> QED BY <2>0, <2>6, <3>1 DEF PingInv, ReqAt, RespAt, OnlyOne
  <2> QED BY <1>10, <2>1, <2>2, <2>3, <2>4, <2>5, <2>6 DEF Broker
<1> QED BY <1>1, <1>2, <1>3, <1>4, <1>5, <1>6, <1>7, <1>8, <1>9, <1>10 DEF Next, Step, Thread

-----------------------------------------------------------------------------
\* The ages stay within the bounds they are counted to.
AgesInv ==
    /\ lastSent \in 0..Span + 1 /\ lastPing \in 0..Span + 1 /\ lastReceived \in 0..2 * Span + 1
    /\ peerAlive \in BOOLEAN

LEMMA Older ==
  ASSUME NEW cap \in Nat, NEW age \in 0..cap
  PROVE  Min2(age + 1, cap) \in 0..cap
BY DEF Min2

LEMMA AgesKept ==
  ASSUME AgesInv, LinkInv, Next, KeepaliveAssumption
  PROVE  AgesInv'
<1>0. Span \in Nat /\ Span + 1 \in Nat /\ 2 * Span + 1 \in Nat
  BY DEF KeepaliveAssumption, Span
<1>1. ASSUME lastSent' \in {0, lastSent}, lastPing' \in {0, lastPing},
             lastReceived' \in {0, lastReceived}, peerAlive' \in BOOLEAN
      PROVE  AgesInv'
  BY <1>0, <1>1 DEF AgesInv, Span
<1>2. peerAlive' \in BOOLEAN
  <2>1. peerAlive' = peerAlive \/ peerAlive' = FALSE \/ peerAlive' = TRUE
    BY DEF Next, Step, Connect, Disconnect, Publish, Thread, Select, Gone, Factory, Handle,
           Retry, After, Tick, Broker
  <2> QED BY <2>1 DEF AgesInv
<1>3. CASE CloseSession
  BY <1>1, <1>2, <1>3 DEF CloseSession
<1>4. CASE Connect
  BY <1>1, <1>2, <1>4 DEF Connect
<1>5. CASE Disconnect
  BY <1>3, <1>5 DEF Disconnect
<1>6. ASSUME NEW bufs \in OutPackets, Publish(bufs) PROVE AgesInv'
  <2>1. \/ CloseSession
        \/ lastSent' \in {0, lastSent} /\ lastPing' = lastPing /\ lastReceived' = lastReceived
    BY <1>6 DEF Publish, ages
  <2> QED BY <1>1, <1>2, <1>3, <2>1
<1>7. CASE Select
  BY <1>1, <1>2, <1>7 DEF Select
<1>8. CASE Gone \/ Factory \/ Handle
  BY <1>1, <1>2, <1>8 DEF Gone, Factory, Handle, ages
<1>9. CASE Retry
  <2>1. Idle \/ CloseSession \/ Ping
    BY <1>9, KeepaliveCases DEF Retry, LinkInv, LinkType
  <2> QED BY <1>1, <1>2, <1>3, <2>1 DEF Idle, Ping
<1>10. CASE After
  BY <1>1, <1>2, <1>3, <1>10 DEF After
<1>11. CASE Tick
  <2>1. /\ lastSent' = IF connected THEN Min2(lastSent + 1, Span + 1) ELSE 0
        /\ lastReceived' = IF connected THEN Min2(lastReceived + 1, 2 * Span + 1) ELSE 0
        /\ lastPing' = IF ping_outstanding = 1
                       THEN (IF connected THEN Min2(lastPing + 1, Span + 1) ELSE 0) ELSE 0
    BY <1>11 DEF Tick
  <2>2. /\ Min2(lastSent + 1, Span + 1) \in 0..Span + 1
        /\ Min2(lastPing + 1, Span + 1) \in 0..Span + 1
    BY <1>0, Older DEF AgesInv
  <2>3. Min2(lastReceived + 1, 2 * Span + 1) \in 0..2 * Span + 1
    BY <1>0, Older DEF AgesInv
  <2>4. 0 \in 0..Span + 1 /\ 0 \in 0..2 * Span + 1
    BY <1>0
  <2>5. lastSent' \in 0..Span + 1 /\ lastPing' \in 0..Span + 1 /\ lastReceived' \in 0..2 * Span + 1
    BY <2>1, <2>2, <2>3, <2>4
  <2> QED BY <1>2, <2>5 DEF AgesInv, Span
<1>12. CASE Broker
  BY <1>1, <1>2, <1>12 DEF Broker, ages
<1> QED BY <1>4, <1>5, <1>6, <1>7, <1>8, <1>9, <1>10, <1>11, <1>12 DEF Next, Step, Thread

-----------------------------------------------------------------------------
StreamInv == LinkInv /\ AgesInv /\ WriteOK /\ ReadOK /\ PingInv

LEMMA StreamInitially ==
  ASSUME Init, StreamAssumption, KeepaliveAssumption
  PROVE  StreamInv
<1>1. LinkInv
  BY LinkInitially
<1>2. AgesInv
  BY DEF Init, AgesInv, KeepaliveAssumption, Span
<1>3. /\ pending = NoWrite /\ sent = <<>> /\ owed = <<>> /\ broken = FALSE
      /\ onTheWay = <<>> /\ arriving = <<>> /\ expected = <<>>
      /\ queue = EmptyQueue /\ factory = NoFactory /\ at = "select" /\ connected = FALSE
  BY DEF Init, StreamInit
<1>4. /\ <<>> \in Seq(Byte) /\ <<>> \in Seq(Packet) /\ Len(<<>>) = 0 /\ <<>> \o <<>> = <<>>
      /\ DOMAIN <<>> = {}
  BY EmptySeq, ConcatEmptySeq
<1>5. WriteOK
  <2>1. WriteFramed
    BY <1>3, <1>4, NothingOwing DEF WriteFramed, Owing
  <2>2. Len(sent) <= SendRoom
    BY <1>3, <1>4 DEF StreamAssumption
  <2> QED BY <1>3, <1>4, <2>1, <2>2, NoWriteType DEF WriteOK, WriteType, WriteInv
<1>6. ReadOK
  <2>1. ReadType
    BY <1>3, <1>4, NoFactoryType, EmptyQueueType DEF ReadType
  <2>2. IndexInv
    BY <1>3, <1>4, EmptyQueueType DEF IndexInv, StreamAssumption
  <2>3. KeptInv /\ DecodeInv
    BY <1>3 DEF KeptInv, DecodeInv
  <2>4. ReadFramed
    <3>1. Bytes(expected) = Stream(queue, arriving) \o onTheWay
      BY <1>3, <1>4, BytesEmpty, EmptyQueueType DEF Stream
    <3> QED BY <1>3, <3>1 DEF ReadFramed, Bytes, Stream
  <2> QED BY <2>1, <2>2, <2>3, <2>4 DEF ReadOK, ReadInv
<1>7. PingInv
  <2>1. ReqAt(owed) = {} /\ RespAt(expected) = {}
    BY <1>3, <1>4 DEF ReqAt, RespAt
  <2>2. \A i \in DOMAIN expected : expected[i].type = PINGRESP => expected[i] = PingResp
    BY <1>3, <1>4
  <2>3. pinged = 0
    BY DEF Init
  <2> QED BY <1>3, <2>1, <2>2, <2>3, NoWriteType DEF PingInv, OnlyOne
<1> QED BY <1>1, <1>2, <1>5, <1>6, <1>7 DEF StreamInv

LEMMA StreamStutters ==
  ASSUME StreamInv, UNCHANGED vars
  PROVE  StreamInv'
<1>1. LinkInv'
  BY LinkStep, KeepaliveAssumption DEF StreamInv
<1>2. AgesInv'
  BY DEF StreamInv, AgesInv, vars, ages
<1>3. UNCHANGED <<writeVars, readVars, peerVars, at, broken, connected, ping_outstanding, peerAlive,
                  pinged>>
  BY DEF vars, streamVars
<1>4. WriteOK'
  BY <1>3, UntouchedWrites DEF StreamInv
<1>5. ReadOK'
  <2>1. connected' \in BOOLEAN /\ broken' \in BOOLEAN
    BY <1>3 DEF StreamInv, ReadOK, ReadType
  <2> QED BY <1>3, <2>1, SameKeepsReads DEF StreamInv, readVars
<1>6. PingInv'
  BY <1>3, PingUntouched DEF StreamInv, writeVars, peerVars
<1> QED BY <1>1, <1>2, <1>4, <1>5, <1>6 DEF StreamInv

LEMMA StreamAlways == Spec => []StreamInv
<1>1. Init => StreamInv
  BY StreamInitially, StreamAssumption, KeepaliveAssumption
<1>2. StreamInv /\ [Next]_vars => StreamInv'
  <2> SUFFICES ASSUME StreamInv, [Next]_vars PROVE StreamInv'
    OBVIOUS
  <2>1. CASE Next
    <3>1. LinkInv /\ AgesInv /\ WriteOK /\ ReadOK /\ PingInv /\ ping_outstanding \in {0, 1}
      BY DEF StreamInv, LinkInv, LinkType
    <3>2. LinkInv'
      BY <3>1, LinkStep, KeepaliveAssumption
    <3>3. AgesInv'
      BY <2>1, <3>1, AgesKept, KeepaliveAssumption
    <3>4. WriteOK'
      BY <2>1, <3>1, WritesKept, StreamAssumption, PacketAssumption
    <3>5. ReadOK'
      BY <2>1, <3>1, ReadsKept, StreamAssumption, PacketAssumption
    <3>6. PingInv'
      BY <2>1, <3>1, PingsKept, StreamAssumption, PacketAssumption, PingAssumption
    <3> QED BY <3>2, <3>3, <3>4, <3>5, <3>6 DEF StreamInv
  <2> QED BY <2>1, StreamStutters
<1> QED BY <1>1, <1>2, PTL DEF Spec

\* The shape of the variables, every length and every count in its range.
THEOREM TypeCorrect == Spec => []TypeOK
<1>1. StreamInv => TypeOK
  <2> SUFFICES ASSUME StreamInv PROVE TypeOK
    OBVIOUS
  <2>1. StreamTypeOK
    BY DEF StreamInv, WriteOK, WriteType, ReadOK, ReadType, QueueType, StreamTypeOK
  <2>2. LinkType /\ AgesInv
    BY DEF StreamInv, LinkInv
  <2>3. pinged \in Nat
    BY DEF StreamInv, PingInv
  <2> QED BY <2>1, <2>2, <2>3 DEF TypeOK, LinkType, AgesInv
<1> QED BY <1>1, StreamAlways, PTL

\* No byte that is written is lost, repeated or put between the bytes of another packet,
\* however the kernel cuts the packets (Socket_putdatas, Socket_continueWrite).
THEOREM WritesAreFramed == Spec => []WriteFramed
<1>1. StreamInv => WriteFramed
  BY DEF StreamInv, WriteOK, WriteInv
<1> QED BY <1>1, StreamAlways, PTL

\* The packets handed on are those the broker sent, in their order and with all their bytes,
\* wherever a read stops and starts again (MQTTPacket_Factory, SocketBuffer).
THEOREM ReadsAreFramed == Spec => []ReadFramed
<1>1. StreamInv => ReadFramed
  BY DEF StreamInv, ReadOK, ReadInv
<1> QED BY <1>1, StreamAlways, PTL

\* ping_outstanding is 1 exactly while a PINGREQ of this connection has no answer: it is on its
\* way, read by the broker, or its PINGRESP is still to be handled (MQTTProtocol_keepalive,
\* MQTTProtocol_handlePingresps, and the reset in MQTTClient_closeSession).
THEOREM PingsAreCounted == Spec => []OnePing
<1>1. StreamInv => OnePing
  BY PingCount DEF StreamInv, LinkInv, LinkType
<1> QED BY <1>1, StreamAlways, PTL
=============================================================================
