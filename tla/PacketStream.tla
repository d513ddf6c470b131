---------------------------- MODULE PacketStream ----------------------------
(***************************************************************************)
(* One connected, non-blocking socket of the MQTT library, byte by byte.   *)
(*                                                                         *)
(* Outwards: Socket_putdatas hands a packet, a list of buffers, to the     *)
(* kernel, which may take only a part; the rest is a pending write that    *)
(* Socket_continueWrite takes up later.  Inwards: MQTTPacket_Factory asks  *)
(* for one byte after the other and starts again from the first byte when  *)
(* they run out, so SocketBuffer keeps those already taken.                *)
(*                                                                         *)
(* The module has the operations; Keepalive says who calls them and when.  *)
(***************************************************************************)
EXTENDS Naturals, Sequences, SequencesExt

CONSTANTS
    LenBase,       \* the base of the remaining-length digits (128)
    MaxLenBytes,   \* MAX_NO_OF_REMAINING_LENGTH_BYTES (4)
    HeaderRoom,    \* the size of fixed_header (5)
    SendRoom       \* bytes that fit between the library and the peer

\* A digit with its continuation bit is a byte; fixed_header has room for a type and a length.
ASSUME StreamAssumption ==
    /\ LenBase \in 2..128
    /\ {MaxLenBytes, HeaderRoom, SendRoom} \subseteq Nat \ {0}
    /\ MaxLenBytes < HeaderRoom

VARIABLES
    pending,    \* the pending_writes entry of the socket
    sent,       \* bytes the kernel has taken and the peer has not read
    owed,       \* bytes of packets given to Socket_putdatas, not read by the peer
    onTheWay,   \* bytes the peer has sent that have not arrived
    arriving,   \* bytes that have arrived and that recv has not returned
    expected,   \* the packets of these bytes, until they are handled
    queue,      \* the socket_queue of the socket
    at,         \* where the thread that reads is
    factory,    \* the local variables of MQTTPacket_Factory and _decode
    broken      \* the kernel has given up the connection

writeVars  == <<pending, sent, owed>>
readVars   == <<queue, factory>>
peerVars   == <<onTheWay, arriving, expected>>
streamVars == <<writeVars, readVars, peerVars, at, broken>>

-----------------------------------------------------------------------------
Min2(m, n) == IF m < n THEN m ELSE n
From(s, n) == SubSeq(s, n, Len(s))
Byte == 0..255

Encode[n \in Nat] ==
    IF n < LenBase THEN <<n>> ELSE <<LenBase + (n % LenBase)>> \o Encode[n \div LenBase]

Packet  == [type : Byte, data : Seq(Byte)]
Wire(p) == <<p.type>> \o Encode[Len(p.data)] \o p.data

-----------------------------------------------------------------------------
\* Writing.  A pending write keeps the buffers and how many bytes were taken; listed is
\* the socket's membership in write_pending.
NoWrite == [listed |-> FALSE, bufs |-> <<>>, bytes |-> 0]
noPendingWrites == ~pending.listed

\* The bytes writev takes: what fits.
Fits(bytes) == Min2(Len(bytes), SendRoom - Len(sent))

\* Socket_putdatas: all of it is written (TCPSOCKET_COMPLETE), or the rest is kept.
Putdatas(bufs, complete) ==
    LET all == FlattenSeq(bufs)
        n   == Fits(all)
    IN  /\ noPendingWrites /\ ~broken
        /\ complete = (n = Len(all))
        /\ owed' = owed \o all
        /\ sent' = sent \o SubSeq(all, 1, n)
        /\ pending' = IF complete THEN NoWrite ELSE [listed |-> TRUE, bufs |-> bufs, bytes |-> n]

\* Mutant: the rest of a buffer is measured from the packet's first byte.
RestFromPacket(pw) ==
    LET first(i) == Len(FlattenSeq(SubSeq(pw.bufs, 1, i - 1)))
        split == {i \in DOMAIN pw.bufs :
                    first(i) < pw.bytes /\ pw.bytes < first(i) + Len(pw.bufs[i])}
    IN  IF split # {}
        THEN LET i == CHOOSE j \in split : TRUE IN From(pw.bufs[i], pw.bytes + 1)
        ELSE FlattenSeq([i \in DOMAIN pw.bufs |->
                           IF pw.bytes <= first(i) THEN pw.bufs[i] ELSE <<>>])

\* Mutant: a buffer that was taken in part is sent again from its start.
RestRepeats(pw) ==
    LET first(i) == Len(FlattenSeq(SubSeq(pw.bufs, 1, i - 1))) IN
    FlattenSeq([i \in DOMAIN pw.bufs |->
                  IF pw.bytes < first(i) + Len(pw.bufs[i]) THEN pw.bufs[i] ELSE <<>>])

\* The buffers Socket_continueWrite builds: the rest of a buffer that was taken
\* in part, alone; or every buffer that starts where the last write ended or later.
Rest(pw) ==
    LET first(i) == Len(FlattenSeq(SubSeq(pw.bufs, 1, i - 1)))
        split == {i \in DOMAIN pw.bufs :
                    first(i) < pw.bytes /\ pw.bytes < first(i) + Len(pw.bufs[i])}
    IN  IF split # {}
        THEN LET i == CHOOSE j \in split : TRUE
             IN  From(pw.bufs[i], pw.bytes - first(i) + 1)
        ELSE FlattenSeq([i \in DOMAIN pw.bufs |->
                           IF pw.bytes <= first(i) THEN pw.bufs[i] ELSE <<>>])

\* select names the socket writable: it has room, or it has failed.
Writable == broken \/ Len(sent) < SendRoom

\* Socket_continueWrites for this socket; done is whether the write leaves the list,
\* which a failed one does too.
ContinueWrite(done) ==
    LET n == IF broken THEN 0 ELSE Fits(Rest(pending)) IN
    /\ ~noPendingWrites /\ Writable
    /\ done = (broken \/ pending.bytes + n = Len(FlattenSeq(pending.bufs)))
    /\ sent' = sent \o SubSeq(Rest(pending), 1, n)
    /\ pending' = IF done THEN NoWrite ELSE [pending EXCEPT !.bytes = @ + n]
    /\ UNCHANGED owed

-----------------------------------------------------------------------------
\* Reading.  An entry of SocketBuffer's queues (saved) or its default queue.
EmptyQueue == [saved |-> FALSE, header |-> <<>>, index |-> 0, data |-> <<>>]
NoFactory  == [header |-> 0, value |-> 0, multiplier |-> 1, len |-> 0,
               pack |-> [type |-> 0, data |-> <<>>], rc |-> "ok"]

\* isReady: never while a packet is written in part, nor while the socket is full.
Ready == Writable /\ noPendingWrites /\ (arriving # <<>> \/ broken)

\* Mutant: an interrupted read goes on where it stopped.
KeepIndex(q, n) == [q EXCEPT !.saved = TRUE, !.data = SubSeq(@, 1, n)]

interrupted(q, n) == [q EXCEPT !.saved = TRUE, !.index = 0, !.data = SubSeq(@, 1, n)]

queueChar(q, c) ==
    IF q.index >= HeaderRoom THEN q
    ELSE [q EXCEPT !.header = Append(SubSeq(@, 1, q.index), c), !.index = @ + 1]

\* Socket_getch: a byte kept from before, an error, a byte of the network, or none yet.
Getch ==
    LET outcome(rc, c, q, rest) == [rc |-> rc, c |-> c, queue |-> q, arriving |-> rest] IN
    IF queue.saved /\ queue.index < Len(queue.header)
    THEN outcome("complete", queue.header[queue.index + 1],
                 [queue EXCEPT !.index = @ + 1], arriving)
    ELSE IF queue.saved /\ queue.index >= HeaderRoom
    THEN outcome("error", 0, queue, arriving)
    ELSE IF arriving # <<>>
    THEN outcome("complete", Head(arriving), queueChar(queue, Head(arriving)), Tail(arriving))
    ELSE IF broken
    THEN outcome("error", 0, queue, arriving)
    ELSE outcome("interrupted", 0, interrupted(queue, 0), arriving)

\* Factory returns without a packet; only a real error is the caller's concern.
NoPacket(rc) ==
    /\ factory' = [NoFactory EXCEPT !.rc = IF rc = "error" THEN "error" ELSE "ok"]
    /\ at' = "retry"

ReadHeader ==
    /\ at = "ready"
    /\ queue' = Getch.queue /\ arriving' = Getch.arriving
    /\ IF Getch.rc = "complete"
       THEN factory' = [NoFactory EXCEPT !.header = Getch.c] /\ at' = "length"
       ELSE NoPacket(Getch.rc)

\* MQTTPacket_decode: one digit of the remaining length, the last one below LenBase.
ReadLength ==
    /\ at = "length"
    /\ IF factory.len >= MaxLenBytes
       THEN NoPacket("error") /\ UNCHANGED <<queue, arriving>>
       ELSE /\ queue' = Getch.queue /\ arriving' = Getch.arriving
            /\ IF Getch.rc # "complete" THEN NoPacket(Getch.rc)
               ELSE /\ factory' = [factory EXCEPT
                                     !.len = @ + 1,
                                     !.value = @ + (Getch.c % LenBase) * factory.multiplier,
                                     !.multiplier = @ * LenBase]
                    /\ at' = IF Getch.c >= LenBase THEN "length" ELSE "data"

\* The bytes the reader holds are the whole packet: SocketBuffer_complete.
Complete(data, rest) ==
    /\ queue' = EmptyQueue
    /\ arriving' = rest
    /\ factory' = [factory EXCEPT !.pack = [type |-> factory.header, data |-> data]]
    /\ at' = "handle"

\* Socket_getdata: after the data kept from before, when the socket has a saved queue.
ReadData ==
    /\ at = "data"
    /\ LET kept == IF queue.saved THEN queue.data ELSE <<>>
           n    == Min2(factory.value - Len(kept), Len(arriving))
           data == kept \o SubSeq(arriving, 1, n)
       IN  IF Len(data) = factory.value
           THEN Complete(data, From(arriving, n + 1))
           ELSE IF n = 0 /\ broken
           THEN NoPacket("error") /\ UNCHANGED <<queue, arriving>>
           ELSE /\ queue' = interrupted([queue EXCEPT !.data = data], Len(data))
                /\ arriving' = From(arriving, n + 1)
                /\ NoPacket("interrupted")

\* Socket_close: abortWrite and SocketBuffer_cleanup.  The next connection is likely
\* to get the same descriptor, by which all of this is looked up.
CloseSocket ==
    /\ pending' = NoWrite /\ queue' = EmptyQueue
    /\ sent' = <<>> /\ owed' = <<>>
    /\ onTheWay' = <<>> /\ arriving' = <<>> /\ expected' = <<>>
    /\ broken' = FALSE

-----------------------------------------------------------------------------
\* The peer reads a byte or sends a packet; the network brings its next byte.
PeerReads ==
    /\ sent # <<>>
    /\ sent' = Tail(sent) /\ owed' = Tail(owed)
    /\ UNCHANGED <<pending, peerVars, readVars, at, broken>>

PeerSends(p) ==
    /\ onTheWay' = onTheWay \o Wire(p)
    /\ expected' = Append(expected, p)
    /\ UNCHANGED <<arriving, writeVars, readVars, at, broken>>

Arrive ==
    /\ onTheWay # <<>> /\ ~broken
    /\ arriving' = Append(arriving, Head(onTheWay))
    /\ onTheWay' = Tail(onTheWay)
    /\ UNCHANGED <<expected, writeVars, readVars, at, broken>>

\* The connection is reset, or TCP gives it up; what has arrived can still be read.
Break ==
    /\ ~broken /\ broken' = TRUE
    /\ UNCHANGED <<writeVars, readVars, peerVars, at>>

StreamInit ==
    /\ pending = NoWrite /\ sent = <<>> /\ owed = <<>>
    /\ onTheWay = <<>> /\ arriving = <<>> /\ expected = <<>>
    /\ queue = EmptyQueue /\ factory = NoFactory
    /\ at = "select" /\ broken = FALSE

StreamTypeOK ==
    /\ pending \in [listed : BOOLEAN, bufs : Seq(Seq(Byte)), bytes : Nat]
    /\ pending.listed => pending.bytes < Len(FlattenSeq(pending.bufs))
    /\ {sent, owed, onTheWay, arriving} \subseteq Seq(Byte)
    /\ expected \in Seq(Packet)
    /\ queue \in [saved : BOOLEAN, header : Seq(Byte), index : 0..HeaderRoom, data : Seq(Byte)]
    /\ at \in {"select", "ready", "length", "data", "handle", "retry", "after"}
    /\ factory \in [header : Byte, value : Nat, multiplier : Nat, len : 0..MaxLenBytes,
                    pack : Packet, rc : {"ok", "error"}]
    /\ broken \in BOOLEAN
=============================================================================
