# Verification of the DataLogger server

TLA+ models of the DataLogger server code, model-checked with TLC on small
instances and, where it matters most, proved with TLAPS for every value of the
constants. `PROJECT.json` lists components, runs, mutants, hazards, the lines
each definition models (`map`) and the theorems.

    tlc -workers 2 -config MCMqttSession.cfg MCMqttSession.tla   # a run
    tlapm MqttSession_proofs.tla                                  # a proof module

## 1. The system

DataLogger collects measurements from stations over MQTT and stores them in a
TimescaleDB database that a web page shows. The repository holds the pieces, not
yet joined by one program:

| Part | Where | State it keeps | Operations |
|------|-------|----------------|------------|
| MQTT service wrapper | `service/src/mqtt.c`, `test.c` | one global client handle, connect options | `mqtt_open_connection`, `mqtt_publish`, `mqtt_subscribe`, `mqtt_unsubcribe`, `mqtt_disconnect`, three callbacks |
| Outbound delivery | `service/lib/MQTTClient.c`, `MQTTProtocolClient.c`, `MQTTProtocolOut.c` | per client: `connected`, `connect_state`, `net.socket`, `outboundMsgs`, `msgID` | publish, wait for completion, handle PUBACK/PUBREC/PUBCOMP, disconnect |
| Inbound delivery | same files | `inboundMsgs`, `messageQueue` | handle PUBLISH/PUBREL, call `messageArrived` |
| Handshake and rendezvous | same files | `m->pack`, `connect_sem`, `connack_sem`, `suback_sem`, `unsuback_sem` | connect (3.1.1, then 3.1), subscribe, unsubscribe |
| Background thread | `MQTTClient_run`, `MQTTClient_stop` | `running`, `tostop`, `run_id` | started by the first connect, stopped by whoever closes the last connection |
| Keep-alive | `MQTTProtocol_keepalive` | `ping_outstanding`, `lastPing`, `lastSent`, `lastReceived` | one pass per cycle of the background thread |
| Sockets, partial writes and reads | `Socket.c`, `SocketBuffer.c`, the frame in `MQTTPacket.c` | `pending_wset`, one `pending_writes` per socket, a `socket_queue` per partial read | select, writev, continue a write, read a packet that arrives in pieces |
| Queue | `queue-c/queue.c` | `head`, `tail`, `size` and the heap | `queue_init`, `enqueue`, `dequeue` |
| Load generator, schema | `db_spam_test/db.cpp`, `docs/data/db.sql` | rows under the key `(station_id, time)` | insert, create |
| Web pages | `ui/*.js`, `*.html` | CSS classes of overlay, modal, navigation | toggles |

**Interaction.** Application threads and the background thread share the client
structure under one mutex, `mqttclient_mutex`; the socket module has its own
(`socket_mutex`). The background thread holds no lock while it waits in `select`
and between the end of a cycle and its own look at the result, so what it read
before is old when it is used. It talks back through callbacks (some with the mutex
held, `deliveryComplete`; some without, `messageArrived`; some on a new thread,
`connectionLost`) and through semaphores with a single packet slot.

**What makes it hard.** Threads woken by one event; a connection closed by any of
four parties (a publisher whose write fails, the background thread, keepalive,
`mqtt_disconnect`); message ids that wrap around and are the only link between a
message, its acknowledgement and the caller's token; packets that the kernel takes
only in part; a peer that resets or falls silent. `PROJECT.json` lists these
hazards at their lines.

**What makes each part correct.** Outbound: the promise of `DeliveryPromise` (below),
the window, unique ids, no caller left behind. Inbound: QoS 2 exactly once, order
kept, no acknowledgement lost. Rendezvous: each waiter gets its own packet. Thread:
one thread while a connection is open, none afterwards. Keep-alive: only an
unanswered ping closes a connection, and silence never lasts. Partial writes and reads:
every byte once, in order.
Queue: first in, first out, nothing leaked, nothing freed reached.

## 2. The modules

### MqttSession - publishing over one connection

A behaviour begins where `mqtt_open_connection` has returned 0 and ends when every
thread has returned from `mqtt_disconnect`'s call of `MQTTClient_disconnect`, or when
`mqtt_publish` has ended the process. An action is what one thread does between
taking and releasing `mqttclient_mutex`.

| Variables | Code |
|-----------|------|
| `connected`, `connect_state`, `socket`, `msgID` | fields of `Clients` and `net` (`Clients.h`) |
| `outboundMsgs` | the list of that name; a set, because the code only looks up by id |
| `writing` | the one `pending_writes` entry of the socket |
| `toBroker`, `toClient`, `network` | the bytes under way and the connection: up, silent or reset |
| `brokerIds`, `received` | external: QoS 2 ids the broker holds, messages it accepted |
| `pc`, `cur`, `token`, `qos`, `result` | per thread: where it is in `mqtt.c`, its message, its `deliveredtoken`; per message: its QoS, what the call answered |
| `running`, `tostop` | the globals of `MQTTClient.c` |
| `runPc`, `runSock`, `runRc` | the background thread: `select`, `cycle`, between cycle and re-lock; its `sock` and `rc` |
| `confirmed`, `lost` | calls of `deliveryComplete` and `connectionLost` |

Actions: `Call`, `PublishRefused`, `PublishBlocks`, `PublishSent`,
`PublishInterrupted`, `PublishError`, `WriteFinished` (publish5); `WaitDisconnected`,
`WaitCompleted`, `WaitTimedOut` (waitForCompletion); `DisconnectStart`,
`DisconnectDrained`, `DisconnectTimedOut`, `DisconnectClosed`, `StopWaited`
(disconnect1 and stop); `RunSelect`, `ContinueWrite`, `CycleIdle`, `CycleReadError`,
`HandlePuback`, `HandlePubrec`, `HandlePubcomp`, `RunStops`, `RunLosesConnection`,
`RunGoesOn` (run, cycle, retry). External: `BrokerStep` (answers packets of one kind in
order, different kinds in any order), `NetworkFails`, `TcpGivesUp`.

Abstractions: a packet is a record; a write is taken whole, in part, or refused;
time is left out, so a timeout may strike whenever a thread waits and keepalive may
close the session in any cycle (a ping not answered, or a PINGREQ not written at
once). Nothing is retransmitted, as in the code: `retryInterval` is 0. Inbound
publications are not modelled, nor the single-threaded mode of
`MQTTClient_yield`, which this service enters only after its thread has ended and
the socket is closed.

### DeliveryPromise - what publishing promises

Per message: new, accepted, received, confirmed, in this order; per call one answer:
SUCCESS only for a confirmed message on a live connection, DISCONNECTED only when it
is gone. `MqttSession!KeepsPromise` is this specification under a refinement mapping
(`phaseBar`, `outcomeBar`, `up <- connected`).

### MqttInbound - receiving over one connection

What the broker publishes to the service, from the packet to the return of
`messageArrived`. An action is again what one thread does under the mutex; the
callback is a state of its own (`runPc = "callback"`), since the mutex is free in it.

| Variables | Code |
|-----------|------|
| `connected`, `socket`, `inboundMsgs`, `messageQueue` | fields of `Clients` and `net`; `inboundMsgs` holds the QoS 2 publications that wait for their PUBREL |
| `writing`, `toBroker`, `toClient`, `network` | as in `MqttSession` |
| `qos`, `id`, `exchange`, `resent` | external: per message its QoS and id, how far the broker is, what it repeated |
| `disc`, `published` | `mqtt_disconnect`; publications that left a write incomplete or could not write |
| `delivered` | calls of `messageArrived` per message |
| `running`, `tostop`, `runPc`, `runSock`, `runRc` | as in `MqttSession` |

Actions: `HandlePublish0/1/2`, `HandlePubrel` (each with the acknowledgement written
whole, in part or not at all, and refused behind another partial write), `CycleIdle`,
`CycleReadError`, `RunSelect`, `ContinueWrite`, `RunStops`, `RunLosesConnection`,
`RunDelivers`, `RunGoesOn`, `CallbackReturns`; of the application `PublishInterrupted`,
`PublishError` and the `Disconnect...` actions; external `BrokerPublishes`,
`BrokerResends`, `BrokerTakes`, `NetworkFails`, `TcpGivesUp`.

Abstractions: publishing appears only where it disturbs this half of the connection;
its own life is `MqttSession`. The broker repeats each QoS 2 packet at most once within
the connection (MQTT 3.1 lets it) and never a QoS 1 packet, which may lawfully arrive
twice. `message_arrived` returns 1, as the service's does.

### LinkedQueue and FifoQueue - the queue

`LinkedQueue` models `queue.c` on a heap: `malloc` returns any free address, `free`
releases one, `tail` keeps its old value when the queue becomes empty, and the
contents of a fresh node are arbitrary until written. `path` is a history variable,
the nodes of the list in order; no action reads it. `FifoQueue` is a sequence with two operations;
`IsFifo` is the refinement. `malloc` failing is left out (the code does not test it).

### PacketStream and Keepalive - bytes and time

`PacketStream` has the operations on one non-blocking socket: `Putdatas` and
`ContinueWrite` (a packet is a list of buffers of which the kernel takes a part;
`Rest` is what `Socket_continueWrite` sends next), `ReadHeader`, `ReadLength`,
`ReadData` (one `recv` each, interrupted when the bytes run out and begun again from
the bytes `SocketBuffer` keeps), `CloseSocket`. `Keepalive` EXTENDS it with the
callers: the background thread's cycle, a publisher, `mqtt_disconnect`, and the clock.

| Variables | Code |
|-----------|------|
| `pending` | the `pending_writes` entry and its membership in `write_pending` |
| `queue` | the socket's `socket_queue`, or the default queue (`saved = FALSE`) |
| `factory`, `at` | the locals of `MQTTPacket_Factory` and where the thread is |
| `sent`, `owed`, `onTheWay`, `arriving`, `expected`, `broken` | external: the bytes in the kernel and on the way, what they ought to be, a connection that failed |
| `connected`, `ping_outstanding` | fields of `Clients` |
| `lastSent`, `lastReceived`, `lastPing`, `last` | the time stamps, as ages |
| `looked`, `peerAlive`, `pinged`, `blocked` | a cycle has run in this second; the broker still reads; external: PINGREQs it has read on this connection and not answered; history: a write was incomplete since the last packet received |

Actions: `Connect`, `Publish`, `Disconnect` (application); `Select`, `Gone`, `Factory`,
`Handle`, `Retry` (with `keepalive`), `After` (the thread); `Tick` (a second in which
`select` finds nothing); `Broker`. Abstractions: a unit of time is the second the
thread waits in `select`, and ages are counted up to one more than the bounds of the
properties; work takes no time; `Handle` does only what a PINGRESP does; the size of
the read buffer is not modelled (a packet asks for the same length each time it
is read again, so the copy of `SocketBuffer.c:194-200` is never of a grown buffer).

### MqttService - opening, subscribing, disconnecting

Several connections of the service in turn and the one background thread they share:
`mqtt_open_connection` (create, both connect attempts), `mqtt_subscribe`,
`mqtt_unsubcribe`, `mqtt_disconnect` (disconnect and destroy), the semaphores and
`m->pack`.

| Variables | Code |
|-----------|------|
| `client` | the global handle of `mqtt.c` |
| `c[h]` | the handle and its `Clients`: `connected`, `connect_state` (`state`), `net.socket` (`fd`), `msgID`, whether `messageQueue` holds anything, `pack`, the posted semaphores, `rc` |
| `net[h]` | external: the state of TCP, what the broker has sent and owes |
| `running`, `tostop`, `run` | the globals, and the thread's position and locals (`sock`, `rc`, `pack`, the handle in a callback) |
| `calls[t]` | per application thread: where it is in which call, its expected packet, what the wait returned |
| `mutex` | `mqttclient_mutex` where one action does not release it |
| `terminated`, `undefined` | `MQTTClient_terminate` has freed the lists; freed memory was used |
| `stray`, `late`, `raced`, `gaveUp` | history variables, below |

Actions: `Open`, `Attempt`, `AttemptFails`, `ConnectTcpDone`, `ConnackDone` (connect);
`Waitfor`, `WaitEnds`, `ReadPack`, `Poll` (`MQTTClient_waitfor`, with the thread or by
cycles of the caller); `Ask`, `AskDone` (subscribe and unsubscribe); `Disconnect`,
`Destroy`, `Terminate`, `StopWaited`; `RunSelect`, `RunCycle`, `RunTurn`,
`CallbackReturns`; external `Broker`.

Assumptions. One thread (`Owner`) opens and disconnects, and does neither during
another call nor beside a live session: with two sessions a closed descriptor is used
again at once, and what the thread read for the old one is handed to the new one. The
wait of `MQTTClient_stop` gives up (after 10 s) only while a callback runs. Both
attempts of a connect share one budget of 30 s, as in the code. A handle left behind by a
failed connect is out of reach and forgotten when the next one is opened. A thread
that was started counts as running at once (connect sleeps 100 ms after starting it),
except for a connect with no time left, which does not wait. One packet at a time
waits to be read (`Backlog`).

The history variables mark what this code really does in corners that its
properties except:

* `stray` - subscribe and unsubscribe overlap, one returned failure with its packet half
  written, or a caller that polls read an acknowledgement: it is taken by somebody else, or
  comes when nobody waits for it. Whoever takes it takes it for its own, since `handleSubacks`
  never compares ids; whoever was woken for it and finds `m->pack` NULL closes a healthy
  session. `OwnAck` and `PostedIsThere` except it.
* `late` - a packet came between the last `trywait` and the timeout: the semaphore stays
  posted, and the next subscribe reads NULL from `m->pack` and closes a healthy session.
  `PostedIsThere` excepts it.
* `raced` - a connect went on while the thread was told to end or ended: its session has no
  thread. A connect that stops the thread itself, having failed, does not count.
  `ThreadServes` and `ThreadFollowsSessions` except it.
* `gaveUp` - a callback outlasted the wait of `MQTTClient_stop`; destroy then frees what
  the thread uses when the callback returns.

## 3. The runs

| Run | Bounds | Shows |
|-----|--------|-------|
| `session` | 2 threads, 3 messages at any QoS, window 1, 2 ids (1.50 M states) | type, window, exchanges always under way, honest SUCCESS, one `connectionLost`, errors close only broken connections, refinement of `DeliveryPromise` |
| `window` | 1 thread that gives up waiting, 4 messages at QoS 1 and 2, window 2, 3 ids (581 k states) | ids unique, an id always found, the loop of `assignMsgId` agrees with its definition, acknowledgements free only their own message |
| `live` | 2 threads, 2 messages at QoS 2, window 1 (99 k states) | calls return, stored messages are confirmed, the thread ends |
| `inbound` | 2 messages at any QoS, 2 ids, 1 disturbing publication (768 k states) | nothing delivered twice, nothing acknowledged lost in a live session, no acknowledgement dropped, no backlog, sent messages delivered |
| `link` | one packet out in two buffers, one in with two length digits; 3 bytes fit on the way; intervals of 1 s (966 k states) | bytes framed in both directions, silence bounded in both, `ping_outstanding` set exactly while a ping of this connection is unanswered, a silent peer closed, incomplete writes end |
| `service` | 2 threads, 2 connections, 2 and 1 subscriptions (494 k states) | own acknowledgements, no semaphore without a packet, own CONNACK, a thread for every session and none afterwards, nothing freed is used |
| `queue` | 3 addresses, 2 values (292 states) | the list, the heap, refinement of `FifoQueue` |
| `token`, `retry`, `qos0` | 2 threads, 1 or 2 messages | three findings, each a counterexample |
| `callback` | 2 messages (symmetric) | a fourth |
| `detect` | as `link` | a fifth |

Why these bounds. The service connects with `reliable = 1`, so its window is one
message: `session` and `live` use that. Two threads are the smallest number that
races, three messages let one wait while one is in flight and one finished. Ids
freed out of order need a longer exchange (QoS 2) beside a shorter one (QoS 1), a
window of two and four messages to wrap around three ids: that is `window`, where one
thread is enough because callers give up waiting and publish on. The queue needs two nodes in the list and
one free for every case of `enqueue`, with the dangling tail free or reused.
In `link` a packet of three bytes in two buffers is cut before, between and within
them, base 2 gives a short packet two length digits, and with three bytes on the way a
PINGREQ finds room, half of it or none. In `service` the second connection meets what the
first left behind (thread, semaphores, descriptor), a second subscription what the
first one left, and the second thread makes subscribe and unsubscribe overlap.
In `inbound` two messages let the acknowledgement of one be
half written while the other arrives, in every pair of qualities, and one id may be
used by both in turn. Channels, `lost` and the heap need no bound: messages are finite in number.

Fairness (`FairSpec`): a thread inside a call and the background thread are scheduled
(weak fairness of `Proceed(t)` and `RunStep`: threads of one process, a
mutex held briefly); the broker answers and TCP gives up on a silent peer (weak);
a socket polled again and again while it can be written takes the bytes (strong
fairness of `ContinueWrite`: `RunSelect` may be chosen in its place in any pass).
In `MqttInbound` the broker need not publish anything, but takes what
it was sent, and `message_arrived` returns (its step is one of `RunStep`). In
`Keepalive` the thread is scheduled and seconds go by (weak, `Thread` and `Tick`);
neither network nor broker owes anything. In `MqttService` only the thread is scheduled
(weak, `Run`).
The application owes nothing: it need not call. Waiting ends by its timeout, as in
the code.

### Findings

* **token** - `publish5` reads `msg->msgid` after a loop that releases the mutex while
  a partial write completes; the acknowledgement, or a closing session, has freed
  `msg`. The model lets the read return any value; the caller may then wait for another
  thread's message.
* **retry** - a publish whose own write fails (`PublishError`, on a connection the peer has
  reset) returns SUCCESS because "the send will be retried automatically"; with
  `cleansession = 1` the list it would be retried from has just been emptied.
* **qos0** - `mqtt_publish` at QoS 0 waits on an uninitialised token.
* **callback** - `messageArrived` is called without the mutex on an entry that is still in
  `messageQueue`; `mqtt_disconnect`, or a publisher whose write fails, empties the queue
  and frees the entry's topic and message while the callback reads and then frees them.
* **detect** - `MQTTClient.h` says that keep-alive lets the client notice a dead server
  without the long TCP timeout. A broker that falls silent behind an incomplete write is not
  noticed: no PINGREQ is sent then, and nothing looks at the age of the write.

`MQTTClient.h` also says that a message crosses "within each keep alive period";
`GapBound` shows what holds: the interval and the time between two looks at the clock
(`retryLoopInterval`).

`HealthyStaysUp` is about the outbound half: it holds because a window of one leaves no
second packet to collide with a partial write of the same session's exchange. Others do
collide and close a healthy connection: an inbound QoS 1 or 2 publication
(`MQTTProtocolClient.c:321`), modelled in `MqttInbound`, and a subscribe or unsubscribe
behind an incomplete write (`MQTTClient.c:2052`), modelled in `MqttService` (`Ask`). The first is a
hard choice but not a wrong one: `AckUnderWay` shows that no acknowledgement is forgotten,
which is what the closing is for.

## 4. The proofs

Assumptions (`SessionAssumption`): a positive window smaller than the id space, QoS in
0..2. No bound on threads, messages, window or ids.

* `MqttSession_proofs` - **TypeCorrect**, **InflightBounded**, **IdsUnique**, **IdFound**,
  **SearchRight**. Type correctness has one lemma per group of actions (publish, wait, disconnect, the
  background thread, outside), each by conjunct of `TypeOK`. `InflightBound` is
  not inductive alone, because cardinality says nothing of infinite sets:
  `WindowInv` adds that the list is finite. Every action changes the list in one of
  three ways (`ListStep`: reduced to a part of itself, entries moved to another state, one
  fresh entry added while not full); that is the only lemma that looks at the actions.
  `IdFound` is a counting argument: when the window is not full fewer ids are in use than
  there are. `SearchRight` is about the loop that walks through the ids, a recursive
  function: it is shown to exist by constructing it, and to end where the definition by
  distance says by induction on the distance to the first id at which it stops.
* `MqttHonest_proofs` - **NothingDropped**, **SuccessHonest**. An acknowledgement is
  matched by id only, so the argument is about what is under way. `HonestInv`: no two
  packets share an id (`OnePacketEach`), each is about the message stored under its id
  (`PacketsLinked`), and the broker has what its answers speak of and has not seen what a
  PUBLISH brings (`BrokerKnows`). `CallerInv` carries it to the callers: who waits on a live
  connection has an entry or a confirmation.
* `MqttPromise_proofs` - **KeepsThePromise**: the refinement of `DeliveryPromise`. `CallInv`
  says that every message has at most one call and that nothing is under way which was not
  handed over; with it each action maps to a step of the promise or a stutter.
* `MqttLost_proofs` - **ReportedOnce**, **HealthyStays**, **OnePacketUnderWay**. `LostInv`:
  nothing was reported while connected, and at most one thread (the one whose write failed)
  still owes the report. The other two theorems assume `MaxInflight = 1`, which is how the
  service connects (`reliable = 1`). `UpInv`: the one stored message has its packet
  under way, so no reply finds the socket busy with another, and a cycle that failed
  while the network works was about a closed socket.
* `MqttInbound_proofs` - **TypeCorrect**, **NothingWaits**, **DeliveredOnce**,
  **AcknowledgedIsKept**, **NoAnswerDropped** (`InboundAssumption` only: any messages, ids, QoS). `QueueInv` says where in the loop the
  queue may hold a message. `OnceInv` is about the order in which the broker's packets
  arrive: no PUBLISH of a message that the queue or the application has; at QoS 2 none
  that could be stored again after a PUBREL of its id has released the first copy; and
  open exchanges have different ids.
  The last two need the other direction as well. `AckInv` says of every open exchange that
  some packet of it is under way or the broker holds what it waits for, that an id has one
  answer of each kind at most, and that of two answers with the same id the PUBREC of the
  older exchange comes before its PUBCOMP, which is what keeps a repeated packet of a
  finished exchange from answering for a new one.
* `MqttService_proofs` - **NothingFreed**, **Served**, **TypeCorrect**, **AckIsOwn**,
  **WokenFindsPacket**, **ConnackOfThisConnection** (`ServiceAssumption` only: any threads, connections and requests). The first two follow from one invariant, `SafeInv`:
  a thread that opens or takes down a connection finds the others idle (`CallsInv`); only the
  application's handle is in use, and not before its connect is done nor after its session was closed (`HandlesInv`);
  a background thread that was told to end is in its last cycle or is waited for, and until
  it has ended nothing it may look at is freed (`ThreadInv`); it runs from the first attempt of
  a connect until the session has gone (`ServedInv`). All the steps within a call are of one
  kind (`Moves`), those of the thread of another (`ThreadSafe`), and each kind is shown to keep
  `SafeInv` once. `TypeCorrect` needs it too: that `NewFd` exists is a counting argument
  (`FreeFd`) which rests on the handle that connects having no socket yet (`PlaceInv`).
  The other three follow from `FlowInv`, which TLC checked on the model of these runs before
  it was proved. `OwnAck` and the rest are far from inductive: they speak of a caller that has been woken,
  and depend on everything that could still reach it. `AskersInv` says who may be waiting for an
  answer, on which handle, and that without a stray call it is alone; `CallerInv` that the
  request or its answer is then at one place at most - asked of the broker, on the
  connection, in the hands of the thread (`Carried`) or in `m->pack` - and what the semaphore
  says of that place. A connect that falls back to a second attempt is the hard part: its broken first
  connection may still be in the thread's hands, and `RunInv` says that in the
  first attempt the thread never holds a socket of an earlier connection, and holds nothing
  once that attempt has failed. `SocketInv` keeps other handles out: only the one that is opened or
  connected has a socket. Each action is shown to keep `FlowInv` under what it changes of
  connection, handle and thread, by one lemma for each.
* `LinkedQueue_proofs` - **TypeCorrect**, **ListIsRight**, **NoLeak**, **Implements**. The
  invariant is that `path` is a sequence of distinct addresses of used nodes linked in
  order from `head` to `tail`; `Implements` maps each step to a step of `FifoQueue` or a
  stutter.
* `Keepalive_proofs` - **NeverSilent**, **SilenceNoticed**, **WritesAreFramed**, **ReadsAreFramed**,
  **PingsAreCounted**, **TypeCorrect**. The first two (`StreamAssumption`,
  `KeepaliveAssumption`: any intervals, packets and buffer sizes): neither bound is
  inductive, how long silence may last depends on when the clock was last looked at;
  `LinkInv` measures every age against `last` and, while a ping is outstanding, against
  the age of the ping.
  The others follow from `StreamInv`, for any packets (`PacketAssumption`: they are made of
  bytes), any room for them and any base of the length digits up to 128. For the output
  `WriteInv` is `WriteFramed` and a bound on what the kernel holds. For the input `ReadFramed`
  is not inductive, since a read that begins again depends on what its earlier tries have done:
  `IndexInv` and `KeptInv` say that what `SocketBuffer` keeps is a part of the first packet that
  the broker sent and of its data nothing before all of its header; `DecodeInv` that value and
  multiplier are the digits read so far and that the rest of the header encodes what is missing.
  `PingInv` says that the ping is in one place - written, read by the broker, or its answer on
  the way - while the flag is set, and in none otherwise; a new connection begins with neither.
  It needs `PingAssumption`, since
  `OnePing` knows a PINGREQ by a byte that no other packet of the model may hold.
  `Encode` and `FlattenSeq` are recursive functions: that they are defined for all arguments is
  shown by constructing the function, and what they compute by choosing the least
  counterexample (`LeastNat`), because the library's induction theorems cannot be used.

Every invariant and every action property that a passing run checks is proved. Only
model-checked: liveness (fairness and `ENABLED` are outside the prover's reach).

## 5. Not modelled, and why

The map covers a small part of the repository's lines, and cannot cover much more:
half of them are nlohmann/json, vendored twice (single header and split) and called from
nowhere, and most of the rest is a second, identical copy of the MQTT library beside a
sample program, headers of an API that is not built (`MQTTAsync.h`), and the parts of
the library this service never enters:

* persistence (`MQTTCLIENT_PERSISTENCE_NONE`, `src/mqtt.c:41`), TLS, WebSocket and proxies
  (a `tcp://` address, built without OpenSSL), MQTT 5 (`cleansession = 1` and version
  default, so 3.1.1 and then 3.1);
* the fields inside a packet, UTF-8 and properties: packets are records, only their frame
  is modelled (`PacketStream`);
* containers and tracing: lists appear as sets and sequences; tracing changes nothing;
* `MQTTClient_receive`, `MQTTClient_yield` and a callback that answers 0: not used;
* two sessions at a time, several addresses for one client: not used;
* `db.cpp` (a straight loop of inserts), `db.sql` (a script run once), the web pages (four
  booleans toggled by clicks): no state worth a model; what can go wrong in the first two is
  listed under `hazards`;
* the interactive queue demo, the board's CAD data; firmware sources are not in the
  repository.

## 6. Plan

Done: `MqttSession` with `DeliveryPromise` (refinement proved), `LinkedQueue` with
`FifoQueue` (refinement proved), `MqttInbound`, `PacketStream` with `Keepalive`,
`MqttService` (it stands for what was planned as two modules, one for the
acknowledgements and one for the thread), and the search for message ids (`Search`
in `MqttSession`).

Left, in order of importance:

1. Sessions side by side in `MqttService`, should the service ever hold two handles.
2. An abstract specification of the inbound half (stored, released, delivered once).
