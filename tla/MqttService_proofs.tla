------------------------- MODULE MqttService_proofs -------------------------
(* The background thread and what it depends on, for any number of threads,  *)
(* connections and requests: nothing that was freed is used, a connected     *)
(* session has a thread that serves it, and the packet a caller finds in its *)
(* m->pack is the answer it waits for.                                       *)
EXTENDS MqttService, FiniteSetTheorems, WellFoundedInduction, TLAPS

\* The fields of the records the argument looks at.
ClientFields == {"life", "connected", "state", "fd", "msgID", "queue", "pack", "sems", "rc"}
CallFields   == {"pc", "h", "version", "expired", "for", "got", "rc", "next"}
RunFields    == {"pc", "sock", "rc", "pack", "h"}

Table(cs) ==
    /\ DOMAIN cs = Handle
    /\ \A h \in Handle : DOMAIN cs[h] = ClientFields /\ cs[h].connected \in BOOLEAN
CallTable == DOMAIN calls = Threads /\ \A t \in Threads : DOMAIN calls[t] = CallFields
Flags == /\ running \in BOOLEAN /\ tostop \in BOOLEAN /\ terminated \in BOOLEAN
         /\ undefined \in BOOLEAN /\ raced \in BOOLEAN /\ gaveUp \in BOOLEAN
Shape == Table(c) /\ CallTable /\ DOMAIN run = RunFields /\ client \in 0..MaxOpen /\ Flags

Up(m) == m.life = "live" /\ m.connected

\* A thread that opens or takes down a connection does it while the others are idle.
Leaving(t) ==
    \/ calls[t].pc \in {"destroy", "terminate"}
    \/ calls[t].pc = "stopping" /\ calls[t].next # "idle"
Alone(t) == Opening(t) \/ Leaving(t)

\* A connect, also one that has failed and stops the thread: it has no next step then.
IsConnect(t) == calls[t].pc = "attempt" \/ calls[t].for.type \in {"CONNECT", "CONNACK"}

CallsInv ==
    /\ \A t \in Threads : calls[t].pc = "idle" => ~Opening(t)
    /\ \A t \in Threads : Leaving(t) => ~IsConnect(t)
    /\ \A t, u \in Threads : Alone(t) => t = u \/ calls[u].pc = "idle"
    /\ \A t \in Threads : Opening(t) => calls[t].h = client /\ client \in Handle /\ ~terminated
    /\ \A t \in Threads : calls[t].pc = "poll" => ~running
    /\ \A t \in Threads : calls[t].pc = "stopping" => calls[t].next \in {"idle", "destroy", "terminate"}

\* Only the handle the application holds is in use, and not before it has been connected
\* nor after its session was closed.
HandlesInv ==
    /\ \A h \in Handle : InUse(c[h]) => h = client
    /\ \A t \in Threads, h \in Handle : Opening(t) => ~Up(c[h])
    /\ \A t \in Threads, h \in Handle : Leaving(t) => ~InUse(c[h])

\* A thread that was told to end is in its last cycle, or somebody waits for it; until
\* it has ended no handle it may be using is freed, and nor are the lists.
Ending == tostop /\ run.pc = "cycled"
Freeing == terminated \/ \E t \in Threads : calls[t].pc \in {"destroy", "terminate"}
ThreadInv ==
    /\ running <=> run.pc # "none"
    /\ tostop => running
    /\ run.pc = "callback" => run.h \in Handle
    /\ ~gaveUp /\ tostop => run.pc = "cycled" \/ \E t \in Threads : calls[t].pc = "stopping"
    /\ ~gaveUp /\ Freeing => ~running \/ Ending
    /\ ~gaveUp /\ run.pc = "callback" => c[run.h].life = "live"
    /\ undefined => gaveUp

\* The thread is there from the first attempt of a connect until the session has gone.
ServedInv ==
    /\ \A h \in Handle : Up(c[h]) /\ ~raced => running /\ ~tostop
    /\ \A t \in Threads : Opening(t) /\ ~raced => ~tostop /\ (calls[t].pc # "attempt" => running)

SafeInv == Shape /\ CallsInv /\ HandlesInv /\ ThreadInv /\ ServedInv

LEMMA SafeInit == Init => SafeInv
<1> SUFFICES ASSUME Init PROVE SafeInv
  OBVIOUS
<1>1. Shape
  <2>1. \A h \in Handle : c[h] = [Fresh EXCEPT !.life = "none"]
    BY DEF Init
  <2>2. DOMAIN [Fresh EXCEPT !.life = "none"] = ClientFields /\ [Fresh EXCEPT !.life = "none"].connected = FALSE
    BY DEF Fresh, ClientFields
  <2>3. Table(c)
    BY <2>1, <2>2 DEF Init, Table
  <2>4. CallTable
    BY DEF Init, CallTable, CallFields, NoCall
  <2>5. DOMAIN run = RunFields
    BY DEF Init, RunFields, NoRun, RunLoop
  <2>6. client \in 0..MaxOpen
    <3>1. MaxOpen \in Nat
      BY ServiceAssumption
    <3> QED
      BY <3>1 DEF Init
  <2>7. Flags
    BY DEF Init, Flags
  <2> QED
    BY <2>3, <2>4, <2>5, <2>6, <2>7 DEF Shape
<1>2. \A t \in Threads : calls[t].pc = "idle" /\ ~Opening(t) /\ ~Leaving(t)
  BY DEF Init, Opening, Leaving, NoCall, None
<1>3. \A h \in Handle : ~InUse(c[h]) /\ ~Up(c[h])
  BY DEF Init, InUse, Up, Fresh
<1>4. run.pc = "none"
  BY DEF Init, NoRun, RunLoop
<1> QED
  BY <1>1, <1>2, <1>3, <1>4
     DEF Init, SafeInv, CallsInv, HandlesInv, ThreadInv, ServedInv, Alone, Ending

-----------------------------------------------------------------------------
(* Kinds of steps *)

\* No handle is freed and no session becomes connected.
Kept == \A h \in Handle :
            c'[h].life = c[h].life /\ (c'[h].connected => c[h].connected)

\* No handle comes into use.
Reduced == Kept /\ \A h \in Handle : c'[h].state # "none" => c[h].state # "none"

\* A step of the application thread t that neither begins nor ends the life of a connection.
Moves(t) ==
    /\ Note /\ Shape'
    /\ client' = client /\ UNCHANGED <<terminated, undefined, gaveUp>>
    /\ \A u \in Threads \ {t} : calls'[u] = calls[u]
    /\ Kept
    /\ \A h \in Handle : c'[h].state # "none" => c[h].state # "none" \/ (h = client /\ Opening(t))
    /\ \/ UNCHANGED <<run, running>>
       \/ Opening(t) /\ ~running /\ running' /\ run'.pc = "select"
    /\ \/ tostop' = tostop
       \/ Last(running', c') /\ calls'[t].pc = "stopping"
    /\ calls[t].pc # "stopping" /\ ~Leaving(t)'
    /\ Opening(t)' => /\ Opening(t) /\ calls'[t].h = calls[t].h
                      /\ calls'[t].pc = "attempt" \/ running' \/ calls[t].pc # "attempt"
    /\ calls'[t].pc = "idle" => ~Opening(t)'
    /\ calls'[t].pc = "poll" => ~running'
    /\ calls[t].pc = "idle" => calls'[t].pc = "idle" \/ \E h \in Handle : Up(c[h])

LEMMA MovesSafe == ASSUME SafeInv, NEW t \in Threads, Moves(t) PROVE SafeInv'
<1>1. \A u \in Threads \ {t} : /\ calls'[u] = calls[u]
                               /\ (Opening(u)' <=> Opening(u)) /\ (Leaving(u)' <=> Leaving(u))
  BY DEF Moves, Opening, Leaving
<1>2. \A h \in Handle : /\ Up(c'[h]) => Up(c[h])
                        /\ InUse(c'[h]) => InUse(c[h]) \/ (h = client /\ Opening(t))
  BY DEF Moves, Kept, Up, InUse
<1>3. \A h \in Handle : Up(c[h]) => InUse(c[h])
  BY DEF Up, InUse
<1>4. CallsInv'
  <2>1. ASSUME NEW u \in Threads, u # t, Alone(u)'
        PROVE  calls'[t].pc = "idle"
    <3>1. Alone(u) /\ calls[t].pc = "idle"
      BY <1>1, <2>1 DEF Alone, SafeInv, CallsInv
    <3>2. \A h \in Handle : ~Up(c[h])
      BY <1>3, <3>1 DEF Alone, SafeInv, HandlesInv
    <3> QED
      BY <3>1, <3>2 DEF Moves
  <2>2. ASSUME NEW u \in Threads, u # t, Alone(t)' PROVE calls'[u].pc = "idle"
    BY <1>1, <2>2 DEF Alone, SafeInv, CallsInv, Moves
  <2>3. \A u, v \in Threads : Alone(u)' => u = v \/ calls'[v].pc = "idle"
    <3>1. ASSUME NEW u \in Threads, NEW v \in Threads, Alone(u)', u # v PROVE calls'[v].pc = "idle"
      <4>1. CASE u = t
        BY <2>2, <3>1, <4>1
      <4>2. CASE v = t
        BY <2>1, <3>1, <4>2
      <4>3. CASE u # t /\ v # t
        BY <1>1, <3>1, <4>3 DEF Alone, SafeInv, CallsInv
      <4> QED
        BY <4>1, <4>2, <4>3
    <3> QED
      BY <3>1
  <2>4. \A u \in Threads : Opening(u)' => calls'[u].h = client' /\ client' \in Handle /\ ~terminated'
    BY <1>1 DEF SafeInv, CallsInv, Moves
  <2>5. \A u \in Threads : calls'[u].pc = "poll" => ~running'
    <3>1. ASSUME NEW u \in Threads \ {t}, calls'[u].pc = "poll" PROVE ~running'
      <4>1. calls[u].pc = "poll" /\ ~running
        BY <1>1, <3>1 DEF SafeInv, CallsInv
      <4>2. ~Opening(t)
        BY <3>1, <4>1 DEF SafeInv, CallsInv, Alone
      <4> QED
        BY <4>1, <4>2 DEF Moves
    <3> QED
      BY <3>1 DEF Moves
  <2>6. \A u \in Threads : (calls'[u].pc = "idle" => ~Opening(u)') /\ (Leaving(u)' => ~IsConnect(u)')
    BY <1>1 DEF SafeInv, CallsInv, Moves, IsConnect, Leaving
  <2>7. \A u \in Threads : calls'[u].pc = "stopping" => calls'[u].next \in {"idle", "destroy", "terminate"}
    BY <1>1 DEF SafeInv, CallsInv, Moves, Leaving
  <2> QED
    BY <2>3, <2>4, <2>5, <2>6, <2>7 DEF CallsInv
<1>5. HandlesInv'
  <2>1. \A h \in Handle : InUse(c'[h]) => h = client'
    BY <1>2 DEF SafeInv, HandlesInv, Moves
  <2>2. \A u \in Threads, h \in Handle : Opening(u)' => ~Up(c'[h])
    BY <1>1, <1>2 DEF SafeInv, HandlesInv, Moves
  <2>3. \A u \in Threads, h \in Handle : Leaving(u)' => ~InUse(c'[h])
    <3>1. ASSUME NEW u \in Threads \ {t}, Leaving(u)' PROVE ~Opening(t)
      <4>1. calls[t].pc = "idle"
        BY <1>1, <3>1 DEF SafeInv, CallsInv, Alone
      <4> QED
        BY <4>1 DEF SafeInv, CallsInv
    <3> QED
      BY <1>1, <1>2, <3>1 DEF SafeInv, HandlesInv, Moves
  <2> QED
    BY <2>1, <2>2, <2>3 DEF HandlesInv
<1>6. ThreadInv'
  <2>1. (running' <=> run'.pc # "none") /\ (tostop' => running')
    BY DEF SafeInv, ThreadInv, Moves, Last
  <2>2. /\ run'.pc = "callback" => run'.h \in Handle
        /\ ~gaveUp' /\ run'.pc = "callback" => c'[run'.h].life = "live"
    BY DEF SafeInv, ThreadInv, Moves, Kept
  <2>3. ~gaveUp' /\ tostop' => run'.pc = "cycled" \/ \E u \in Threads : calls'[u].pc = "stopping"
    <3>1. CASE calls'[t].pc = "stopping"
      BY <3>1
    <3>2. CASE tostop' = tostop
      <4>1. ASSUME ~gaveUp', tostop' PROVE run' = run /\ (run.pc = "cycled" \/ \E u \in Threads : calls[u].pc = "stopping")
        BY <3>2, <4>1 DEF SafeInv, ThreadInv, Moves
      <4>2. \A u \in Threads : calls[u].pc = "stopping" => calls'[u].pc = "stopping"
        BY <1>1 DEF Moves
      <4> QED
        BY <4>1, <4>2
    <3> QED
      BY <3>1, <3>2 DEF Moves
  <2>4. ~gaveUp' /\ Freeing' => ~running' \/ Ending'
    <3>1. Freeing' => Freeing
      BY <1>1 DEF Freeing, Moves, Leaving
    <3>2. Freeing => ~Opening(t)
      <4>1. ASSUME NEW u \in Threads, calls[u].pc \in {"destroy", "terminate"} PROVE ~Opening(t)
        <5>1. Leaving(u)
          BY <4>1 DEF Leaving
        <5>2. u = t \/ calls[t].pc = "idle"
          BY <5>1 DEF SafeInv, CallsInv, Alone
        <5> QED
          BY <5>1, <5>2 DEF SafeInv, CallsInv, IsConnect, Opening
      <4> QED
        BY <4>1 DEF Freeing, SafeInv, CallsInv, Opening
    <3>3. ASSUME ~gaveUp', Freeing' PROVE ~running' \/ Ending'
      <4>1. UNCHANGED <<run, running>> /\ (~running \/ Ending)
        BY <3>1, <3>2, <3>3 DEF SafeInv, ThreadInv, Moves
      <4> QED
        BY <4>1 DEF Moves, Ending, Last
    <3> QED
      BY <3>3
  <2> QED
    BY <2>1, <2>2, <2>3, <2>4 DEF SafeInv, ThreadInv, Moves
<1>7. ServedInv'
  <2>1. ~raced' => ~raced /\ (running => running') /\ (\A u \in Threads : Opening(u)' => ~tostop')
    BY DEF Moves, Note, Shape, Flags, SafeInv
  <2>2. ASSUME NEW h \in Handle, Up(c'[h]), ~raced' PROVE running' /\ ~tostop'
    <3>1. running /\ ~tostop /\ InUse(c'[h])
      BY <1>2, <2>1, <2>2 DEF SafeInv, ServedInv, Up, InUse
    <3> QED
      BY <2>1, <2>2, <3>1 DEF Moves, Last
  <2>3. ASSUME NEW u \in Threads, Opening(u)', ~raced'
        PROVE  ~tostop' /\ (calls'[u].pc # "attempt" => running')
    <3>1. CASE u = t
      BY <2>1, <2>3, <3>1 DEF SafeInv, ServedInv, Moves
    <3>2. CASE u # t
      BY <1>1, <2>1, <2>3, <3>2 DEF SafeInv, ServedInv
    <3> QED
      BY <3>1, <3>2
  <2> QED
    BY <2>2, <2>3 DEF ServedInv
<1> QED
  BY <1>4, <1>5, <1>6, <1>7 DEF SafeInv, Moves

-----------------------------------------------------------------------------
(* Handles *)

LEMMA ClosedFields ==
  ASSUME NEW m, DOMAIN m = ClientFields
  PROVE  /\ DOMAIN Closed(m) = ClientFields /\ Closed(m).life = m.life
         /\ Closed(m).connected = FALSE /\ Closed(m).state = "none"
  BY DEF Closed, ClientFields

LEMMA CloseOne ==
  ASSUME Table(c), NEW h, CloseSession(h)
  PROVE  /\ Table(c)' /\ Reduced
         /\ \A g \in Handle : g # h => c'[g] = c[g]
         /\ h \in Handle => ~InUse(c'[h]) /\ ~Up(c'[h])
<1>1. /\ DOMAIN c' = Handle
      /\ \A g \in Handle : c'[g] = IF g = h THEN Closed(c[g]) ELSE c[g]
  BY DEF CloseSession, Table
<1>2. \A g \in Handle : /\ DOMAIN Closed(c[g]) = ClientFields /\ Closed(c[g]).life = c[g].life
                        /\ Closed(c[g]).connected = FALSE /\ Closed(c[g]).state = "none"
  BY ClosedFields DEF Table
<1> QED
  BY <1>1, <1>2 DEF Table, Reduced, Kept, InUse, Up

LEMMA CloseAttemptOne ==
  ASSUME Table(c), NEW h, NEW left, CloseAttempt(h, left)
  PROVE  /\ Table(c)' /\ Reduced
         /\ \A g \in Handle : g # h => c'[g] = c[g]
         /\ h \in Handle => ~InUse(c'[h]) /\ ~Up(c'[h])
<1> DEFINE Failed(m) == [Closed(m) EXCEPT !.pack = left]
<1>1. /\ DOMAIN c' = Handle
      /\ \A g \in Handle : c'[g] = IF g = h THEN Failed(c[g]) ELSE c[g]
  BY DEF CloseAttempt, Table
<1>2. \A g \in Handle : /\ DOMAIN Failed(c[g]) = ClientFields /\ Failed(c[g]).life = c[g].life
                        /\ Failed(c[g]).connected = FALSE /\ Failed(c[g]).state = "none"
  <2> TAKE g \in Handle
  <2> DEFINE k == Closed(c[g])
  <2>1. /\ DOMAIN k = ClientFields /\ k.life = c[g].life
        /\ k.connected = FALSE /\ k.state = "none"
    BY ClosedFields DEF Table
  <2>2. Failed(c[g]) = [k EXCEPT !.pack = left]
    OBVIOUS
  <2> HIDE DEF k, Failed
  <2> QED BY <2>1, <2>2 DEF ClientFields
<1> HIDE DEF Failed
<1> QED
  BY <1>1, <1>2 DEF Table, Reduced, Kept, InUse, Up

\* A cycle changes nothing of a handle that the argument looks at.
LEMMA CycleFields ==
  ASSUME NEW h, DOMAIN c[h] = ClientFields
  PROVE  /\ DOMAIN CycleResult(h).m = ClientFields
         /\ CycleResult(h).m.life = c[h].life /\ CycleResult(h).m.connected = c[h].connected
         /\ CycleResult(h).m.state = c[h].state
<1>1. CycleResult(h).m \in {c[h], [c[h] EXCEPT !.queue = TRUE]}
  BY DEF CycleResult
<1>2. \A m \in {c[h], [c[h] EXCEPT !.queue = TRUE]} :
         /\ DOMAIN m = ClientFields /\ m.life = c[h].life /\ m.connected = c[h].connected
         /\ m.state = c[h].state
  BY DEF ClientFields
<1> QED
  BY <1>1, <1>2

\* The keep-alive at the end of a cycle.
LEMMA KeptAliveFields ==
  ASSUME Table(c), NEW cs, Table(cs), NEW ns, NEW gone, KeptAlive(cs, ns, gone), tostop \in BOOLEAN,
         \A h \in Handle : /\ cs[h].life = c[h].life /\ cs[h].connected = c[h].connected
                           /\ cs[h].state = c[h].state
  PROVE  /\ Table(c)' /\ Reduced
         /\ tostop' \in BOOLEAN /\ (tostop' = tostop \/ Last(running, c'))
<1>1. c' = [h \in Handle |-> IF h \in gone THEN Closed(cs[h]) ELSE cs[h]]
  BY DEF KeptAlive
<1>2. \A h \in Handle : /\ DOMAIN Closed(cs[h]) = ClientFields /\ Closed(cs[h]).life = cs[h].life
                        /\ Closed(cs[h]).connected = FALSE /\ Closed(cs[h]).state = "none"
  BY ClosedFields DEF Table
<1>3. Table(c)' /\ Reduced
  BY <1>1, <1>2 DEF Table, Reduced, Kept
<1>4. tostop' = tostop \/ tostop' = (tostop \/ Last(running, c'))
  BY DEF KeptAlive, StopSelf
<1> QED
  BY <1>3, <1>4 DEF Last

\* A cycle on the socket of g.
LEMMA CycleTable ==
  ASSUME Table(c), NEW g
  PROVE  LET cs == [c EXCEPT ![g] = CycleResult(g).m]
         IN  /\ Table(cs)
             /\ \A h \in Handle : /\ cs[h].life = c[h].life /\ cs[h].connected = c[h].connected
                                  /\ cs[h].state = c[h].state
<1> DEFINE cs == [c EXCEPT ![g] = CycleResult(g).m]
<1>1. DOMAIN cs = Handle /\ \A h \in Handle : cs[h] = IF h = g THEN CycleResult(g).m ELSE c[h]
  BY DEF Table
<1>2. \A h \in Handle : h = g =>
         /\ DOMAIN CycleResult(g).m = ClientFields
         /\ CycleResult(g).m.life = c[h].life /\ CycleResult(g).m.connected = c[h].connected
         /\ CycleResult(g).m.state = c[h].state
  BY CycleFields DEF Table
<1> HIDE DEF cs
<1>3. Table(cs) /\ \A h \in Handle : /\ cs[h].life = c[h].life /\ cs[h].connected = c[h].connected
                                     /\ cs[h].state = c[h].state
  BY <1>1, <1>2 DEF Table
<1> QED
  BY <1>3 DEF cs

-----------------------------------------------------------------------------
(* Calls *)

\* MQTTClient_stop by an application thread.
LEMMA StopFacts ==
  ASSUME CallTable, NEW t \in Threads, NEW next, Stop(t, next), tostop \in BOOLEAN, running' \in BOOLEAN
  PROVE  /\ CallTable' /\ tostop' \in BOOLEAN
         /\ \A u \in Threads \ {t} : calls'[u] = calls[u]
         /\ \/ /\ calls'[t].pc = "stopping" /\ calls'[t].next = next /\ Last(running', c')
               /\ calls'[t].for = calls[t].for /\ calls'[t].h = calls[t].h
            \/ /\ tostop' = tostop /\ ~Last(running', c')
               /\ IF next = "idle" THEN calls'[t] = NoCall
                  ELSE calls'[t].pc = next /\ calls'[t].for = calls[t].for /\ calls'[t].h = calls[t].h
<1>1. tostop' = (tostop \/ Last(running', c'))
  BY DEF Stop
<1>2. CASE Last(running', c')
  <2>1. calls' = [calls EXCEPT ![t] = [calls[t] EXCEPT !.pc = "stopping", !.next = next]]
    BY <1>2 DEF Stop
  <2> QED
    BY <1>1, <1>2, <2>1 DEF CallTable, CallFields
<1>3. CASE ~Last(running', c')
  <2>1. calls' = [calls EXCEPT ![t] = IF next = "idle" THEN NoCall ELSE [calls[t] EXCEPT !.pc = next]]
    BY <1>3 DEF Stop
  <2>2. DOMAIN NoCall = CallFields
    BY DEF NoCall, CallFields
  <2>3. CallTable'
    BY <2>1, <2>2 DEF CallTable, CallFields
  <2>4. IF next = "idle" THEN calls'[t] = NoCall
        ELSE calls'[t].pc = next /\ calls'[t].for = calls[t].for /\ calls'[t].h = calls[t].h
    BY <2>1 DEF CallTable, CallFields
  <2>5. \A u \in Threads \ {t} : calls'[u] = calls[u]
    BY <2>1 DEF CallTable
  <2> QED
    BY <1>1, <1>3, <2>3, <2>4, <2>5
<1> QED
  BY <1>2, <1>3

LEMMA IdleCall == NoCall.pc = "idle" /\ NoCall.for.type = "none" /\ NoCall.next = "idle"
                    /\ DOMAIN NoCall = CallFields
  BY DEF NoCall, None, CallFields

\* A step within a call that waits.
LEMMA WaitingMoves ==
  ASSUME SafeInv, NEW t \in Threads, Note, Table(c)', Reduced, CallTable',
         UNCHANGED <<client, run, running, tostop, terminated, undefined, gaveUp>>,
         \A u \in Threads \ {t} : calls'[u] = calls[u],
         calls[t].pc \in {"begin", "wait", "poll", "read", "got"},
         calls'[t].pc \in {"wait", "poll", "read", "got"}, calls'[t].pc = "poll" => ~running,
         calls'[t].h = calls[t].h, calls'[t].for = calls[t].for
  PROVE  Moves(t)
<1>1. raced' \in BOOLEAN
  BY DEF Note
<1>2. Shape'
  BY <1>1 DEF SafeInv, Shape, Flags
<1> QED
  BY <1>2 DEF Moves, Reduced, Leaving, Opening

LEMMA WaitMoves ==
  ASSUME SafeInv, NEW t \in Threads, Note, Waitfor(t) \/ WaitEnds(t) \/ ReadPack(t)
  PROVE  Moves(t)
<1>1. CallTable /\ Table(c)
  BY DEF SafeInv, Shape
<1>2. CASE Waitfor(t)
  <2>1. /\ calls[t].pc = "begin"
        /\ UNCHANGED <<c, client, run, running, tostop, terminated, undefined, gaveUp>>
    BY <1>2 DEF Waitfor, library
  <2>2. /\ CallTable' /\ \A u \in Threads \ {t} : calls'[u] = calls[u]
        /\ calls'[t].pc \in {"wait", "poll", "got"} /\ (calls'[t].pc = "poll" => ~running)
        /\ calls'[t].h = calls[t].h /\ calls'[t].for = calls[t].for
    BY <1>1, <1>2 DEF Waitfor, CallTable, CallFields
  <2>3. Table(c)' /\ Reduced
    BY <1>1, <2>1 DEF Table, Reduced, Kept
  <2> QED
    BY <2>1, <2>2, <2>3, WaitingMoves
<1>3. CASE WaitEnds(t)
  <2>1. /\ calls[t].pc = "wait"
        /\ UNCHANGED <<client, run, running, tostop, terminated, undefined, gaveUp>>
    BY <1>3 DEF WaitEnds, library
  <2>2. /\ CallTable' /\ \A u \in Threads \ {t} : calls'[u] = calls[u]
        /\ calls'[t].pc = "read"
        /\ calls'[t].h = calls[t].h /\ calls'[t].for = calls[t].for
    BY <1>1, <1>3 DEF WaitEnds, CallTable, CallFields
  <2>3. \/ c' = c
        \/ c' = [c EXCEPT ![calls[t].h].sems = c[calls[t].h].sems \ {calls[t].for.type}]
    BY <1>3 DEF WaitEnds
  <2>4. Table(c)' /\ Reduced
    BY <1>1, <2>3 DEF Table, Reduced, Kept, ClientFields
  <2> QED
    BY <2>1, <2>2, <2>4, WaitingMoves
<1>4. CASE ReadPack(t)
  <2>1. /\ calls[t].pc = "read"
        /\ UNCHANGED <<c, client, run, running, tostop, terminated, undefined, gaveUp>>
    BY <1>4 DEF ReadPack, library
  <2>2. /\ CallTable' /\ \A u \in Threads \ {t} : calls'[u] = calls[u]
        /\ calls'[t].pc = "got"
        /\ calls'[t].h = calls[t].h /\ calls'[t].for = calls[t].for
    BY <1>1, <1>4 DEF ReadPack, CallTable, CallFields
  <2>3. Table(c)' /\ Reduced
    BY <1>1, <2>1 DEF Table, Reduced, Kept
  <2> QED
    BY <2>1, <2>2, <2>3, WaitingMoves
<1> QED
  BY <1>2, <1>3, <1>4

LEMMA PollMoves == ASSUME SafeInv, NEW t \in Threads, Note, Poll(t) PROVE Moves(t)
<1>1. CallTable /\ Table(c) /\ tostop \in BOOLEAN
  BY DEF SafeInv, Shape, Flags
<1>2. /\ calls[t].pc = "poll" /\ ~running
      /\ UNCHANGED <<client, run, running, terminated, undefined, gaveUp>>
  BY DEF Poll, SafeInv, CallsInv
<1>3. /\ CallTable' /\ \A u \in Threads \ {t} : calls'[u] = calls[u]
      /\ calls'[t].pc \in {"poll", "got"}
      /\ calls'[t].h = calls[t].h /\ calls'[t].for = calls[t].for
  <2>1. \/ calls' = calls
        \/ \E rc \in {"ok", "error", SoError(calls[t].h)}, pack \in {None} \cup {CycleResult(g).pack : g \in Live} :
              calls' = [calls EXCEPT ![t].pc = "got", ![t].rc = rc, ![t].got = pack]
        \/ calls' = [[calls EXCEPT ![t].pc = "got", ![t].rc = "timeout", ![t].got = None]
                        EXCEPT ![t].expired = TRUE]
    BY DEF Poll
  <2>2. CASE calls' = calls
    BY <1>1, <1>2, <2>2 DEF CallTable
  <2>3. ASSUME NEW rc, NEW pack, calls' = [calls EXCEPT ![t].pc = "got", ![t].rc = rc, ![t].got = pack]
        PROVE  /\ CallTable' /\ \A u \in Threads \ {t} : calls'[u] = calls[u]
               /\ calls'[t].pc \in {"poll", "got"}
               /\ calls'[t].h = calls[t].h /\ calls'[t].for = calls[t].for
    BY <1>1, <2>3 DEF CallTable, CallFields
  <2>4. CASE calls' = [[calls EXCEPT ![t].pc = "got", ![t].rc = "timeout", ![t].got = None]
                         EXCEPT ![t].expired = TRUE]
    BY <1>1, <2>4 DEF CallTable, CallFields
  <2> QED
    BY <2>1, <2>2, <2>3, <2>4
<1>4. Table(c)' /\ Reduced /\ tostop' \in BOOLEAN /\ (tostop' = tostop \/ Last(running, c'))
  <2>1. ASSUME NEW gone, NEW g, KeptAlive([c EXCEPT ![g] = CycleResult(g).m], [net EXCEPT ![g] = CycleResult(g).n], gone)
        PROVE  Table(c)' /\ Reduced /\ tostop' \in BOOLEAN /\ (tostop' = tostop \/ Last(running, c'))
    <3> DEFINE cs == [c EXCEPT ![g] = CycleResult(g).m]
               ns == [net EXCEPT ![g] = CycleResult(g).n]
    <3>1. /\ Table(cs) /\ KeptAlive(cs, ns, gone)
          /\ \A h \in Handle : /\ cs[h].life = c[h].life /\ cs[h].connected = c[h].connected
                               /\ cs[h].state = c[h].state
      BY <1>1, <2>1, CycleTable
    <3> HIDE DEF cs, ns
    <3> QED
      BY <1>1, <3>1, KeptAliveFields
  <2>2. ASSUME NEW gone, KeptAlive(c, net, gone)
        PROVE  Table(c)' /\ Reduced /\ tostop' \in BOOLEAN /\ (tostop' = tostop \/ Last(running, c'))
    BY <1>1, <2>2, KeptAliveFields
  <2> QED
    BY <2>1, <2>2 DEF Poll
<1>5. tostop' = tostop
  BY <1>2, <1>4 DEF Last
<1> QED
  BY <1>2, <1>3, <1>4, <1>5, WaitingMoves

LEMMA StartFacts ==
  ASSUME StartThread
  PROVE  /\ \/ UNCHANGED <<run, running>> /\ running
            \/ ~running /\ running' /\ run'.pc = "select"
         /\ DOMAIN run = RunFields /\ running \in BOOLEAN => DOMAIN run' = RunFields /\ running' \in BOOLEAN
<1>1. DOMAIN RunLoop = RunFields /\ RunLoop.pc = "select"
  BY DEF RunLoop, RunFields
<1>2. CASE running
  BY <1>2 DEF StartThread
<1>3. CASE ~running
  <2>1. run' = RunLoop /\ running' = TRUE
    BY <1>3 DEF StartThread
  <2> QED
    BY <1>1, <1>3, <2>1
<1> QED
  BY <1>2, <1>3

LEMMA FailThenFacts ==
  ASSUME SafeInv, NEW t \in Threads, NEW left, FailThen(t, left), running' \in BOOLEAN
  PROVE  /\ Table(c)' /\ Reduced /\ CallTable' /\ tostop' \in BOOLEAN
         /\ \A u \in Threads \ {t} : calls'[u] = calls[u]
         /\ \/ tostop' = tostop /\ calls'[t].pc = "attempt" /\ calls'[t].h = calls[t].h
            \/ tostop' = tostop /\ calls'[t] = NoCall
            \/ /\ Last(running', c') /\ calls'[t].pc = "stopping" /\ calls'[t].next = "idle"
               /\ calls'[t].for = calls[t].for /\ calls'[t].h = calls[t].h
<1>1. Table(c) /\ CallTable /\ tostop \in BOOLEAN
  BY DEF SafeInv, Shape, Flags
<1>2. Table(c)' /\ Reduced
  BY <1>1, CloseAttemptOne DEF FailThen
<1>3. CASE calls[t].version = 4
  <2>1. /\ tostop' = tostop
        /\ calls' = [calls EXCEPT ![t] = [NoCall EXCEPT !.pc = "attempt", !.h = calls[t].h,
                                            !.version = 3, !.expired = calls[t].expired]]
    BY <1>3 DEF FailThen
  <2>2. /\ CallTable' /\ \A u \in Threads \ {t} : calls'[u] = calls[u]
        /\ calls'[t].pc = "attempt" /\ calls'[t].h = calls[t].h
    BY <1>1, <2>1 DEF CallTable, CallFields, NoCall
  <2> QED
    BY <1>1, <1>2, <2>1, <2>2
<1>4. CASE calls[t].version # 4
  <2>1. Stop(t, "idle")
    BY <1>4 DEF FailThen
  <2> QED
    BY <1>1, <1>2, <2>1, StopFacts
<1> QED
  BY <1>3, <1>4

ConnectFails(t) == \E left : FailThen(t, left)

\* The step of a connect that fails.
LEMMA FailMoves ==
  ASSUME SafeInv, NEW t \in Threads, Note, NEW left, FailThen(t, left), Opening(t),
         calls[t].pc \in {"attempt", "got"},
         UNCHANGED <<client, terminated, undefined, gaveUp>>,
         DOMAIN run' = RunFields, running' \in BOOLEAN,
         UNCHANGED <<run, running>> \/ (~running /\ running' /\ run'.pc = "select")
  PROVE  Moves(t)
<1>1. /\ Table(c)' /\ Reduced /\ CallTable' /\ tostop' \in BOOLEAN
      /\ \A u \in Threads \ {t} : calls'[u] = calls[u]
      /\ \/ tostop' = tostop /\ calls'[t].pc = "attempt" /\ calls'[t].h = calls[t].h
         \/ tostop' = tostop /\ calls'[t] = NoCall
         \/ /\ Last(running', c') /\ calls'[t].pc = "stopping" /\ calls'[t].next = "idle"
            /\ calls'[t].for = calls[t].for /\ calls'[t].h = calls[t].h
  BY FailThenFacts
<1>2. Shape'
  BY <1>1 DEF SafeInv, Shape, Flags, Note
<1>3. /\ calls'[t].pc \notin {"poll", "destroy", "terminate"} /\ ~Leaving(t)'
      /\ calls'[t].pc = "idle" => ~Opening(t)'
      /\ Opening(t)' => /\ calls'[t].h = calls[t].h
                        /\ calls'[t].pc = "attempt" \/ running'
  BY <1>1, IdleCall DEF Leaving, Opening, Last
<1>4. tostop' = tostop \/ (Last(running', c') /\ calls'[t].pc = "stopping")
  BY <1>1
<1> QED
  BY <1>1, <1>2, <1>3, <1>4 DEF Moves, Reduced

LEMMA ConnectMoves ==
  ASSUME SafeInv, NEW t \in Threads, Note,
         AttemptFails(t) \/ Attempt(t) \/ ConnectTcpDone(t) \/ (ConnackDone(t) /\ ConnectFails(t))
  PROVE  Moves(t)
<1>0. Table(c) /\ CallTable /\ DOMAIN run = RunFields /\ running \in BOOLEAN /\ tostop \in BOOLEAN
  BY DEF SafeInv, Shape, Flags
<1>1. CASE AttemptFails(t)
  <2>1. /\ Opening(t) /\ calls[t].pc = "attempt" /\ StartThread
        /\ UNCHANGED <<client, terminated, undefined, gaveUp>>
    BY <1>1 DEF AttemptFails, Attempting, Opening
  <2>2. /\ UNCHANGED <<run, running>> \/ (~running /\ running' /\ run'.pc = "select")
        /\ DOMAIN run' = RunFields /\ running' \in BOOLEAN
    BY <1>0, <2>1, StartFacts
  <2>3. CASE ConnectFails(t)
    BY <2>1, <2>2, <2>3, FailMoves DEF ConnectFails
  <2>4. CASE /\ CloseSession(calls[t].h) /\ tostop' = tostop
             /\ calls' = [calls EXCEPT ![t] = NoCall]
    <3>1. /\ CallTable' /\ calls'[t] = NoCall /\ \A u \in Threads \ {t} : calls'[u] = calls[u]
      BY <1>0, <2>4, IdleCall DEF CallTable
    <3>2. Table(c)' /\ Reduced
      BY <1>0, <2>4, CloseOne
    <3>3. Shape'
      BY <2>1, <2>2, <2>4, <3>1, <3>2 DEF SafeInv, Shape, Flags, Note
    <3> QED
      BY <2>1, <2>2, <2>4, <3>1, <3>2, <3>3, IdleCall DEF Moves, Reduced, Leaving, Opening
  <2> QED
    BY <1>1, <2>3, <2>4 DEF AttemptFails, ConnectFails
<1>2. CASE Attempt(t)
  <2>1. /\ Opening(t) /\ calls[t].pc = "attempt" /\ StartThread
        /\ UNCHANGED <<client, tostop, terminated, undefined, gaveUp>>
    BY <1>2 DEF Attempt, Attempting, Opening
  <2>2. /\ UNCHANGED <<run, running>> \/ (~running /\ running' /\ run'.pc = "select")
        /\ DOMAIN run' = RunFields /\ running' \in BOOLEAN /\ running'
    BY <1>0, <2>1, StartFacts
  <2>3. calls[t].h = client /\ client \in Handle
    BY <2>1 DEF SafeInv, CallsInv
  <2>4. PICK now \in BOOLEAN :
          /\ c' = [c EXCEPT ![client].fd = NewFd, ![client].state = IF now THEN "connack" ELSE "tcp"]
          /\ calls' = [calls EXCEPT ![t].pc = "begin",
                                    ![t].for = Of(IF now THEN "CONNACK" ELSE "CONNECT")]
    BY <1>2, <2>3 DEF Attempt
  <2>5. /\ Table(c)' /\ Kept
        /\ \A h \in Handle : c'[h].state # "none" => c[h].state # "none" \/ h = client
    BY <1>0, <2>3, <2>4 DEF Table, Kept, ClientFields
  <2>6. /\ CallTable' /\ \A u \in Threads \ {t} : calls'[u] = calls[u]
        /\ calls'[t].pc = "begin" /\ calls'[t].h = calls[t].h
    BY <1>0, <2>4 DEF CallTable, CallFields
  <2>7. Shape'
    BY <2>1, <2>2, <2>5, <2>6 DEF SafeInv, Shape, Flags, Note
  <2> QED
    BY <2>1, <2>2, <2>5, <2>6, <2>7 DEF Moves, Leaving
<1>3. CASE ConnectTcpDone(t)
  <2>1. /\ Opening(t) /\ calls[t].pc = "got"
        /\ UNCHANGED <<client, run, running, terminated, undefined, gaveUp>>
    BY <1>3 DEF ConnectTcpDone, Opening
  <2>2. CASE ConnectFails(t)
    BY <1>0, <2>1, <2>2, FailMoves DEF ConnectFails
  <2>3. CASE /\ c' = [c EXCEPT ![calls[t].h].state = "connack"] /\ tostop' = tostop
             /\ calls' = [calls EXCEPT ![t].pc = "begin", ![t].for = Of("CONNACK")]
    <3>1. calls[t].h = client /\ client \in Handle
      BY <2>1 DEF SafeInv, CallsInv
    <3>2. /\ Table(c)' /\ Kept
          /\ \A h \in Handle : c'[h].state # "none" => c[h].state # "none" \/ h = client
      BY <1>0, <2>3, <3>1 DEF Table, Kept, ClientFields
    <3>3. /\ CallTable' /\ \A u \in Threads \ {t} : calls'[u] = calls[u]
          /\ calls'[t].pc = "begin" /\ calls'[t].h = calls[t].h
      BY <1>0, <2>3 DEF CallTable, CallFields
    <3>4. Shape'
      BY <1>0, <2>1, <2>3, <3>2, <3>3 DEF SafeInv, Shape, Flags, Note
    <3> QED
      BY <2>1, <2>3, <3>2, <3>3, <3>4 DEF Moves, Leaving
  <2> QED
    BY <1>3, <2>2, <2>3 DEF ConnectTcpDone, ConnectFails
<1>4. CASE ConnackDone(t) /\ ConnectFails(t)
  <2>1. /\ Opening(t) /\ calls[t].pc = "got"
        /\ UNCHANGED <<client, run, running, terminated, undefined, gaveUp>>
    BY <1>4 DEF ConnackDone, Opening
  <2> QED
    BY <1>0, <1>4, <2>1, FailMoves DEF ConnectFails
<1> QED
  BY <1>1, <1>2, <1>3, <1>4

\* A subscribe or unsubscribe that ends with its session.
LEMMA AskEndMoves ==
  ASSUME SafeInv, NEW t \in Threads, Note, NEW h, CloseSession(h), Stop(t, "idle"),
         calls[t].pc \in {"idle", "got"}, ~Opening(t),
         calls[t].pc = "idle" => \E g \in Handle : Up(c[g]),
         UNCHANGED <<client, run, running, terminated, undefined, gaveUp>>
  PROVE  Moves(t)
<1>0. Table(c) /\ CallTable /\ DOMAIN run = RunFields /\ running \in BOOLEAN /\ tostop \in BOOLEAN
  BY DEF SafeInv, Shape, Flags
<1>1. /\ CallTable' /\ tostop' \in BOOLEAN /\ \A u \in Threads \ {t} : calls'[u] = calls[u]
      /\ \/ /\ calls'[t].pc = "stopping" /\ calls'[t].next = "idle" /\ Last(running', c')
            /\ calls'[t].for = calls[t].for
         \/ tostop' = tostop /\ calls'[t] = NoCall
  BY <1>0, StopFacts
<1>2. Table(c)' /\ Reduced
  BY <1>0, CloseOne
<1>3. Shape'
  BY <1>0, <1>1, <1>2 DEF SafeInv, Shape, Flags, Note
<1>4. calls'[t].pc \notin {"poll", "attempt"} /\ ~Leaving(t)' /\ ~Opening(t)'
  BY <1>1, IdleCall DEF Leaving, Opening
<1>5. tostop' = tostop \/ (Last(running', c') /\ calls'[t].pc = "stopping")
  BY <1>1
<1> QED
  BY <1>1, <1>2, <1>3, <1>4, <1>5 DEF Moves, Reduced

LEMMA AskMoves ==
  ASSUME SafeInv, NEW t \in Threads, Note, (\E kind \in Acks : Ask(t, kind)) \/ AskDone(t)
  PROVE  Moves(t)
<1>0. Table(c) /\ CallTable /\ DOMAIN run = RunFields /\ running \in BOOLEAN /\ tostop \in BOOLEAN
  BY DEF SafeInv, Shape, Flags
<1>1. ASSUME NEW kind \in Acks, Ask(t, kind) PROVE Moves(t)
  <2>1. /\ calls[t].pc = "idle" /\ client \in Live /\ Up(c[client]) /\ ~Opening(t)
        /\ UNCHANGED <<client, run, running, terminated, undefined, gaveUp>>
    BY <1>1 DEF Ask, Live, Up, SafeInv, CallsInv
  <2>2. client \in Handle
    BY <2>1 DEF Live
  <2>3. CASE CloseSession(client) /\ Stop(t, "idle")
    BY <2>1, <2>2, <2>3, AskEndMoves
  <2> DEFINE ask == [type |-> kind, id |-> c[client].msgID + 1, ok |-> TRUE]
  <2> DEFINE call == [NoCall EXCEPT !.pc = "begin", !.h = client, !.for = ask]
  <2>4. DOMAIN call = CallFields /\ call.pc = "begin" /\ call.for.type = kind
    BY DEF CallFields, NoCall
  <2>5. ASSUME c' = [c EXCEPT ![client].msgID = ask.id], tostop' = tostop,
               calls' = calls \/ calls' = [calls EXCEPT ![t] = call]
        PROVE  Moves(t)
    <3>1. Table(c)' /\ Reduced
      BY <1>0, <2>5 DEF Table, Reduced, Kept, ClientFields
    <3> HIDE DEF call
    <3>2. /\ CallTable' /\ \A u \in Threads \ {t} : calls'[u] = calls[u]
          /\ calls'[t] = calls[t] \/ calls'[t] = call
      BY <1>0, <2>4, <2>5 DEF CallTable
    <3>3. calls'[t].pc \in {"idle", "begin"} /\ ~Leaving(t)' /\ ~Opening(t)'
      BY <2>1, <2>4, <3>2 DEF Leaving, Opening, Acks
    <3>4. Shape'
      BY <1>0, <2>1, <2>5, <3>1, <3>2 DEF SafeInv, Shape, Flags, Note
    <3> QED
      BY <2>1, <2>2, <2>5, <3>1, <3>2, <3>3, <3>4 DEF Moves, Reduced
  <2> QED
    BY <1>1, <2>3, <2>5 DEF Ask
<1>2. CASE AskDone(t)
  <2>1. /\ calls[t].pc = "got" /\ calls[t].for.type \in Acks /\ ~Opening(t)
        /\ UNCHANGED <<client, run, running, terminated, undefined, gaveUp>>
    BY <1>2 DEF AskDone, Opening, Acks
  <2>2. CASE CloseSession(calls[t].h) /\ Stop(t, "idle")
    BY <2>1, <2>2, AskEndMoves
  <2>3. CASE /\ c' = [c EXCEPT ![calls[t].h].pack = None] /\ tostop' = tostop
             /\ calls' = [calls EXCEPT ![t] = NoCall]
    <3>1. Table(c)' /\ Reduced
      BY <1>0, <2>3 DEF Table, Reduced, Kept, ClientFields
    <3>2. CallTable' /\ calls'[t] = NoCall /\ \A u \in Threads \ {t} : calls'[u] = calls[u]
      BY <1>0, <2>3, IdleCall DEF CallTable
    <3>3. calls'[t].pc = "idle" /\ ~Leaving(t)' /\ ~Opening(t)'
      BY <3>2, IdleCall DEF Leaving, Opening
    <3>4. Shape'
      BY <1>0, <2>1, <2>3, <3>1, <3>2 DEF SafeInv, Shape, Flags, Note
    <3> QED
      BY <2>1, <2>3, <3>1, <3>2, <3>3, <3>4 DEF Moves, Reduced
  <2> QED
    BY <1>2, <2>2, <2>3 DEF AskDone
<1> QED
  BY <1>1, <1>2

-----------------------------------------------------------------------------
(* The life of a connection *)

\* A call that goes on while every other thread is idle.
LEMMA LoneCall ==
  ASSUME SafeInv, NEW t \in Threads,
         \A u \in Threads \ {t} : calls[u].pc = "idle" /\ calls'[u] = calls[u],
         Leaving(t)' => ~IsConnect(t)', calls'[t].pc = "idle" => ~Opening(t)',
         Opening(t)' => calls'[t].h = client' /\ client' \in Handle /\ ~terminated',
         calls'[t].pc # "poll",
         calls'[t].pc = "stopping" => calls'[t].next \in {"idle", "destroy", "terminate"}
  PROVE  /\ CallsInv'
         /\ \A u \in Threads \ {t} : calls'[u].pc = "idle" /\ ~Opening(u)' /\ ~Leaving(u)'
<1>1. \A u \in Threads \ {t} : calls'[u].pc = "idle" /\ ~Opening(u)' /\ ~Leaving(u)'
  BY DEF SafeInv, CallsInv, Opening, Leaving
<1> QED
  BY <1>1 DEF CallsInv, Alone

LEMMA OpenSafe == ASSUME SafeInv, NEW t \in Threads, Note, Open(t) PROVE SafeInv'
<1>0. Table(c) /\ CallTable /\ DOMAIN run = RunFields /\ Flags
  BY DEF SafeInv, Shape
<1>1. PICK h \in Handle :
        /\ c[h].life = "none"
        /\ c' = [g \in Handle |-> IF g = h THEN Fresh
                                  ELSE [c[g] EXCEPT !.pack = None, !.sems = {}, !.rc = "ok"]]
        /\ client' = h
        /\ calls' = [calls EXCEPT ![t] = [NoCall EXCEPT !.pc = "attempt", !.h = h]]
  BY DEF Open
<1>2. /\ \A u \in Threads : calls[u].pc = "idle"
      /\ \A g \in Handle : ~InUse(c[g])
      /\ terminated' = FALSE /\ UNCHANGED <<run, running, tostop, undefined, gaveUp>>
  BY DEF Open, Quiet
<1>3. DOMAIN Fresh = ClientFields /\ Fresh.connected = FALSE /\ Fresh.state = "none"
  BY DEF Fresh, ClientFields
<1>4. \A g \in Handle : g # h => /\ DOMAIN c'[g] = ClientFields
                                 /\ c'[g].life = c[g].life /\ c'[g].connected = c[g].connected
                                 /\ c'[g].state = c[g].state
  BY <1>0, <1>1 DEF Table, ClientFields
<1>5. Table(c)' /\ \A g \in Handle : ~InUse(c'[g]) /\ ~Up(c'[g])
  <2>1. DOMAIN c' = Handle /\ c'[h] = Fresh
    BY <1>1
  <2>2. Table(c)'
    BY <1>0, <1>3, <1>4, <2>1 DEF Table
  <2>3. ASSUME NEW g \in Handle PROVE ~InUse(c'[g]) /\ ~Up(c'[g])
    <3>1. CASE g = h
      BY <1>3, <2>1, <3>1 DEF InUse, Up
    <3>2. CASE g # h
      BY <1>2, <1>4, <3>2 DEF InUse, Up
    <3> QED
      BY <3>1, <3>2
  <2> QED
    BY <2>2, <2>3
<1> DEFINE call == [NoCall EXCEPT !.pc = "attempt", !.h = h]
<1>6. DOMAIN call = CallFields /\ call.pc = "attempt" /\ call.h = h
  BY DEF NoCall, CallFields
<1>7. calls' = [calls EXCEPT ![t] = call]
  BY <1>1
<1> HIDE DEF call
<1>8. CallTable' /\ calls'[t] = call /\ \A u \in Threads \ {t} : calls'[u] = calls[u]
  BY <1>0, <1>6, <1>7 DEF CallTable
<1>9. Opening(t)' /\ ~Leaving(t)' /\ calls'[t].pc = "attempt"
  BY <1>6, <1>8 DEF Opening, Leaving
<1>10. CallsInv' /\ \A u \in Threads \ {t} : calls'[u].pc = "idle" /\ ~Opening(u)' /\ ~Leaving(u)'
  BY <1>1, <1>2, <1>6, <1>8, <1>9, LoneCall
<1>11. Shape'
  <2>1. client' \in 0..MaxOpen
    <3>1. MaxOpen \in Nat
      BY ServiceAssumption
    <3>2. client' = h
      BY <1>1
    <3>3. h \in 1..MaxOpen
      BY DEF Handle
    <3> QED
      BY <3>1, <3>2, <3>3
  <2> QED
    BY <1>0, <1>2, <1>5, <1>8, <2>1 DEF Shape, Flags, Note
<1>12. HandlesInv'
  BY <1>5 DEF HandlesInv
<1>13. ThreadInv'
  <2>1. run.pc = "callback" /\ ~gaveUp => c'[run.h].life = "live"
    BY <1>1, <1>4 DEF SafeInv, ThreadInv
  <2>2. ~Freeing'
    BY <1>2, <1>9, <1>10 DEF Freeing
  <2> QED
    BY <1>2, <2>1, <2>2 DEF SafeInv, ThreadInv
<1>14. ServedInv'
  BY <1>5, <1>9, <1>10 DEF ServedInv, Note
<1> QED
  BY <1>10, <1>11, <1>12, <1>13, <1>14 DEF SafeInv

\* The CONNACK has come.
LEMMA ConnackSafe ==
  ASSUME SafeInv, NEW t \in Threads, Note, ConnackDone(t), ~ConnectFails(t)
  PROVE  SafeInv'
<1>0. Table(c) /\ CallTable /\ DOMAIN run = RunFields /\ Flags
  BY DEF SafeInv, Shape
<1>1. /\ Opening(t) /\ calls[t].pc = "got" /\ ~Leaving(t)
      /\ c' = [c EXCEPT ![calls[t].h] = [Closed(c[calls[t].h]) EXCEPT !.connected = TRUE,
                                             !.fd = c[calls[t].h].fd, !.pack = None]]
      /\ calls' = [calls EXCEPT ![t] = NoCall]
      /\ UNCHANGED <<client, run, running, tostop, terminated, undefined, gaveUp>>
  BY DEF ConnackDone, ConnectFails, Opening, Leaving
<1>2. calls[t].h = client /\ client \in Handle /\ ~terminated
  BY <1>1 DEF SafeInv, CallsInv
<1> DEFINE m == [Closed(c[client]) EXCEPT !.connected = TRUE, !.fd = c[client].fd, !.pack = None]
<1>3. DOMAIN m = ClientFields /\ m.life = c[client].life /\ m.connected = TRUE
  <2>1. DOMAIN Closed(c[client]) = ClientFields /\ Closed(c[client]).life = c[client].life
    BY <1>0, <1>2, ClosedFields DEF Table
  <2> DEFINE k == Closed(c[client])
  <2>2. DOMAIN k = ClientFields /\ k.life = c[client].life /\ m = [k EXCEPT !.connected = TRUE, !.fd = c[client].fd, !.pack = None]
    BY <2>1
  <2> HIDE DEF k, m
  <2> QED
    BY <2>2 DEF ClientFields
<1>4. c' = [c EXCEPT ![client] = m]
  BY <1>1, <1>2
<1> HIDE DEF m
<1>5. /\ Table(c)'
      /\ \A h \in Handle : c'[h].life = c[h].life /\ (h # client => c'[h] = c[h])
  BY <1>0, <1>2, <1>3, <1>4 DEF Table
<1>6. CallTable' /\ calls'[t] = NoCall /\ \A u \in Threads \ {t} : calls'[u] = calls[u]
  BY <1>0, <1>1, IdleCall DEF CallTable
<1>7. ~Opening(t)' /\ ~Leaving(t)' /\ calls'[t].pc = "idle"
  BY <1>6, IdleCall DEF Opening, Leaving
<1>8. \A u \in Threads \ {t} : calls[u].pc = "idle"
  BY <1>1 DEF SafeInv, CallsInv, Alone
<1>9. CallsInv' /\ \A u \in Threads \ {t} : calls'[u].pc = "idle" /\ ~Opening(u)' /\ ~Leaving(u)'
  BY <1>6, <1>7, <1>8, LoneCall
<1>10. Shape'
  BY <1>0, <1>1, <1>2, <1>5, <1>6 DEF SafeInv, Shape, Flags, Note
<1>11. HandlesInv'
  BY <1>1, <1>5, <1>7, <1>9 DEF SafeInv, HandlesInv
<1>12. ThreadInv'
  <2>1. ~Freeing'
    BY <1>1, <1>2, <1>7, <1>9 DEF Freeing
  <2>2. (\E u \in Threads : calls[u].pc = "stopping") => FALSE
    BY <1>1, <1>8
  <2> QED
    BY <1>1, <1>5, <2>1, <2>2 DEF SafeInv, ThreadInv
<1>13. ServedInv'
  <2>1. ~raced' => ~raced
    BY <1>1 DEF Note
  <2> QED
    BY <1>1, <1>7, <1>9, <2>1 DEF SafeInv, ServedInv
<1> QED
  BY <1>9, <1>10, <1>11, <1>12, <1>13 DEF SafeInv

LEMMA DisconnectSafe == ASSUME SafeInv, NEW t \in Threads, Note, Disconnect(t) PROVE SafeInv'
<1>0. Table(c) /\ CallTable /\ DOMAIN run = RunFields /\ Flags
  BY DEF SafeInv, Shape
<1>1. /\ client \in Handle /\ CloseSession(client)
      /\ \A u \in Threads : calls[u].pc = "idle"
      /\ UNCHANGED <<client, run, running, terminated, undefined, gaveUp>>
      /\ tostop' = (tostop \/ Last(running, c'))
      /\ calls' = [calls EXCEPT ![t] =
                     [NoCall EXCEPT !.pc = IF Last(running, c') THEN "stopping" ELSE "destroy",
                                    !.h = client, !.next = "destroy"]]
  BY DEF Disconnect, Quiet, SafeInv, Shape, Handle
<1>2. /\ Table(c)' /\ Reduced
      /\ \A h \in Handle : ~InUse(c'[h])
  <2>1. /\ Table(c)' /\ Reduced /\ ~InUse(c'[client])
        /\ \A h \in Handle : h # client => c'[h] = c[h]
    BY <1>0, <1>1, CloseOne
  <2> QED
    BY <2>1 DEF SafeInv, HandlesInv
<1> DEFINE pc == IF Last(running, c') THEN "stopping" ELSE "destroy"
           call == [NoCall EXCEPT !.pc = pc, !.h = client, !.next = "destroy"]
<1>3. /\ DOMAIN call = CallFields /\ call.pc = pc
      /\ call.next = "destroy" /\ call.for.type = "none"
  BY DEF NoCall, CallFields, None
<1>4. calls' = [calls EXCEPT ![t] = call]
  BY <1>1
<1> HIDE DEF call
<1>5. CallTable' /\ calls'[t] = call /\ \A u \in Threads \ {t} : calls'[u] = calls[u]
  BY <1>0, <1>3, <1>4 DEF CallTable
<1>6. /\ Leaving(t)' /\ ~Opening(t)' /\ ~IsConnect(t)'
      /\ calls'[t].pc \in {"stopping", "destroy"}
  BY <1>3, <1>5 DEF Opening, IsConnect, Leaving
<1>7. CallsInv' /\ \A u \in Threads \ {t} : calls'[u].pc = "idle" /\ ~Opening(u)' /\ ~Leaving(u)'
  BY <1>1, <1>3, <1>5, <1>6, LoneCall
<1>8. Shape'
  <2>1. tostop' \in BOOLEAN
    BY <1>1
  <2> QED
    BY <1>0, <1>1, <1>2, <1>5, <2>1 DEF SafeInv, Shape, Flags, Note
<1>9. HandlesInv'
  BY <1>2, <1>6, <1>7 DEF HandlesInv, Up, InUse
<1>10. ThreadInv'
  <2>1. CASE Last(running, c')
    <3>1. running /\ ~tostop /\ tostop' /\ calls'[t].pc = "stopping"
      BY <1>1, <1>3, <1>5, <2>1 DEF Last
    <3>2. ~gaveUp => ~Freeing'
      <4>1. Freeing' => Freeing
        BY <1>1, <1>7, <3>1 DEF Freeing
      <4> QED
        BY <3>1, <4>1 DEF SafeInv, ThreadInv, Ending
    <3> QED
      BY <1>1, <1>2, <3>1, <3>2 DEF SafeInv, ThreadInv, Reduced, Kept
  <2>2. CASE ~Last(running, c')
    <3>1. tostop' = tostop /\ (~running \/ tostop)
      BY <1>1, <1>2, <2>2 DEF Last, SafeInv, Shape, Flags
    <3>2. ~gaveUp /\ running => Ending /\ Ending'
      BY <1>1, <3>1 DEF SafeInv, ThreadInv, Ending
    <3> QED
      BY <1>1, <1>2, <3>1, <3>2 DEF SafeInv, ThreadInv, Reduced, Kept, Ending
  <2> QED
    BY <2>1, <2>2
<1>11. ServedInv'
  BY <1>2, <1>6, <1>7 DEF ServedInv, Up, InUse
<1> QED
  BY <1>7, <1>8, <1>9, <1>10, <1>11 DEF SafeInv

LEMMA DestroySafe == ASSUME SafeInv, NEW t \in Threads, Note, Destroy(t) PROVE SafeInv'
<1>0. Table(c) /\ CallTable /\ DOMAIN run = RunFields /\ Flags
  BY DEF SafeInv, Shape
<1>1. /\ calls[t].pc = "destroy" /\ Leaving(t) /\ ~IsConnect(t) /\ Freeing
      /\ c' = [c EXCEPT ![calls[t].h] = [Fresh EXCEPT !.life = "freed"]] /\ client' = 0
      /\ UNCHANGED <<run, running, terminated, undefined, gaveUp>>
      /\ Stop(t, "terminate") \/ (calls' = [calls EXCEPT ![t] = NoCall] /\ tostop' = tostop)
  BY DEF Destroy, Leaving, Freeing, SafeInv, CallsInv, IsConnect, Opening
<1> DEFINE m == [Fresh EXCEPT !.life = "freed"]
<1>2. DOMAIN m = ClientFields /\ m.life = "freed" /\ m.connected = FALSE
  BY DEF Fresh, ClientFields
<1>3. c' = [c EXCEPT ![calls[t].h] = m]
  BY <1>1
<1> HIDE DEF m
<1>4. DOMAIN c' = Handle /\ \A h \in Handle : c'[h] \in {m, c[h]}
  BY <1>0, <1>3 DEF Table
<1>5. Table(c)' /\ \A h \in Handle : ~InUse(c'[h]) /\ ~Up(c'[h])
  <2>1. \A h \in Handle : ~InUse(c[h])
    BY <1>1 DEF SafeInv, HandlesInv
  <2> QED
    BY <1>0, <1>2, <1>4, <2>1 DEF Table, InUse, Up
<1>6. /\ CallTable' /\ tostop' \in BOOLEAN /\ \A u \in Threads \ {t} : calls'[u] = calls[u]
      /\ ~IsConnect(t)' /\ calls'[t].pc \in {"idle", "stopping", "terminate"}
      /\ calls'[t].pc = "stopping" => calls'[t].next = "terminate"
      /\ tostop' = tostop \/ (Last(running, c') /\ tostop')
  <2>1. CASE Stop(t, "terminate")
    <3>1. /\ CallTable' /\ tostop' \in BOOLEAN /\ \A u \in Threads \ {t} : calls'[u] = calls[u]
          /\ calls'[t].for = calls[t].for
          /\ \/ calls'[t].pc = "stopping" /\ calls'[t].next = "terminate" /\ Last(running, c')
             \/ tostop' = tostop /\ calls'[t].pc = "terminate"
      <4>1. tostop \in BOOLEAN /\ running' \in BOOLEAN /\ running' = running
        BY <1>0, <1>1 DEF Flags
      <4>2. /\ CallTable' /\ tostop' \in BOOLEAN
            /\ \A u \in Threads \ {t} : calls'[u] = calls[u]
            /\ \/ /\ calls'[t].pc = "stopping" /\ calls'[t].next = "terminate" /\ Last(running', c')
                  /\ calls'[t].for = calls[t].for
               \/ /\ tostop' = tostop
                  /\ IF "terminate" = "idle" THEN calls'[t] = NoCall
                     ELSE calls'[t].pc = "terminate" /\ calls'[t].for = calls[t].for
        BY <1>0, <2>1, <4>1, StopFacts
      <4> QED
        BY <4>1, <4>2
    <3>2. tostop' = (tostop \/ Last(running, c'))
      BY <1>1, <2>1 DEF Stop
    <3> QED
      BY <1>1, <3>1, <3>2 DEF IsConnect
  <2>2. CASE calls' = [calls EXCEPT ![t] = NoCall] /\ tostop' = tostop
    <3>1. CallTable' /\ calls'[t] = NoCall /\ \A u \in Threads \ {t} : calls'[u] = calls[u]
      BY <1>0, <2>2, IdleCall DEF CallTable
    <3> QED
      BY <1>0, <2>2, <3>1, IdleCall DEF IsConnect, Flags
  <2> QED
    BY <1>1, <2>1, <2>2
<1>7. \A u \in Threads \ {t} : calls[u].pc = "idle"
  BY <1>1 DEF SafeInv, CallsInv, Alone
<1>8. CallsInv' /\ \A u \in Threads \ {t} : calls'[u].pc = "idle" /\ ~Opening(u)' /\ ~Leaving(u)'
  <2>1. ~Opening(t)'
    BY <1>6 DEF IsConnect, Opening
  <2> QED
    BY <1>6, <1>7, <2>1, LoneCall
<1>9. Shape'
  <2>1. client' \in 0..MaxOpen
    BY <1>1, ServiceAssumption
  <2> QED
    BY <1>0, <1>1, <1>5, <1>6, <2>1 DEF Shape, Flags, Note
<1>10. HandlesInv'
  BY <1>5, <1>6, <1>8 DEF HandlesInv
<1>11. ThreadInv'
  <2>1. ~gaveUp => ~running \/ Ending
    BY <1>1 DEF SafeInv, ThreadInv
  <2>2. tostop' => running
    BY <1>6 DEF SafeInv, ThreadInv, Last
  <2>3. ~gaveUp /\ running => Ending /\ Ending'
    <3>1. tostop => tostop'
      BY <1>6
    <3> QED
      BY <1>1, <2>1, <3>1 DEF Ending
  <2> QED
    BY <1>1, <2>1, <2>2, <2>3 DEF SafeInv, ThreadInv, Ending
<1>12. ServedInv'
  <2>1. \A u \in Threads : ~Opening(u)'
    BY <1>6, <1>8 DEF IsConnect, Opening
  <2> QED
    BY <1>5, <2>1 DEF ServedInv
<1> QED
  BY <1>8, <1>9, <1>10, <1>11, <1>12 DEF SafeInv

LEMMA TerminateSafe == ASSUME SafeInv, NEW t \in Threads, Note, Terminate(t) PROVE SafeInv'
<1>0. Table(c) /\ CallTable /\ DOMAIN run = RunFields /\ Flags
  BY DEF SafeInv, Shape
<1>1. /\ Leaving(t) /\ Freeing /\ terminated' = TRUE
      /\ calls' = [calls EXCEPT ![t] = NoCall]
      /\ UNCHANGED <<client, c, run, running, tostop, undefined, gaveUp>>
  BY DEF Terminate, Leaving, Freeing
<1>2. CallTable' /\ calls'[t] = NoCall /\ \A u \in Threads \ {t} : calls'[u] = calls[u]
  BY <1>0, <1>1, IdleCall DEF CallTable
<1>3. ~Opening(t)' /\ ~Leaving(t)' /\ calls'[t].pc = "idle"
  BY <1>2, IdleCall DEF Opening, Leaving
<1>4. \A u \in Threads \ {t} : calls[u].pc = "idle"
  BY <1>1 DEF SafeInv, CallsInv, Alone
<1>5. CallsInv' /\ \A u \in Threads \ {t} : calls'[u].pc = "idle" /\ ~Opening(u)' /\ ~Leaving(u)'
  BY <1>2, <1>3, <1>4, LoneCall
<1>6. Shape'
  BY <1>0, <1>1, <1>2 DEF SafeInv, Shape, Flags, Note, Table
<1>7. HandlesInv'
  BY <1>1, <1>3, <1>5 DEF SafeInv, HandlesInv
<1>8. ThreadInv'
  BY <1>1 DEF SafeInv, ThreadInv, Ending
<1>9. ServedInv'
  <2>1. \A h \in Handle : ~Up(c'[h])
    BY <1>1 DEF SafeInv, HandlesInv, Up, InUse
  <2> QED
    BY <2>1, <1>3, <1>5 DEF ServedInv
<1> QED
  BY <1>5, <1>6, <1>7, <1>8, <1>9 DEF SafeInv

\* MQTTClient_stop returns: the thread has ended, or the wait was in vain.
LEMMA StopWaitedSafe == ASSUME SafeInv, NEW t \in Threads, Note, StopWaited(t) PROVE SafeInv'
<1>0. Table(c) /\ CallTable /\ DOMAIN run = RunFields /\ Flags
  BY DEF SafeInv, Shape
<1>1. /\ calls[t].pc = "stopping" /\ calls[t].next \in {"idle", "destroy", "terminate"}
      /\ UNCHANGED <<client, c, run, running, tostop, terminated, undefined>>
      /\ gaveUp' = (gaveUp \/ running)
  BY DEF StopWaited, library, SafeInv, CallsInv
<1>2. /\ CallTable' /\ \A u \in Threads \ {t} : calls'[u] = calls[u]
      /\ \/ calls[t].next = "idle" /\ calls'[t] = NoCall
         \/ /\ calls[t].next \in {"destroy", "terminate"}
            /\ calls'[t].pc = calls[t].next /\ calls'[t].for = calls[t].for
  <2>1. CASE calls[t].next = "idle"
    <3>1. calls' = [calls EXCEPT ![t] = NoCall]
      BY <2>1 DEF StopWaited
    <3> QED
      BY <1>0, <2>1, <3>1, IdleCall DEF CallTable
  <2>2. CASE calls[t].next # "idle"
    <3>1. calls' = [calls EXCEPT ![t] = [calls[t] EXCEPT !.pc = calls[t].next]]
      BY <2>2 DEF StopWaited
    <3> QED
      BY <1>0, <1>1, <2>2, <3>1 DEF CallTable, CallFields
  <2> QED
    BY <2>1, <2>2
<1>3. /\ Leaving(t)' => Leaving(t) /\ ~IsConnect(t)'
      /\ calls'[t].pc \in {"idle", "destroy", "terminate"} /\ ~IsConnect(t)' /\ ~Opening(t)'
  <2>0. ~IsConnect(t)' => ~Opening(t)'
    BY DEF IsConnect, Opening
  <2>1. CASE calls[t].next = "idle" /\ calls'[t] = NoCall
    BY <2>1, IdleCall DEF Leaving, Opening, IsConnect
  <2>2. CASE /\ calls[t].next \in {"destroy", "terminate"}
             /\ calls'[t].pc = calls[t].next /\ calls'[t].for = calls[t].for
    <3>1. Leaving(t) /\ ~IsConnect(t)
      BY <1>1, <2>2 DEF Leaving, SafeInv, CallsInv
    <3>2. ~IsConnect(t)'
      BY <2>2, <3>1 DEF IsConnect
    <3> QED
      BY <2>0, <2>2, <3>1, <3>2
  <2> QED
    BY <1>2, <2>0, <2>1, <2>2
<1>4. \A u \in Threads \ {t} : (Opening(u)' <=> Opening(u)) /\ (Leaving(u)' <=> Leaving(u))
  BY <1>2 DEF Opening, Leaving
<1>5. CallsInv'
  <2>1. \A u, v \in Threads : Alone(u)' => u = v \/ calls'[v].pc = "idle"
    <3>1. ASSUME NEW u \in Threads, NEW v \in Threads, Alone(u)', u # v PROVE calls'[v].pc = "idle"
      <4>1. Alone(u)
        BY <1>3, <1>4, <3>1 DEF Alone
      <4>2. calls[v].pc = "idle"
        BY <3>1, <4>1 DEF SafeInv, CallsInv
      <4> QED
        BY <1>1, <1>2, <4>2
    <3> QED
      BY <3>1
  <2>2. \A u \in Threads : Opening(u)' => calls'[u].h = client' /\ client' \in Handle /\ ~terminated'
    BY <1>1, <1>2, <1>3, <1>4 DEF SafeInv, CallsInv
  <2>3. \A u \in Threads : calls'[u].pc = "poll" => ~running'
    BY <1>1, <1>2, <1>3 DEF SafeInv, CallsInv
  <2>4. \A u \in Threads : /\ calls'[u].pc = "idle" => ~Opening(u)'
                           /\ Leaving(u)' => ~IsConnect(u)'
    BY <1>2, <1>3, <1>4 DEF SafeInv, CallsInv, IsConnect
  <2>5. \A u \in Threads : calls'[u].pc = "stopping" => calls'[u].next \in {"idle", "destroy", "terminate"}
    BY <1>2, <1>3 DEF SafeInv, CallsInv
  <2> QED
    BY <2>1, <2>2, <2>3, <2>4, <2>5 DEF CallsInv
<1>6. Shape'
  BY <1>0, <1>1, <1>2 DEF SafeInv, Shape, Flags, Note, Table
<1>7. HandlesInv'
  BY <1>1, <1>3, <1>4 DEF SafeInv, HandlesInv
<1>8. ThreadInv'
  <2>1. ~gaveUp' => ~gaveUp /\ ~running /\ ~tostop /\ run.pc = "none"
    BY <1>1 DEF SafeInv, ThreadInv
  <2> QED
    BY <1>1, <2>1 DEF SafeInv, ThreadInv
<1>9. ServedInv'
  <2>1. ~raced' => ~raced
    BY <1>1 DEF Note
  <2> QED
    BY <1>1, <1>2, <1>3, <1>4, <2>1 DEF SafeInv, ServedInv
<1> QED
  BY <1>5, <1>6, <1>7, <1>8, <1>9 DEF SafeInv

-----------------------------------------------------------------------------
(* The background thread *)

\* A step of the thread, of the broker or of the network.
LEMMA ThreadSafe ==
  ASSUME SafeInv, Note, Shape', Reduced,
         UNCHANGED <<calls, client, gaveUp, terminated>>,
         undefined' => gaveUp,
         running' => running, running' <=> run'.pc # "none", tostop' => running',
         tostop' = tostop \/ ~tostop' \/ Last(running, c'),
         running /\ ~running' => tostop \/ Last(running, c'),
         run'.pc = "callback" => run'.h \in Handle /\ (~gaveUp => c'[run'.h].life = "live"),
         ~gaveUp /\ tostop' => run'.pc = "cycled" \/ \E t \in Threads : calls[t].pc = "stopping",
         ~gaveUp /\ Freeing => ~running' \/ Ending'
  PROVE  SafeInv'
<1>1. \A t \in Threads : (Opening(t)' <=> Opening(t)) /\ (Leaving(t)' <=> Leaving(t))
  BY DEF Opening, Leaving
<1>2. \A h \in Handle : (Up(c'[h]) => Up(c[h])) /\ (InUse(c'[h]) => InUse(c[h]))
  BY DEF Reduced, Kept, Up, InUse
<1>3. CallsInv'
  BY <1>1 DEF SafeInv, CallsInv, Alone, IsConnect
<1>4. HandlesInv'
  BY <1>1, <1>2 DEF SafeInv, HandlesInv
<1>5. ThreadInv'
  <2>1. Freeing' <=> Freeing
    BY DEF Freeing
  <2> QED
    BY <2>1 DEF ThreadInv
<1>6. ServedInv'
  <2>1. ~raced' => ~raced /\ (\A t \in Threads : Opening(t) => ~tostop' /\ (running => running'))
    BY <1>1 DEF Note, SafeInv, Shape, Flags
  <2>2. ASSUME NEW h \in Handle, Up(c'[h]), ~raced' PROVE running' /\ ~tostop'
    <3>1. Up(c[h]) /\ running /\ ~tostop
      BY <1>2, <2>1, <2>2 DEF SafeInv, ServedInv
    <3>2. ~Last(running, c')
      BY <2>2 DEF Up, InUse, Last
    <3>3. tostop' => tostop' = tostop
      BY <3>2
    <3>4. running /\ ~running' => tostop
      BY <3>2
    <3> QED
      BY <3>1, <3>3, <3>4
  <2>3. ASSUME NEW t \in Threads, Opening(t)', ~raced'
        PROVE  ~tostop' /\ (calls'[t].pc # "attempt" => running')
    BY <1>1, <2>1, <2>3 DEF SafeInv, ServedInv
  <2> QED
    BY <2>2, <2>3 DEF ServedInv
<1> QED
  BY <1>3, <1>4, <1>5, <1>6 DEF SafeInv

LEMMA LoopFields ==
  /\ DOMAIN RunLoop = RunFields /\ RunLoop.pc = "select"
  /\ DOMAIN NoRun = RunFields /\ NoRun.pc = "none"
  BY DEF RunLoop, NoRun, RunFields

\* The end of the loop's body.
LEMMA AgainSafe ==
  ASSUME SafeInv, Note, Table(c)', Reduced, NEW stops, Again(stops), running,
         UNCHANGED <<calls, client, gaveUp, terminated, undefined>>,
         stops => tostop \/ Last(running, c'),
         ~stops => ~tostop /\ (~gaveUp => ~Freeing)
  PROVE  SafeInv'
<1>1. CASE stops
  <2>1. run' = NoRun /\ running' = FALSE /\ tostop' = FALSE
    BY <1>1 DEF Again
  <2>2. Shape'
    BY <2>1, LoopFields DEF SafeInv, Shape, Flags, Note, CallTable
  <2>3. run'.pc = "none"
    BY <2>1, LoopFields
  <2>4. undefined' => gaveUp
    BY DEF SafeInv, ThreadInv
  <2> QED
    BY <1>1, <2>1, <2>2, <2>3, <2>4, ThreadSafe
<1>2. CASE ~stops
  <2>1. run' = RunLoop /\ running' = running /\ tostop' = tostop
    BY <1>2 DEF Again
  <2>2. Shape'
    BY <2>1, LoopFields DEF SafeInv, Shape, Flags, Note, CallTable
  <2>3. run'.pc = "select"
    BY <2>1, LoopFields
  <2>4. undefined' => gaveUp
    BY DEF SafeInv, ThreadInv
  <2> QED
    BY <1>2, <2>1, <2>2, <2>3, <2>4, ThreadSafe
<1> QED
  BY <1>1, <1>2

\* What the thread leaves in a handle for the caller.
LEMMA PostedFields ==
  ASSUME NEW m, NEW h, DOMAIN m = ClientFields
  PROVE  /\ DOMAIN Posted(m, h) = ClientFields
         /\ Posted(m, h).life = m.life /\ Posted(m, h).connected = m.connected
         /\ Posted(m, h).state # "none" => m.state # "none"
<1>1. CASE run.pack.type # "none"
  BY <1>1 DEF Posted, ClientFields
<1>2. CASE run.pack.type = "none" /\ m.state = "tcp"
  BY <1>2 DEF Posted, ClientFields
<1>3. CASE run.pack.type = "none" /\ m.state # "tcp"
  BY <1>3 DEF Posted
<1> QED
  BY <1>1, <1>2, <1>3

\* One handle changes, and nothing that matters comes into use.
LEMMA OneHandle ==
  ASSUME Table(c), NEW h, NEW m, h \in Handle => DOMAIN m = ClientFields,
         h \in Handle => m.life = c[h].life /\ m.connected = c[h].connected,
         h \in Handle => (m.state # "none" => c[h].state # "none"),
         c' = [c EXCEPT ![h] = m]
  PROVE  Table(c)' /\ Reduced
<1>1. DOMAIN c' = Handle /\ \A g \in Handle : c'[g] = IF g = h THEN m ELSE c[g]
  BY DEF Table
<1> QED
  BY <1>1 DEF Table, Reduced, Kept

LEMMA SelectSafe ==
  ASSUME SafeInv, Note, RunSelect, UNCHANGED <<client, calls, gaveUp>>
  PROVE  SafeInv'
<1>1. /\ run.pc = "select" /\ DOMAIN run' = RunFields /\ run'.pc = "chosen"
      /\ UNCHANGED <<c, running, tostop, terminated, undefined>>
  BY DEF RunSelect, library, RunLoop, RunFields
<1>2. Shape' /\ Reduced
  BY <1>1 DEF SafeInv, Shape, Flags, Note, CallTable, Table, Reduced, Kept
<1>3. /\ running /\ (undefined => gaveUp) /\ (~gaveUp => ~Freeing)
      /\ ~gaveUp /\ tostop => \E t \in Threads : calls[t].pc = "stopping"
  BY <1>1 DEF SafeInv, ThreadInv, Ending
<1> QED
  BY <1>1, <1>2, <1>3, ThreadSafe

LEMMA CycleSafe ==
  ASSUME SafeInv, Note, RunCycle, UNCHANGED <<client, calls, gaveUp>>
  PROVE  SafeInv'
<1>0. Table(c) /\ CallTable /\ DOMAIN run = RunFields /\ Flags
  BY DEF SafeInv, Shape
<1>1. run.pc = "chosen" /\ running /\ (~gaveUp => ~Freeing)
  BY DEF RunCycle, SafeInv, ThreadInv, Ending
<1>2. CASE terminated /\ Undefined
  <2>1. /\ gaveUp /\ UNCHANGED <<c, running, tostop, run, terminated>>
        /\ undefined' = TRUE
    BY <1>1, <1>2 DEF Undefined, Freeing
  <2>2. Shape' /\ Reduced
    BY <2>1 DEF SafeInv, Shape, Flags, Note, CallTable, Table, Reduced, Kept
  <2>3. tostop => running
    BY <1>1
  <2> QED
    BY <1>1, <2>1, <2>2, <2>3, ThreadSafe
<1>3. ASSUME UNCHANGED <<running, terminated, undefined>>,
             DOMAIN run' = RunFields, run'.pc = "cycled",
             Table(c)', Reduced, tostop' \in BOOLEAN, tostop' = tostop \/ Last(running, c')
      PROVE  SafeInv'
  <2>1. Shape'
    BY <1>3 DEF SafeInv, Shape, Flags, Note, CallTable
  <2>2. undefined' => gaveUp
    BY <1>3 DEF SafeInv, ThreadInv
  <2> QED
    BY <1>1, <1>3, <2>1, <2>2, ThreadSafe
<1>4. ASSUME UNCHANGED <<running, terminated, undefined>>, NEW gone, NEW h,
             run' = [run EXCEPT !.pc = "cycled", !.rc = CycleResult(h).rc, !.pack = CycleResult(h).pack],
             KeptAlive([c EXCEPT ![h] = CycleResult(h).m], [net EXCEPT ![h] = CycleResult(h).n], gone)
      PROVE  SafeInv'
  <2>1. DOMAIN run' = RunFields /\ run'.pc = "cycled"
    BY <1>0, <1>4 DEF RunFields
  <2> DEFINE cs == [c EXCEPT ![h] = CycleResult(h).m]
             ns == [net EXCEPT ![h] = CycleResult(h).n]
  <2>2. /\ Table(cs) /\ KeptAlive(cs, ns, gone)
        /\ \A g \in Handle : /\ cs[g].life = c[g].life /\ cs[g].connected = c[g].connected
                             /\ cs[g].state = c[g].state
    BY <1>0, <1>4, CycleTable
  <2> HIDE DEF cs, ns
  <2>3. Table(c)' /\ Reduced /\ tostop' \in BOOLEAN /\ (tostop' = tostop \/ Last(running, c'))
    BY <1>0, <2>2, KeptAliveFields DEF Flags
  <2> QED
    BY <1>3, <1>4, <2>1, <2>3
<1>5. ASSUME UNCHANGED <<running, terminated, undefined>>, NEW gone,
             run' = [run EXCEPT !.pc = "cycled"], KeptAlive(c, net, gone)
      PROVE  SafeInv'
  <2>1. DOMAIN run' = RunFields /\ run'.pc = "cycled"
    BY <1>0, <1>5 DEF RunFields
  <2>2. Table(c)' /\ Reduced /\ tostop' \in BOOLEAN /\ (tostop' = tostop \/ Last(running, c'))
    BY <1>0, <1>5, KeptAliveFields DEF Flags
  <2> QED
    BY <1>3, <1>5, <2>1, <2>2
<1> QED
  BY <1>2, <1>4, <1>5 DEF RunCycle

LEMMA TurnSafe ==
  ASSUME SafeInv, Note, RunTurn, UNCHANGED <<client, calls, gaveUp>>
  PROVE  SafeInv'
<1>0. Table(c) /\ CallTable /\ DOMAIN run = RunFields /\ Flags
  BY DEF SafeInv, Shape
<1>1. /\ run.pc = "cycled" /\ running /\ (undefined => gaveUp)
      /\ UNCHANGED <<terminated, undefined>>
      /\ ~tostop /\ ~gaveUp => ~Freeing
  BY DEF RunTurn, SafeInv, ThreadInv, Ending
<1>2. ASSUME c' = c PROVE Table(c)' /\ Reduced
  BY <1>0, <1>2 DEF Table, Reduced, Kept
<1>3. CASE tostop /\ Again(TRUE) /\ c' = c
  BY <1>1, <1>2, <1>3, AgainSafe
<1>4. CASE ~tostop /\ Again(FALSE) /\ c' = c
  BY <1>1, <1>2, <1>4, AgainSafe
<1>5. ASSUME NEW h \in Handle, ~tostop, CloseSession(h), Again(Last(running, c')) PROVE SafeInv'
  <2>1. Table(c)' /\ Reduced
    BY <1>0, <1>5, CloseOne
  <2> QED
    BY <1>1, <1>5, <2>1, AgainSafe
<1>6. ASSUME NEW h \in Handle, ~tostop, Again(FALSE),
             c' = [c EXCEPT ![h].state = "none", ![h].sems = c[h].sems \cup {"CONNACK"}]
      PROVE SafeInv'
  <2>1. Table(c)' /\ Reduced
    BY <1>0, <1>6 DEF Table, Reduced, Kept, ClientFields
  <2> QED
    BY <1>1, <1>6, <2>1, AgainSafe
<1>7. ASSUME NEW h \in Live, ~tostop, run' = [run EXCEPT !.pc = "callback", !.h = h, !.sock = 0],
             UNCHANGED <<c, running, tostop>>
      PROVE SafeInv'
  <2>1. DOMAIN run' = RunFields /\ run'.pc = "callback" /\ run'.h = h
    BY <1>0, <1>7 DEF RunFields
  <2>2. h \in Handle /\ c[h].life = "live"
    BY <1>7 DEF Live
  <2>3. Shape'
    BY <1>0, <1>1, <1>2, <1>7, <2>1 DEF SafeInv, Shape, Flags, Note, CallTable
  <2> QED
    BY <1>1, <1>2, <1>7, <2>1, <2>2, <2>3, ThreadSafe
<1>8. ASSUME NEW h \in Handle, ~tostop, Again(FALSE), c' = [c EXCEPT ![h] = Posted(c[h], h)]
      PROVE SafeInv'
  <2>1. /\ DOMAIN Posted(c[h], h) = ClientFields
        /\ Posted(c[h], h).life = c[h].life /\ Posted(c[h], h).connected = c[h].connected
        /\ Posted(c[h], h).state # "none" => c[h].state # "none"
    BY <1>0, PostedFields DEF Table
  <2> DEFINE m == Posted(c[h], h)
  <2> HIDE DEF m
  <2>2. Table(c)' /\ Reduced
    BY <1>0, <1>8, <2>1, OneHandle DEF m
  <2> QED
    BY <1>1, <1>8, <2>2, AgainSafe
<1>9. \A h \in Live : h \in Handle
  BY DEF Live
<1> QED
  BY <1>3, <1>4, <1>5, <1>6, <1>7, <1>8, <1>9 DEF RunTurn

LEMMA CallbackSafe ==
  ASSUME SafeInv, Note, CallbackReturns, UNCHANGED <<client, calls, gaveUp>>
  PROVE  SafeInv'
<1>0. Table(c) /\ CallTable /\ DOMAIN run = RunFields /\ Flags
  BY DEF SafeInv, Shape
<1>1. /\ run.pc = "callback" /\ running /\ (undefined => gaveUp)
      /\ run.h \in Handle /\ (~gaveUp => ~Freeing /\ c[run.h].life = "live")
  BY DEF CallbackReturns, SafeInv, ThreadInv, Ending
<1>2. CASE c[run.h].life = "freed" /\ Undefined
  <2>1. /\ gaveUp /\ UNCHANGED <<c, running, tostop, run, terminated>>
        /\ undefined' = TRUE
    BY <1>1, <1>2 DEF Undefined
  <2>2. Shape' /\ Reduced
    BY <2>1 DEF SafeInv, Shape, Flags, Note, CallTable, Table, Reduced, Kept
  <2> QED
    BY <1>1, <2>1, <2>2, ThreadSafe
<1>3. CASE /\ c' = [c EXCEPT ![run.h] = Posted([c[run.h] EXCEPT !.queue = FALSE], run.h)]
           /\ Again(tostop) /\ UNCHANGED <<terminated, undefined>>
  <2> DEFINE k == [c[run.h] EXCEPT !.queue = FALSE]
             m == Posted(k, run.h)
  <2>1. /\ DOMAIN k = ClientFields /\ k.life = c[run.h].life
        /\ k.connected = c[run.h].connected /\ k.state = c[run.h].state
    BY <1>0, <1>1 DEF Table, ClientFields
  <2>2. c' = [c EXCEPT ![run.h] = m]
    BY <1>3
  <2> HIDE DEF k
  <2>3. /\ DOMAIN m = ClientFields /\ m.life = k.life /\ m.connected = k.connected
        /\ m.state # "none" => k.state # "none"
    BY <2>1, PostedFields
  <2> HIDE DEF m
  <2>4. Table(c)' /\ Reduced
    BY <1>0, <2>1, <2>2, <2>3, OneHandle
  <2> QED
    BY <1>1, <1>3, <2>4, AgainSafe
<1> QED
  BY <1>2, <1>3 DEF CallbackReturns

LEMMA BrokerSafe == ASSUME SafeInv, Note, Broker PROVE SafeInv'
<1>1. UNCHANGED <<client, c, run, calls, running, tostop, terminated, undefined, gaveUp>>
  BY DEF Broker, library
<1>2. Shape' /\ Reduced
  BY <1>1 DEF SafeInv, Shape, Flags, Note, CallTable, Table, Reduced, Kept
<1>3. /\ running <=> run.pc # "none"
      /\ tostop => running
      /\ undefined => gaveUp
      /\ run.pc = "callback" => run.h \in Handle /\ (~gaveUp => c[run.h].life = "live")
      /\ ~gaveUp /\ tostop => run.pc = "cycled" \/ \E t \in Threads : calls[t].pc = "stopping"
      /\ ~gaveUp /\ Freeing => ~running \/ Ending
  BY DEF SafeInv, ThreadInv
<1>4. Ending' = Ending
  BY <1>1 DEF Ending
<1> QED
  BY <1>1, <1>2, <1>3, <1>4, ThreadSafe

-----------------------------------------------------------------------------
(* The theorems *)

LEMMA SafeStep == SafeInv /\ [Next]_vars => SafeInv'
<1>1. ASSUME SafeInv, Next PROVE SafeInv'
  <2>1. Note
    BY <1>1 DEF Next
  <2>2. CASE Run
    BY <1>1, <2>1, <2>2, SelectSafe, CycleSafe, TurnSafe, CallbackSafe DEF Run
  <2>3. CASE Broker
    BY <1>1, <2>1, <2>3, BrokerSafe
  <2>4. ASSUME NEW t \in Threads, Call(t) PROVE SafeInv'
    <3>1. CASE Open(t)
      BY <1>1, <2>1, <3>1, OpenSafe
    <3>2. CASE AttemptFails(t) \/ Attempt(t) \/ ConnectTcpDone(t) \/ (ConnackDone(t) /\ ConnectFails(t))
      BY <1>1, <2>1, <3>2, ConnectMoves, MovesSafe
    <3>3. CASE ConnackDone(t) /\ ~ConnectFails(t)
      BY <1>1, <2>1, <3>3, ConnackSafe
    <3>4. CASE Waitfor(t) \/ WaitEnds(t) \/ ReadPack(t)
      BY <1>1, <2>1, <3>4, WaitMoves, MovesSafe
    <3>5. CASE Poll(t)
      BY <1>1, <2>1, <3>5, PollMoves, MovesSafe
    <3>6. CASE (\E kind \in Acks : Ask(t, kind)) \/ AskDone(t)
      BY <1>1, <2>1, <3>6, AskMoves, MovesSafe
    <3>7. CASE Disconnect(t)
      BY <1>1, <2>1, <3>7, DisconnectSafe
    <3>8. CASE Destroy(t)
      BY <1>1, <2>1, <3>8, DestroySafe
    <3>9. CASE Terminate(t)
      BY <1>1, <2>1, <3>9, TerminateSafe
    <3>10. CASE StopWaited(t)
      BY <1>1, <2>1, <3>10, StopWaitedSafe
    <3> QED
      BY <2>4, <3>1, <3>2, <3>3, <3>4, <3>5, <3>6, <3>7, <3>8, <3>9, <3>10 DEF Call
  <2> QED
    BY <1>1, <2>2, <2>3, <2>4 DEF Next
<1>2. ASSUME SafeInv, UNCHANGED vars PROVE SafeInv'
  BY <1>2 DEF vars, library, history, SafeInv, Shape, Table, CallTable, Flags, CallsInv, Alone,
              Opening, IsConnect, Leaving, HandlesInv, ThreadInv, Ending, Freeing, ServedInv
<1> QED
  BY <1>1, <1>2

\* The thread never touches a handle or a list that MQTTClient_destroy has freed, unless
\* MQTTClient_stop gave up waiting for a callback.
THEOREM NothingFreed == Spec => []NothingFreedIsUsed
<1>1. SafeInv => NothingFreedIsUsed
  BY DEF SafeInv, ThreadInv, NothingFreedIsUsed
<1> QED
  BY SafeInit, SafeStep, <1>1, PTL DEF Spec

\* A connected session has a background thread that goes on, unless its connect went on
\* while the thread was told to end or ended.
THEOREM Served == Spec => []ThreadServes
<1>1. SafeInv => ThreadServes
  BY DEF SafeInv, ServedInv, ThreadServes, Live, Up
<1> QED
  BY SafeInit, SafeStep, <1>1, PTL DEF Spec

-----------------------------------------------------------------------------
(* Type correctness *)

Sems       == Acks \cup {"CONNECT", "CONNACK"}
Pack       == Packet \cup {None}
ClientType == [life : {"none", "live", "freed"}, connected : BOOLEAN,
               state : {"none", "tcp", "connack"}, fd : Fd, msgID : Nat,
               queue : BOOLEAN, pack : Pack, sems : SUBSET Sems, rc : {"ok", "error"}]
NetType    == [tcp : {"none", "connecting", "up", "failed"}, in : Seq(Packet),
               asked : SUBSET Packet, accepted : BOOLEAN]
RunType    == [pc : {"none", "select", "chosen", "cycled", "callback"}, sock : Fd,
               rc : {"ok", "error"}, pack : Pack, h : 0..MaxOpen]
CallType   == [pc : {"idle", "attempt", "begin", "wait", "poll", "read", "got",
                     "stopping", "destroy", "terminate"},
               h : 0..MaxOpen, version : {3, 4}, expired : BOOLEAN,
               for : Packet \cup {None, Of("CONNECT")}, got : Pack,
               rc : {"ok", "error", "timeout"}, next : {"idle", "destroy", "terminate"}]
Typed ==
    /\ client \in 0..MaxOpen
    /\ c \in [Handle -> ClientType] /\ net \in [Handle -> NetType]
    /\ run \in RunType /\ calls \in [Threads -> CallType]
    /\ mutex \in SUBSET Threads
    /\ running \in BOOLEAN /\ tostop \in BOOLEAN /\ terminated \in BOOLEAN
    /\ undefined \in BOOLEAN /\ stray \in BOOLEAN /\ late \in BOOLEAN
    /\ raced \in BOOLEAN /\ gaveUp \in BOOLEAN

LEMMA Constants ==
  /\ MaxOpen \in Nat /\ 0 \in Fd /\ 0 \in 0..MaxOpen
  /\ None \in Pack /\ None.type = "none"
  /\ Of("CONNACK") \in Packet
  /\ Of("PUBLISH") \in Packet
  /\ \A ok \in BOOLEAN : [Of("CONNACK") EXCEPT !.ok = ok] \in Packet
<1>1. MaxOpen \in Nat
  BY ServiceAssumption
<1>2. 0 \in 0..MaxOpen
  BY <1>1
<1> QED
  BY <1>1, <1>2 DEF Fd, Pack, None, Of, Packet

LEMMA Defaults ==
  /\ NoNet \in NetType /\ NoCall \in CallType /\ RunLoop \in RunType /\ NoRun \in RunType
  /\ Fresh \in ClientType
  /\ [Fresh EXCEPT !.life = "none"] \in ClientType /\ [Fresh EXCEPT !.life = "freed"] \in ClientType
<1>1. NoNet \in NetType
  BY DEF NoNet, NetType
<1>2. NoCall \in CallType
  BY Constants DEF NoCall, CallType
<1>3. RunLoop \in RunType
  BY Constants DEF RunLoop, RunType
<1>4. NoRun \in RunType
  BY <1>3 DEF NoRun, RunType
<1>5. Fresh \in ClientType
  BY Constants DEF Fresh, ClientType
<1>6. [Fresh EXCEPT !.life = "none"] \in ClientType /\ [Fresh EXCEPT !.life = "freed"] \in ClientType
  BY <1>5 DEF ClientType
<1> QED
  BY <1>1, <1>2, <1>3, <1>4, <1>5, <1>6

LEMMA TypedInit == Init => Typed
  BY Constants, Defaults DEF Init, Typed

LEMMA ClosedType == ASSUME NEW m \in ClientType PROVE Closed(m) \in ClientType
  BY Constants DEF Closed, ClientType

LEMMA CloseType ==
  ASSUME Typed, NEW h, CloseSession(h)
  PROVE  c' \in [Handle -> ClientType] /\ net' \in [Handle -> NetType]
<1>1. h \in Handle => Closed(c[h]) \in ClientType
  BY ClosedType DEF Typed
<1>2. c' = [c EXCEPT ![h] = Closed(c[h])] /\ net' = [net EXCEPT ![h] = NoNet]
  BY DEF CloseSession
<1> QED
  BY <1>1, <1>2, Defaults DEF Typed

LEMMA CloseAttemptType ==
  ASSUME Typed, NEW h, NEW left \in Pack, CloseAttempt(h, left)
  PROVE  c' \in [Handle -> ClientType] /\ net' \in [Handle -> NetType]
<1>1. \A m \in ClientType : [m EXCEPT !.pack = left] \in ClientType
  BY DEF ClientType
<1>2. h \in Handle => [Closed(c[h]) EXCEPT !.pack = left] \in ClientType
  BY <1>1, ClosedType DEF Typed
<1>3. c' = [c EXCEPT ![h] = [Closed(c[h]) EXCEPT !.pack = left]] /\ net' = [net EXCEPT ![h] = NoNet]
  BY DEF CloseAttempt
<1> QED
  BY <1>2, <1>3, Defaults DEF Typed

LEMMA CycleType ==
  ASSUME Typed, NEW h \in Handle
  PROVE  /\ CycleResult(h).rc \in {"ok", "error"} /\ CycleResult(h).pack \in Pack
         /\ CycleResult(h).m \in ClientType /\ CycleResult(h).n \in NetType
<1>1. c[h] \in ClientType /\ net[h] \in NetType /\ net[h].in \in Seq(Packet)
  BY DEF Typed, NetType
<1>2. net[h].in # <<>> => Head(net[h].in) \in Packet /\ Tail(net[h].in) \in Seq(Packet)
  BY <1>1
<1>3. [c[h] EXCEPT !.queue = TRUE] \in ClientType
  BY <1>1 DEF ClientType
<1>4. net[h].in # <<>> => [net[h] EXCEPT !.in = Tail(net[h].in)] \in NetType
  BY <1>1, <1>2 DEF NetType
<1>5. CycleResult(h).rc \in {"ok", "error"}
  BY DEF CycleResult
<1>6. CycleResult(h).pack \in Pack
  BY <1>2, Constants DEF CycleResult, Pack
<1>7. CycleResult(h).m \in ClientType
  BY <1>1, <1>3 DEF CycleResult
<1>8. CycleResult(h).n \in NetType
  BY <1>1, <1>4 DEF CycleResult
<1> QED
  BY <1>5, <1>6, <1>7, <1>8

LEMMA KeptAliveType ==
  ASSUME Typed, NEW cs \in [Handle -> ClientType], NEW ns \in [Handle -> NetType], NEW gone,
         KeptAlive(cs, ns, gone)
  PROVE  c' \in [Handle -> ClientType] /\ net' \in [Handle -> NetType] /\ tostop' \in BOOLEAN
<1>1. \A h \in Handle : Closed(cs[h]) \in ClientType
  BY ClosedType
<1>2. /\ c' = [h \in Handle |-> IF h \in gone THEN Closed(cs[h]) ELSE cs[h]]
      /\ net' = [h \in Handle |-> IF h \in gone THEN NoNet ELSE ns[h]]
      /\ tostop' = tostop \/ tostop' = (tostop \/ Last(running, c'))
  BY DEF KeptAlive, StopSelf
<1>3. tostop' \in BOOLEAN
  BY <1>2 DEF Typed
<1> QED
  BY <1>1, <1>2, <1>3, Defaults

LEMMA StopType ==
  ASSUME Typed, NEW t \in Threads, NEW next \in {"idle", "destroy", "terminate"}, Stop(t, next)
  PROVE  calls' \in [Threads -> CallType] /\ tostop' \in BOOLEAN
<1>0. calls[t] \in CallType
  BY DEF Typed
<1>1. /\ [calls[t] EXCEPT !.pc = "stopping", !.next = next] \in CallType
      /\ [calls[t] EXCEPT !.pc = next] \in CallType
  BY <1>0 DEF CallType
<1>2. /\ tostop' = (tostop \/ Last(running', c'))
      /\ \/ calls' = [calls EXCEPT ![t] = [calls[t] EXCEPT !.pc = "stopping", !.next = next]]
         \/ calls' = [calls EXCEPT ![t] = NoCall]
         \/ calls' = [calls EXCEPT ![t] = [calls[t] EXCEPT !.pc = next]]
  BY DEF Stop
<1> QED
  BY <1>1, <1>2, Defaults DEF Typed

LEMMA OpenerPack ==
  ASSUME SafeInv, Typed, NEW t \in Threads, Opening(t)
  PROVE  c[calls[t].h].pack \in Pack
<1>1. calls[t].h \in Handle
  BY DEF SafeInv, CallsInv
<1> QED
  BY <1>1 DEF Typed, ClientType

LEMMA FailThenType ==
  ASSUME Typed, NEW t \in Threads, NEW left \in Pack, FailThen(t, left)
  PROVE  /\ c' \in [Handle -> ClientType] /\ net' \in [Handle -> NetType]
         /\ calls' \in [Threads -> CallType] /\ tostop' \in BOOLEAN /\ mutex' \in SUBSET Threads
<1>1. c' \in [Handle -> ClientType] /\ net' \in [Handle -> NetType] /\ mutex' \in SUBSET Threads
  BY CloseAttemptType DEF FailThen
<1>2. CASE calls[t].version = 4
  <2>1. [NoCall EXCEPT !.pc = "attempt", !.h = calls[t].h, !.version = 3,
                       !.expired = calls[t].expired] \in CallType
    BY Defaults DEF Typed, CallType
  <2> QED
    BY <1>1, <1>2, <2>1 DEF FailThen, Typed
<1>3. CASE calls[t].version # 4
  BY <1>1, <1>3, StopType DEF FailThen
<1> QED
  BY <1>2, <1>3

\* A set of numbers that is not empty has a least element.
LEMMA LeastNumber ==
  ASSUME NEW S \in SUBSET Nat, S # {}
  PROVE  \E m \in S : \A n \in S : m <= n
<1> DEFINE R == OpToRel(<, Nat)
<1>1. IsWellFoundedOn(R, Nat)
  BY NatLessThanWellFounded
<1>2. \A x, y \in Nat : x < y => <<x, y>> \in R
  BY DEF OpToRel
<1> HIDE DEF R
<1>3. \E m \in S : \A n \in S : ~ (<<n, m>> \in R)
  BY <1>1, WFMin
<1>4. PICK m \in S : \A n \in S : ~ (<<n, m>> \in R)
  BY <1>3
<1>5. \A n \in S : ~ (n < m)
  BY <1>2, <1>4
<1>6. \A n \in S : n \in Nat /\ m \in Nat
  OBVIOUS
<1>7. \A n \in S : m <= n
  BY <1>5, <1>6
<1> QED
  BY <1>7

\* A descriptor is free when connect asks for one: each handle has at most one, and the
\* handle that connects has none yet.
LEMMA FreeFd ==
  ASSUME Typed, NEW k \in Handle, c[k].fd = 0
  PROVE  NewFd \in Fd
<1> DEFINE fds == {c[h].fd : h \in Handle \ {k}}
           Free == {f \in Fd \ {0} : \A h \in Live : c[h].fd # f}
<1>1. MaxOpen \in Nat /\ Handle = 1..MaxOpen /\ Fd \ {0} = 1..MaxOpen
  BY ServiceAssumption DEF Handle, Fd
<1>2. IsFiniteSet(Handle) /\ Cardinality(Handle) = MaxOpen /\ MaxOpen > 0
  <2>1. IsFiniteSet(1..MaxOpen) /\ Cardinality(1..MaxOpen) = IF 1 > MaxOpen THEN 0 ELSE MaxOpen - 1 + 1
    BY <1>1, FS_Interval
  <2>2. MaxOpen > 0
    BY <1>1
  <2> QED
    BY <1>1, <2>1, <2>2
<1>3. IsFiniteSet(Handle \ {k}) /\ Cardinality(Handle \ {k}) = MaxOpen - 1
  BY <1>2, FS_RemoveElement
<1>4. IsFiniteSet(fds) /\ Cardinality(fds) <= MaxOpen - 1
  <2> DEFINE fd == [h \in Handle \ {k} |-> c[h].fd]
  <2>1. fd \in Surjection(Handle \ {k}, fds)
    BY DEF Surjection
  <2> HIDE DEF fd, fds
  <2> QED
    BY <1>3, <2>1, FS_Surjection
<1>5. Free # {}
  <2>1. SUFFICES ASSUME Free = {} PROVE FALSE
    OBVIOUS
  <2>2. Handle \in SUBSET fds
    <3>1. ASSUME NEW f \in Handle PROVE f \in fds
      <4>1. f \in Fd \ {0} /\ f # 0
        BY <1>1, <3>1
      <4>2. PICK h \in Live : c[h].fd = f
        BY <2>1, <4>1
      <4>3. h \in Handle \ {k}
        BY <4>1, <4>2 DEF Live
      <4> QED
        BY <4>2, <4>3
    <3> QED
      BY <3>1
  <2> HIDE DEF fds
  <2>3. Cardinality(Handle) <= Cardinality(fds) /\ Cardinality(fds) \in Nat
    BY <1>4, <2>2, FS_Subset, FS_CardinalityType
  <2> QED
    BY <1>1, <1>2, <1>4, <2>3
<1>6. PICK f \in Free : \A g \in Free : f <= g
  <2>1. Free \in SUBSET Nat
    BY <1>1
  <2> HIDE DEF Free
  <2> QED
    BY <1>5, <2>1, LeastNumber
<1>7. NewFd \in Fd \ {0}
  BY <1>6 DEF NewFd
<1> QED
  BY <1>7

LEMMA OpenType == ASSUME Typed, NEW t \in Threads, Open(t), raced' \in BOOLEAN PROVE Typed'
<1>1. PICK h \in Handle :
        /\ c' = [g \in Handle |-> IF g = h THEN Fresh
                                  ELSE [c[g] EXCEPT !.pack = None, !.sems = {}, !.rc = "ok"]]
        /\ client' = h
        /\ calls' = [calls EXCEPT ![t] = [NoCall EXCEPT !.pc = "attempt", !.h = h]]
  BY DEF Open
<1>2. \A g \in Handle : [c[g] EXCEPT !.pack = None, !.sems = {}, !.rc = "ok"] \in ClientType
  <2>1. ASSUME NEW g \in Handle PROVE [c[g] EXCEPT !.pack = None, !.sems = {}, !.rc = "ok"] \in ClientType
    <3>1. c[g] \in ClientType
      BY DEF Typed
    <3> QED
      BY <3>1, Constants DEF ClientType
  <2> QED
    BY <2>1
<1>3. c' \in [Handle -> ClientType]
  BY <1>1, <1>2, Defaults
<1>4. h \in 0..MaxOpen
  BY Constants DEF Handle
<1>5. [NoCall EXCEPT !.pc = "attempt", !.h = h] \in CallType
  BY <1>4, Defaults DEF CallType
<1>6. client' \in 0..MaxOpen /\ calls' \in [Threads -> CallType]
  BY <1>1, <1>4, <1>5 DEF Typed
<1>7. UNCHANGED <<net, run, mutex, running, tostop, undefined, gaveUp>> /\ {terminated', stray', late'} = {FALSE}
  BY DEF Open
<1> QED
  BY <1>3, <1>6, <1>7 DEF Typed

LEMMA StartType == ASSUME Typed, StartThread PROVE run' \in RunType /\ running' \in BOOLEAN
  BY Defaults DEF StartThread, Typed

\* Before an attempt the handle has no socket, who waits has a handle to look at, and a
\* PUBLISH is never left for a caller.
Waiting(t) == calls[t].pc \in {"begin", "wait", "poll", "read", "got"}
PlaceInv ==
    /\ \A t \in Threads : /\ calls[t].pc = "attempt" => c[client].fd = 0
                          /\ Waiting(t) => calls[t].h \in Handle
    /\ run.pack.type # "PUBLISH"

LEMMA ConnectType ==
  ASSUME SafeInv, Typed, PlaceInv, NEW t \in Threads, raced' \in BOOLEAN,
         AttemptFails(t) \/ Attempt(t) \/ ConnectTcpDone(t) \/ ConnackDone(t)
  PROVE  Typed'
<1>1. CASE AttemptFails(t)
  <2>1. run' \in RunType /\ running' \in BOOLEAN
    BY <1>1, StartType DEF AttemptFails
  <2>2. UNCHANGED <<client, terminated, undefined, stray, late, gaveUp>>
    BY <1>1 DEF AttemptFails
  <2>3. CASE FailThen(t, c[calls[t].h].pack)
    <3>1. c[calls[t].h].pack \in Pack
      BY <1>1, OpenerPack DEF AttemptFails, Attempting, Opening
    <3> QED
      BY <2>1, <2>2, <2>3, <3>1, FailThenType DEF Typed
  <2>4. CASE /\ CloseSession(calls[t].h) /\ mutex' = {}
             /\ calls' = [calls EXCEPT ![t] = NoCall] /\ tostop' = tostop
    <3>1. calls' \in [Threads -> CallType] /\ mutex' \in SUBSET Threads
      BY <2>4, Defaults DEF Typed
    <3> QED
      BY <2>1, <2>2, <2>4, <3>1, CloseType DEF Typed
  <2> QED
    BY <1>1, <2>3, <2>4 DEF AttemptFails
<1>2. CASE Attempt(t)
  <2>1. run' \in RunType /\ running' \in BOOLEAN
    BY <1>2, StartType DEF Attempt
  <2>2. calls[t].h = client /\ client \in Handle /\ c[client].fd = 0
    BY <1>2 DEF Attempt, Attempting, SafeInv, CallsInv, Opening, PlaceInv
  <2>3. NewFd \in Fd
    BY <2>2, FreeFd
  <2>4. PICK now \in BOOLEAN :
          /\ c' = [c EXCEPT ![client].fd = NewFd, ![client].state = IF now THEN "connack" ELSE "tcp"]
          /\ net' = [net EXCEPT ![client] = [NoNet EXCEPT
                       !.tcp = IF now THEN "up" ELSE "connecting",
                       !.asked = IF now THEN {Of("CONNACK")} ELSE {}]]
          /\ calls' = [calls EXCEPT ![t].pc = "begin",
                                    ![t].for = Of(IF now THEN "CONNACK" ELSE "CONNECT")]
    BY <1>2, <2>2 DEF Attempt
  <2>5. c' \in [Handle -> ClientType]
    <3>1. c[client] \in ClientType
      BY <2>2 DEF Typed
    <3>2. [c[client] EXCEPT !.fd = NewFd, !.state = IF now THEN "connack" ELSE "tcp"] \in ClientType
      BY <2>3, <3>1 DEF ClientType
    <3>3. c' = [c EXCEPT ![client] = [c[client] EXCEPT !.fd = NewFd, !.state = IF now THEN "connack" ELSE "tcp"]]
      BY <2>2, <2>4 DEF Typed
    <3> QED
      BY <3>2, <3>3 DEF Typed
  <2>6. net' \in [Handle -> NetType]
    <3>1. [NoNet EXCEPT !.tcp = IF now THEN "up" ELSE "connecting",
                        !.asked = IF now THEN {Of("CONNACK")} ELSE {}] \in NetType
      BY Constants, Defaults DEF NetType
    <3> QED
      BY <2>4, <3>1 DEF Typed
  <2>7. calls' \in [Threads -> CallType]
    <3>1. calls[t] \in CallType
      BY DEF Typed
    <3>2. Of(IF now THEN "CONNACK" ELSE "CONNECT") \in Packet \cup {None, Of("CONNECT")}
      BY Constants
    <3>3. calls' = [calls EXCEPT ![t] = [calls[t] EXCEPT !.pc = "begin",
                                            !.for = Of(IF now THEN "CONNACK" ELSE "CONNECT")]]
      BY <2>4 DEF Typed
    <3>4. [calls[t] EXCEPT !.pc = "begin", !.for = Of(IF now THEN "CONNACK" ELSE "CONNECT")] \in CallType
      BY <3>1, <3>2 DEF CallType
    <3> QED
      BY <3>3, <3>4 DEF Typed
  <2>8. mutex' = {} /\ UNCHANGED <<client, tostop, terminated, undefined, stray, late, gaveUp>>
    BY <1>2 DEF Attempt
  <2> QED
    BY <2>1, <2>5, <2>6, <2>7, <2>8 DEF Typed
<1>3. CASE ConnectTcpDone(t)
  <2>1. UNCHANGED <<client, run, running, terminated, undefined, stray, late, gaveUp>>
    BY <1>3 DEF ConnectTcpDone
  <2>2. CASE FailThen(t, c[calls[t].h].pack)
    <3>1. c[calls[t].h].pack \in Pack
      BY <1>3, OpenerPack DEF ConnectTcpDone, Opening
    <3> QED
      BY <2>1, <2>2, <3>1, FailThenType DEF Typed
  <2>3. CASE /\ c' = [c EXCEPT ![calls[t].h].state = "connack"]
             /\ net' = [net EXCEPT ![calls[t].h].asked = {Of("CONNACK")}]
             /\ calls' = [calls EXCEPT ![t].pc = "begin", ![t].for = Of("CONNACK")]
             /\ UNCHANGED <<mutex, tostop>>
    <3>1. calls[t].h \in Handle /\ calls[t] \in CallType
      BY <1>3 DEF ConnectTcpDone, PlaceInv, Waiting, Typed
    <3>2. c' \in [Handle -> ClientType]
      <4>1. [c[calls[t].h] EXCEPT !.state = "connack"] \in ClientType
        BY <3>1 DEF Typed, ClientType
      <4>2. c' = [c EXCEPT ![calls[t].h] = [c[calls[t].h] EXCEPT !.state = "connack"]]
        BY <2>3
      <4> QED
        BY <4>1, <4>2 DEF Typed
    <3>3. net' \in [Handle -> NetType]
      <4>0. net[calls[t].h] \in NetType
        BY <3>1 DEF Typed
      <4>1. [net[calls[t].h] EXCEPT !.asked = {Of("CONNACK")}] \in NetType
        BY <4>0, Constants DEF NetType
      <4>2. net' = [net EXCEPT ![calls[t].h] = [net[calls[t].h] EXCEPT !.asked = {Of("CONNACK")}]]
        BY <2>3
      <4> QED
        BY <4>1, <4>2 DEF Typed
    <3>4. calls' \in [Threads -> CallType]
      <4>1. [calls[t] EXCEPT !.pc = "begin", !.for = Of("CONNACK")] \in CallType
        BY <3>1, Constants DEF CallType
      <4>2. calls' = [calls EXCEPT ![t] = [calls[t] EXCEPT !.pc = "begin", !.for = Of("CONNACK")]]
        BY <2>3 DEF Typed
      <4> QED
        BY <4>1, <4>2 DEF Typed
    <3> QED
      BY <2>1, <2>3, <3>2, <3>3, <3>4 DEF Typed
  <2> QED
    BY <1>3, <2>2, <2>3 DEF ConnectTcpDone
<1>4. CASE ConnackDone(t)
  <2>1. UNCHANGED <<client, run, running, terminated, undefined, stray, late, gaveUp>>
    BY <1>4 DEF ConnackDone
  <2>2. CASE FailThen(t, IF calls[t].got = None THEN c[calls[t].h].pack ELSE None)
    <3>1. c[calls[t].h].pack \in Pack /\ None \in Pack
      BY <1>4, OpenerPack DEF ConnackDone, Opening, Pack
    <3> QED
      BY <2>1, <2>2, <3>1, FailThenType DEF Typed
  <2> DEFINE h == calls[t].h
             m == [Closed(c[h]) EXCEPT !.connected = TRUE, !.fd = c[h].fd, !.pack = None]
  <2>3. CASE /\ c' = [c EXCEPT ![h] = m] /\ calls' = [calls EXCEPT ![t] = NoCall]
             /\ UNCHANGED <<net, mutex, tostop>>
    <3>1. h \in Handle
      BY <1>4 DEF ConnackDone, PlaceInv, Waiting
    <3>2. Closed(c[h]) \in ClientType /\ c[h] \in ClientType
      BY <3>1, ClosedType DEF Typed
    <3>3. m \in ClientType
      BY <3>2, Constants DEF ClientType
    <3> HIDE DEF m, h
    <3> QED
      BY <2>1, <2>3, <3>3, Defaults DEF Typed
  <2> QED
    BY <1>4, <2>2, <2>3 DEF ConnackDone
<1> QED
  BY <1>1, <1>2, <1>3, <1>4

LEMMA WaitType ==
  ASSUME SafeInv, Typed, PlaceInv, NEW t \in Threads, raced' \in BOOLEAN,
         Waitfor(t) \/ WaitEnds(t) \/ ReadPack(t)
  PROVE  Typed'
<1>1. calls[t] \in CallType /\ calls[t].h \in Handle
  BY DEF Waitfor, WaitEnds, ReadPack, Typed, PlaceInv, Waiting
<1>2. c[calls[t].h] \in ClientType
  BY <1>1 DEF Typed
<1>3. CASE Waitfor(t)
  <2>1. UNCHANGED <<client, c, net, run, mutex, library, stray, late, gaveUp>>
    BY <1>3 DEF Waitfor
  <2>2. /\ [calls[t] EXCEPT !.pc = IF running THEN "wait" ELSE "poll"] \in CallType
        /\ [calls[t] EXCEPT !.pc = "got", !.rc = "error", !.got = None, !.expired = TRUE] \in CallType
    BY <1>1, Constants DEF CallType
  <2>3. \/ calls' = [calls EXCEPT ![t] = [calls[t] EXCEPT !.pc = IF running THEN "wait" ELSE "poll"]]
        \/ calls' = [calls EXCEPT ![t] = [calls[t] EXCEPT !.pc = "got", !.rc = "error", !.got = None, !.expired = TRUE]]
    BY <1>3 DEF Waitfor, Typed
  <2> QED
    BY <2>1, <2>2, <2>3 DEF Typed, library
<1>4. CASE WaitEnds(t)
  <2>1. UNCHANGED <<client, net, run, mutex, library, stray, late, gaveUp>>
    BY <1>4 DEF WaitEnds
  <2> DEFINE k == [c[calls[t].h] EXCEPT !.sems = c[calls[t].h].sems \ {calls[t].for.type}]
  <2>2. k \in ClientType
    BY <1>2 DEF ClientType
  <2>3. c' = c \/ c' = [c EXCEPT ![calls[t].h] = k]
    BY <1>4 DEF WaitEnds
  <2>4. c' \in [Handle -> ClientType]
    <3> HIDE DEF k
    <3> QED
      BY <2>2, <2>3 DEF Typed
  <2>5. \E rc \in {"ok", "error", "timeout"}, x \in BOOLEAN :
           calls' = [calls EXCEPT ![t] = [calls[t] EXCEPT !.pc = "read", !.rc = rc, !.expired = x]]
    <3>1. CASE calls' = [calls EXCEPT ![t].pc = "read",
                            ![t].rc = IF calls[t].for.type = "CONNECT" THEN c[calls[t].h].rc ELSE "ok"]
      <4> DEFINE rc == IF calls[t].for.type = "CONNECT" THEN c[calls[t].h].rc ELSE "ok"
      <4>1. rc \in {"ok", "error", "timeout"} /\ calls[t].expired \in BOOLEAN
        BY <1>1, <1>2 DEF ClientType, CallType
      <4>2. calls' = [calls EXCEPT ![t] = [calls[t] EXCEPT !.pc = "read", !.rc = rc]]
        BY <3>1 DEF Typed
      <4> HIDE DEF rc
      <4>3. [calls[t] EXCEPT !.pc = "read", !.rc = rc]
              = [calls[t] EXCEPT !.pc = "read", !.rc = rc, !.expired = calls[t].expired]
        BY <1>1 DEF CallType
      <4> QED
        BY <4>1, <4>2, <4>3
    <3>2. CASE calls' = [calls EXCEPT ![t].pc = "read", ![t].rc = "timeout",
                                      ![t].expired = calls[t].for.type \notin Acks]
      <4>1. (calls[t].for.type \notin Acks) \in BOOLEAN
        OBVIOUS
      <4> DEFINE x == calls[t].for.type \notin Acks
      <4>2. calls' = [calls EXCEPT ![t] = [calls[t] EXCEPT !.pc = "read", !.rc = "timeout", !.expired = x]]
        BY <3>2 DEF Typed
      <4> HIDE DEF x
      <4> QED
        BY <4>1, <4>2 DEF x
    <3> QED
      BY <1>4, <3>1, <3>2 DEF WaitEnds
  <2>6. calls' \in [Threads -> CallType]
    <3>1. \A rc \in {"ok", "error", "timeout"}, x \in BOOLEAN :
             [calls[t] EXCEPT !.pc = "read", !.rc = rc, !.expired = x] \in CallType
      BY <1>1 DEF CallType
    <3> QED
      BY <2>5, <3>1 DEF Typed
  <2> QED
    BY <2>1, <2>4, <2>6 DEF Typed, library
<1>5. CASE ReadPack(t)
  <2>1. UNCHANGED <<client, c, net, run, mutex, library, stray, gaveUp>>
    BY <1>5 DEF ReadPack
  <2>2. late' \in BOOLEAN
    BY <1>5 DEF ReadPack, Typed
  <2>3. [calls[t] EXCEPT !.pc = "got", !.got = c[calls[t].h].pack] \in CallType
    BY <1>1, <1>2 DEF CallType, ClientType
  <2>4. calls' = [calls EXCEPT ![t] = [calls[t] EXCEPT !.pc = "got", !.got = c[calls[t].h].pack]]
    BY <1>5 DEF ReadPack, Typed
  <2> QED
    BY <2>1, <2>2, <2>3, <2>4 DEF Typed, library
<1> QED
  BY <1>3, <1>4, <1>5

\* A cycle of the thread or of a caller.
LEMMA CycleOfType ==
  ASSUME Typed, NEW g \in Live, NEW gone,
         KeptAlive([c EXCEPT ![g] = CycleResult(g).m], [net EXCEPT ![g] = CycleResult(g).n], gone)
  PROVE  c' \in [Handle -> ClientType] /\ net' \in [Handle -> NetType] /\ tostop' \in BOOLEAN
<1> DEFINE cs == [c EXCEPT ![g] = CycleResult(g).m]
           ns == [net EXCEPT ![g] = CycleResult(g).n]
<1>1. g \in Handle /\ CycleResult(g).m \in ClientType /\ CycleResult(g).n \in NetType
  BY CycleType DEF Live
<1>2. cs \in [Handle -> ClientType] /\ ns \in [Handle -> NetType] /\ KeptAlive(cs, ns, gone)
  BY <1>1 DEF Typed
<1> HIDE DEF cs, ns
<1> QED
  BY <1>2, KeptAliveType

LEMMA PollType ==
  ASSUME Typed, NEW t \in Threads, raced' \in BOOLEAN, Poll(t)
  PROVE  Typed'
<1>1. /\ UNCHANGED <<client, run, mutex, running, terminated, undefined, late, gaveUp>>
      /\ stray' \in BOOLEAN
  BY DEF Poll, Typed
<1>2. c' \in [Handle -> ClientType] /\ net' \in [Handle -> NetType] /\ tostop' \in BOOLEAN
  <2>1. ASSUME NEW gone, KeptAlive(c, net, gone)
        PROVE  c' \in [Handle -> ClientType] /\ net' \in [Handle -> NetType] /\ tostop' \in BOOLEAN
    BY <2>1, KeptAliveType DEF Typed
  <2> QED
    BY <2>1, CycleOfType DEF Poll
<1>3. calls[t] \in CallType
  BY DEF Typed
<1>4. calls' \in [Threads -> CallType]
  <2>1. \/ calls' = calls
        \/ \E rc \in {"ok", "error", SoError(calls[t].h)}, pack \in {None} \cup {CycleResult(g).pack : g \in Live} :
              calls' = [calls EXCEPT ![t].pc = "got", ![t].rc = rc, ![t].got = pack]
        \/ calls' = [[calls EXCEPT ![t].pc = "got", ![t].rc = "timeout", ![t].got = None]
                        EXCEPT ![t].expired = TRUE]
    BY DEF Poll
  <2>2. ASSUME NEW rc \in {"ok", "error", SoError(calls[t].h)},
               NEW pack \in {None} \cup {CycleResult(g).pack : g \in Live},
               calls' = [calls EXCEPT ![t].pc = "got", ![t].rc = rc, ![t].got = pack]
        PROVE  calls' \in [Threads -> CallType]
    <3>1. rc \in {"ok", "error"} /\ pack \in Pack
      BY CycleType, Constants DEF SoError, Live
    <3>2. [calls[t] EXCEPT !.pc = "got", !.rc = rc, !.got = pack] \in CallType
      BY <1>3, <3>1 DEF CallType
    <3>3. calls' = [calls EXCEPT ![t] = [calls[t] EXCEPT !.pc = "got", !.rc = rc, !.got = pack]]
      BY <2>2 DEF Typed
    <3> QED
      BY <3>2, <3>3 DEF Typed
  <2>3. CASE calls' = [[calls EXCEPT ![t].pc = "got", ![t].rc = "timeout", ![t].got = None]
                         EXCEPT ![t].expired = TRUE]
    <3>1. [calls[t] EXCEPT !.pc = "got", !.rc = "timeout", !.got = None, !.expired = TRUE] \in CallType
      BY <1>3, Constants DEF CallType
    <3>2. calls' = [calls EXCEPT ![t] = [calls[t] EXCEPT !.pc = "got", !.rc = "timeout",
                                                         !.got = None, !.expired = TRUE]]
      BY <2>3 DEF Typed
    <3> QED
      BY <3>1, <3>2 DEF Typed
  <2> QED
    BY <2>1, <2>2, <2>3 DEF Typed
<1> QED
  BY <1>1, <1>2, <1>4 DEF Typed

LEMMA AskType ==
  ASSUME Typed, PlaceInv, NEW t \in Threads, raced' \in BOOLEAN,
         (\E kind \in Acks : Ask(t, kind)) \/ AskDone(t)
  PROVE  Typed'
<1>1. ASSUME NEW kind \in Acks, Ask(t, kind) PROVE Typed'
  <2>1. /\ client \in Handle /\ stray' \in BOOLEAN
        /\ UNCHANGED <<client, run, running, mutex, terminated, undefined, late, gaveUp>>
    BY <1>1 DEF Ask, Live, Typed
  <2>2. c[client] \in ClientType /\ net[client] \in NetType
    BY <2>1 DEF Typed
  <2>3. CASE CloseSession(client) /\ Stop(t, "idle")
    BY <2>1, <2>3, CloseType, StopType DEF Typed
  <2> DEFINE ask == [type |-> kind, id |-> c[client].msgID + 1, ok |-> TRUE]
             call == [NoCall EXCEPT !.pc = "begin", !.h = client, !.for = ask]
  <2>4. ask \in Packet /\ ask.id \in Nat
    BY <2>2 DEF Packet, ClientType
  <2>5. call \in CallType
    <3> HIDE DEF ask
    <3> QED
      BY <2>1, <2>4, Defaults DEF CallType, Typed
  <2>6. [c[client] EXCEPT !.msgID = ask.id] \in ClientType
    BY <2>2, <2>4 DEF ClientType
  <2>7. [net[client] EXCEPT !.asked = net[client].asked \cup {ask}] \in NetType
    <3> HIDE DEF ask
    <3> QED
      BY <2>2, <2>4 DEF NetType
  <2>8. ASSUME c' = [c EXCEPT ![client] = [c[client] EXCEPT !.msgID = ask.id]],
               net' = [net EXCEPT ![client] = [net[client] EXCEPT !.asked = net[client].asked \cup {ask}]],
               calls' = calls \/ calls' = [calls EXCEPT ![t] = call], tostop' = tostop
        PROVE  Typed'
    <3> HIDE DEF ask, call
    <3>1. c' \in [Handle -> ClientType] /\ net' \in [Handle -> NetType] /\ calls' \in [Threads -> CallType]
      BY <2>5, <2>6, <2>7, <2>8 DEF Typed
    <3> QED
      BY <2>1, <2>8, <3>1 DEF Typed
  <2> QED
    BY <1>1, <2>3, <2>8 DEF Ask
<1>2. CASE AskDone(t)
  <2>1. /\ calls[t].h \in Handle
        /\ UNCHANGED <<client, run, mutex, running, terminated, undefined, stray, late, gaveUp>>
    BY <1>2 DEF AskDone, PlaceInv, Waiting
  <2>2. CASE CloseSession(calls[t].h) /\ Stop(t, "idle")
    BY <2>1, <2>2, CloseType, StopType DEF Typed
  <2>3. CASE /\ c' = [c EXCEPT ![calls[t].h].pack = None] /\ calls' = [calls EXCEPT ![t] = NoCall]
             /\ UNCHANGED <<net, tostop>>
    <3>1. c[calls[t].h] \in ClientType
      BY <2>1 DEF Typed
    <3>2. [c[calls[t].h] EXCEPT !.pack = None] \in ClientType
      BY <3>1, Constants DEF ClientType
    <3>3. c' = [c EXCEPT ![calls[t].h] = [c[calls[t].h] EXCEPT !.pack = None]]
      BY <2>3
    <3>4. c' \in [Handle -> ClientType] /\ calls' \in [Threads -> CallType]
      BY <2>3, <3>2, <3>3, Defaults DEF Typed
    <3> QED
      BY <2>1, <2>3, <3>4 DEF Typed
  <2> QED
    BY <1>2, <2>2, <2>3 DEF AskDone
<1> QED
  BY <1>1, <1>2

LEMMA EndType ==
  ASSUME Typed, NEW t \in Threads, raced' \in BOOLEAN,
         Disconnect(t) \/ Destroy(t) \/ Terminate(t) \/ StopWaited(t)
  PROVE  Typed'
<1>1. CASE Disconnect(t)
  <2>1. /\ CloseSession(client) /\ tostop' \in BOOLEAN
        /\ UNCHANGED <<client, run, running, mutex, terminated, undefined, stray, late, gaveUp>>
    BY <1>1 DEF Disconnect
  <2>2. \E pc \in {"stopping", "destroy"} :
           calls' = [calls EXCEPT ![t] = [NoCall EXCEPT !.pc = pc, !.h = client, !.next = "destroy"]]
    <3>1. CASE Last(running, c')
      BY <1>1, <3>1 DEF Disconnect
    <3>2. CASE ~Last(running, c')
      BY <1>1, <3>2 DEF Disconnect
    <3> QED
      BY <3>1, <3>2
  <2>3. \A pc \in {"stopping", "destroy"} : [NoCall EXCEPT !.pc = pc, !.h = client, !.next = "destroy"] \in CallType
    BY Defaults DEF Typed, CallType
  <2>4. calls' \in [Threads -> CallType]
    BY <2>2, <2>3 DEF Typed
  <2> QED
    BY <2>1, <2>4, CloseType DEF Typed
<1>2. CASE Destroy(t)
  <2>1. /\ c' = [c EXCEPT ![calls[t].h] = [Fresh EXCEPT !.life = "freed"]] /\ client' = 0
        /\ UNCHANGED <<net, run, running, mutex, terminated, undefined, stray, late, gaveUp>>
    BY <1>2 DEF Destroy
  <2>2. c' \in [Handle -> ClientType] /\ client' \in 0..MaxOpen
    BY <2>1, Constants, Defaults DEF Typed
  <2>3. calls' \in [Threads -> CallType] /\ tostop' \in BOOLEAN
    <3>1. CASE Stop(t, "terminate")
      BY <3>1, StopType
    <3>2. CASE calls' = [calls EXCEPT ![t] = NoCall] /\ UNCHANGED tostop
      BY <3>2, Defaults DEF Typed
    <3> QED
      BY <1>2, <3>1, <3>2 DEF Destroy
  <2> QED
    BY <2>1, <2>2, <2>3 DEF Typed
<1>3. CASE Terminate(t)
  <2>1. calls' \in [Threads -> CallType]
    BY <1>3, Defaults DEF Terminate, Typed
  <2> QED
    BY <1>3, <2>1 DEF Terminate, Typed
<1>4. CASE StopWaited(t)
  <2>1. /\ UNCHANGED <<client, c, net, run, mutex, library, stray, late>>
        /\ gaveUp' = (gaveUp \/ running)
        /\ \/ calls' = [calls EXCEPT ![t] = NoCall]
           \/ calls' = [calls EXCEPT ![t] = [calls[t] EXCEPT !.pc = calls[t].next]]
    BY <1>4 DEF StopWaited
  <2>2. [calls[t] EXCEPT !.pc = calls[t].next] \in CallType
    <3>1. calls[t] \in CallType
      BY DEF Typed
    <3> QED
      BY <3>1 DEF CallType
  <2>3. calls' \in [Threads -> CallType] /\ gaveUp' \in BOOLEAN
    BY <2>1, <2>2, Defaults DEF Typed
  <2> QED
    BY <2>1, <2>3 DEF Typed, library
<1> QED
  BY <1>1, <1>2, <1>3, <1>4

LEMMA PostedType ==
  ASSUME Typed, PlaceInv, NEW m \in ClientType, NEW h
  PROVE  Posted(m, h) \in ClientType
<1>1. CASE run.pack.type # "none"
  <2>1. run.pack \in Pack /\ run.pack.type # "PUBLISH"
    BY DEF Typed, RunType, PlaceInv
  <2>2. run.pack.type \in Sems
    BY <1>1, <2>1, Constants DEF Pack, Packet, Sems
  <2>3. [m EXCEPT !.pack = run.pack, !.sems = m.sems \cup {run.pack.type}] \in ClientType
    BY <2>1, <2>2 DEF ClientType
  <2> QED
    BY <1>1, <2>3 DEF Posted
<1>2. CASE run.pack.type = "none" /\ m.state = "tcp"
  <2>1. [m EXCEPT !.state = "none", !.rc = SoError(h), !.sems = m.sems \cup {"CONNECT"}] \in ClientType
    BY DEF ClientType, SoError, Sems
  <2> QED
    BY <1>2, <2>1 DEF Posted
<1>3. CASE run.pack.type = "none" /\ m.state # "tcp"
  BY <1>3 DEF Posted
<1> QED
  BY <1>1, <1>2, <1>3

LEMMA AgainType ==
  ASSUME Typed, NEW stops, Again(stops)
  PROVE  run' \in RunType /\ running' \in BOOLEAN /\ tostop' \in BOOLEAN
<1>1. CASE stops
  BY <1>1, Defaults DEF Again
<1>2. CASE ~stops
  BY <1>2, Defaults DEF Again, Typed
<1> QED
  BY <1>1, <1>2

LEMMA RunSelectType ==
  ASSUME Typed, raced' \in BOOLEAN, RunSelect, UNCHANGED <<client, calls, mutex, stray, late, gaveUp>>
  PROVE  Typed'
<1>1. UNCHANGED <<c, net, running, tostop, terminated, undefined>>
  BY DEF RunSelect, library
<1>2. \A f \in Fd : [RunLoop EXCEPT !.pc = "chosen", !.sock = f] \in RunType
  BY Defaults DEF RunType
<1>3. [RunLoop EXCEPT !.pc = "chosen"] \in RunType
  BY Defaults DEF RunType
<1>4. \A h \in Live : c[h].fd \in Fd
  BY DEF Live, Typed, ClientType
<1>5. run' \in RunType
  BY <1>2, <1>3, <1>4 DEF RunSelect
<1> QED
  BY <1>1, <1>5 DEF Typed

LEMMA RunCycleType ==
  ASSUME Typed, raced' \in BOOLEAN, RunCycle, UNCHANGED <<client, calls, mutex, stray, late, gaveUp>>
  PROVE  Typed'
<1>0. run \in RunType
  BY DEF Typed
<1>1. CASE Undefined
  BY <1>1 DEF Undefined, Typed
<1>2. ASSUME NEW gone, NEW h \in Live, UNCHANGED <<running, terminated, undefined>>,
             run' = [run EXCEPT !.pc = "cycled", !.rc = CycleResult(h).rc, !.pack = CycleResult(h).pack],
             KeptAlive([c EXCEPT ![h] = CycleResult(h).m], [net EXCEPT ![h] = CycleResult(h).n], gone)
      PROVE  Typed'
  <2>1. CycleResult(h).rc \in {"ok", "error"} /\ CycleResult(h).pack \in Pack
    BY CycleType DEF Live
  <2>2. run' \in RunType
    BY <1>0, <1>2, <2>1 DEF RunType
  <2>3. c' \in [Handle -> ClientType] /\ net' \in [Handle -> NetType] /\ tostop' \in BOOLEAN
    BY <1>2, CycleOfType
  <2> QED
    BY <1>2, <2>2, <2>3 DEF Typed
<1>3. ASSUME NEW gone, UNCHANGED <<running, terminated, undefined>>,
             run' = [run EXCEPT !.pc = "cycled"], KeptAlive(c, net, gone)
      PROVE  Typed'
  <2>1. run' \in RunType
    BY <1>0, <1>3 DEF RunType
  <2>2. c' \in [Handle -> ClientType] /\ net' \in [Handle -> NetType] /\ tostop' \in BOOLEAN
    BY <1>3, KeptAliveType DEF Typed
  <2> QED
    BY <1>3, <2>1, <2>2 DEF Typed
<1> QED
  BY <1>1, <1>2, <1>3 DEF RunCycle

LEMMA RunTurnType ==
  ASSUME Typed, PlaceInv, raced' \in BOOLEAN, RunTurn,
         UNCHANGED <<client, calls, mutex, stray, late, gaveUp>>
  PROVE  Typed'
<1>1. UNCHANGED <<terminated, undefined>>
  BY DEF RunTurn
<1>2. ASSUME NEW stops, Again(stops), c' = c, net' = net PROVE Typed'
  BY <1>1, <1>2, AgainType DEF Typed
<1>3. ASSUME NEW h, CloseSession(h), NEW stops, Again(stops) PROVE Typed'
  BY <1>1, <1>3, CloseType, AgainType DEF Typed
<1>4. ASSUME NEW h \in Handle, NEW stops, Again(stops), net' = net,
             c' = [c EXCEPT ![h].state = "none", ![h].sems = c[h].sems \cup {"CONNACK"}]
      PROVE  Typed'
  <2>1. c[h] \in ClientType
    BY DEF Typed
  <2>2. [c[h] EXCEPT !.state = "none", !.sems = c[h].sems \cup {"CONNACK"}] \in ClientType
    BY <2>1 DEF ClientType, Sems
  <2>3. c' = [c EXCEPT ![h] = [c[h] EXCEPT !.state = "none", !.sems = c[h].sems \cup {"CONNACK"}]]
    BY <1>4 DEF Typed
  <2>4. c' \in [Handle -> ClientType]
    BY <2>2, <2>3 DEF Typed
  <2> QED
    BY <1>1, <1>4, <2>4, AgainType DEF Typed
<1>5. ASSUME NEW h \in Handle, run' = [run EXCEPT !.pc = "callback", !.h = h, !.sock = 0],
             UNCHANGED <<c, net, running, tostop>>
      PROVE  Typed'
  <2>1. h \in 0..MaxOpen /\ run \in RunType
    BY Constants DEF Handle, Typed
  <2>2. run' \in RunType
    BY <1>5, <2>1, Constants DEF RunType
  <2> QED
    BY <1>1, <1>5, <2>2 DEF Typed
<1>6. ASSUME NEW h \in Handle, NEW stops, Again(stops), net' = net,
             c' = [c EXCEPT ![h] = Posted(c[h], h)]
      PROVE  Typed'
  <2>1. Posted(c[h], h) \in ClientType
    BY PostedType DEF Typed
  <2>2. c' \in [Handle -> ClientType]
    BY <1>6, <2>1 DEF Typed
  <2> QED
    BY <1>1, <1>6, <2>2, AgainType DEF Typed
<1>7. \A h \in Live : h \in Handle
  BY DEF Live
<1> QED
  BY <1>2, <1>3, <1>4, <1>5, <1>6, <1>7 DEF RunTurn

LEMMA CallbackType ==
  ASSUME SafeInv, Typed, PlaceInv, raced' \in BOOLEAN, CallbackReturns,
         UNCHANGED <<client, calls, mutex, stray, late, gaveUp>>
  PROVE  Typed'
<1>1. CASE Undefined
  BY <1>1 DEF Undefined, Typed
<1>2. CASE /\ c' = [c EXCEPT ![run.h] = Posted([c[run.h] EXCEPT !.queue = FALSE], run.h)]
           /\ Again(tostop) /\ UNCHANGED <<net, terminated, undefined>>
  <2>1. c[run.h] \in ClientType
    BY DEF CallbackReturns, SafeInv, ThreadInv, Typed
  <2>2. [c[run.h] EXCEPT !.queue = FALSE] \in ClientType
    BY <2>1 DEF ClientType
  <2>3. Posted([c[run.h] EXCEPT !.queue = FALSE], run.h) \in ClientType
    BY <2>2, PostedType
  <2>4. c' \in [Handle -> ClientType]
    BY <1>2, <2>3 DEF Typed
  <2> QED
    BY <1>2, <2>4, AgainType DEF Typed
<1> QED
  BY <1>1, <1>2 DEF CallbackReturns

LEMMA BrokerType == ASSUME Typed, raced' \in BOOLEAN, Broker PROVE Typed'
<1>1. UNCHANGED <<client, c, run, calls, mutex, library, stray, late, gaveUp>>
  BY DEF Broker
<1>2. PICK h \in Live :
        \/ \E end \in {"up", "failed"} : net' = [net EXCEPT ![h].tcp = end]
        \/ \E ok \in BOOLEAN :
             net' = [net EXCEPT ![h] = [[net[h] EXCEPT !.in = Append(net[h].in, [Of("CONNACK") EXCEPT !.ok = ok])]
                                          EXCEPT !.asked = {}, !.accepted = ok]]
        \/ \E a \in net[h].asked :
             net' = [net EXCEPT ![h] = [[net[h] EXCEPT !.in = Append(net[h].in, a)]
                                          EXCEPT !.asked = @ \ {a}]]
        \/ net' = [net EXCEPT ![h] = [net[h] EXCEPT !.in = Append(net[h].in, Of("PUBLISH"))]]
        \/ \E kept \in {<<>>, net[h].in} :
             net' = [net EXCEPT ![h] = [net[h] EXCEPT !.tcp = "failed", !.in = kept, !.asked = {}]]
  BY Zenon DEF Broker
<1>3. net[h] \in NetType
  BY DEF Live, Typed
<1>4. \A p \in Packet : Append(net[h].in, p) \in Seq(Packet)
  BY <1>3 DEF NetType
<1>5. net' \in [Handle -> NetType]
  <2>1. ASSUME NEW end \in {"up", "failed"}, net' = [net EXCEPT ![h].tcp = end]
        PROVE  net' \in [Handle -> NetType]
    <3>1. [net[h] EXCEPT !.tcp = end] \in NetType
      BY <1>3 DEF NetType
    <3> QED
      BY <2>1, <3>1 DEF Typed
  <2>2. ASSUME NEW q \in Seq(Packet), NEW asked \in SUBSET Packet, NEW ok \in BOOLEAN,
               net' = [net EXCEPT ![h] = [[net[h] EXCEPT !.in = q] EXCEPT !.asked = asked, !.accepted = ok]]
        PROVE  net' \in [Handle -> NetType]
    <3>1. [[net[h] EXCEPT !.in = q] EXCEPT !.asked = asked, !.accepted = ok] \in NetType
      BY <1>3 DEF NetType
    <3> QED
      BY <2>2, <3>1 DEF Typed
  <2>3. ASSUME NEW q \in Seq(Packet), NEW a,
               net' = [net EXCEPT ![h] = [[net[h] EXCEPT !.in = q] EXCEPT !.asked = @ \ {a}]]
        PROVE  net' \in [Handle -> NetType]
    <3>1. [[net[h] EXCEPT !.in = q] EXCEPT !.asked = @ \ {a}] \in NetType
      BY <1>3 DEF NetType
    <3> QED
      BY <2>3, <3>1 DEF Typed
  <2>4. ASSUME NEW q \in Seq(Packet), net' = [net EXCEPT ![h] = [net[h] EXCEPT !.in = q]]
        PROVE  net' \in [Handle -> NetType]
    <3>1. [net[h] EXCEPT !.in = q] \in NetType
      BY <1>3 DEF NetType
    <3> QED
      BY <2>4, <3>1 DEF Typed
  <2>5. ASSUME NEW q \in Seq(Packet), net' = [net EXCEPT ![h] = [net[h] EXCEPT !.tcp = "failed", !.in = q, !.asked = {}]]
        PROVE  net' \in [Handle -> NetType]
    <3>1. [net[h] EXCEPT !.tcp = "failed", !.in = q, !.asked = {}] \in NetType
      BY <1>3 DEF NetType
    <3> QED
      BY <2>5, <3>1 DEF Typed
  <2>6. net[h].in \in Seq(Packet) /\ <<>> \in Seq(Packet) /\ net[h].asked \in SUBSET Packet
    BY <1>3 DEF NetType
  <2>7. \A a \in net[h].asked : a \in Packet
    BY <2>6
  <2>8. CASE \E end \in {"up", "failed"} : net' = [net EXCEPT ![h].tcp = end]
    BY <2>1, <2>8
  <2>9. ASSUME NEW ok \in BOOLEAN,
               net' = [net EXCEPT ![h] = [[net[h] EXCEPT !.in = Append(net[h].in, [Of("CONNACK") EXCEPT !.ok = ok])]
                                            EXCEPT !.asked = {}, !.accepted = ok]]
        PROVE  net' \in [Handle -> NetType]
    BY <1>4, <2>2, <2>9, Constants
  <2>10. ASSUME NEW a \in net[h].asked,
                net' = [net EXCEPT ![h] = [[net[h] EXCEPT !.in = Append(net[h].in, a)]
                                             EXCEPT !.asked = @ \ {a}]]
         PROVE  net' \in [Handle -> NetType]
    BY <1>4, <2>3, <2>7, <2>10
  <2>11. CASE net' = [net EXCEPT ![h] = [net[h] EXCEPT !.in = Append(net[h].in, Of("PUBLISH"))]]
    BY <1>4, <2>4, <2>11, Constants
  <2>12. CASE \E kept \in {<<>>, net[h].in} :
                net' = [net EXCEPT ![h] = [net[h] EXCEPT !.tcp = "failed", !.in = kept, !.asked = {}]]
    BY <2>5, <2>6, <2>12
  <2> QED
    BY <1>2, <2>8, <2>9, <2>10, <2>11, <2>12
<1> QED
  BY <1>1, <1>5 DEF Typed, library

\* A step of a thread while no other is at an attempt.
LEMMA PlaceStep ==
  ASSUME PlaceInv, NEW t \in Threads,
         \A u \in Threads \ {t} : calls'[u] = calls[u] /\ calls[u].pc # "attempt",
         calls'[t].pc = "attempt" => c'[client'].fd = 0,
         Waiting(t)' => calls'[t].h \in Handle,
         run' = run \/ run' = RunLoop
  PROVE  PlaceInv'
<1>1. RunLoop.pack.type = "none"
  BY DEF RunLoop, None
<1> QED
  BY <1>1 DEF PlaceInv, Waiting

\* FailThen leaves the handle without a socket.
LEMMA FailThenPlace ==
  ASSUME SafeInv, Typed, PlaceInv, NEW t \in Threads, NEW left, FailThen(t, left), Opening(t),
         client' = client,
         running' \in BOOLEAN, run' = run \/ run' = RunLoop
  PROVE  PlaceInv'
<1>1. client \in Handle /\ calls[t].h = client
  BY DEF SafeInv, CallsInv
<1>2. c[client] \in ClientType
  BY <1>1 DEF Typed
<1>3. [Closed(c[client]) EXCEPT !.pack = left].fd = 0
  BY <1>2 DEF Closed, ClientType
<1>4. c'[client'].fd = 0
  BY <1>1, <1>3 DEF FailThen, CloseAttempt, Typed
<1>5. /\ \A u \in Threads \ {t} : calls'[u] = calls[u]
      /\ calls'[t].pc \in {"attempt", "idle", "stopping"}
  BY FailThenFacts, IdleCall
<1>6. \A u \in Threads \ {t} : calls[u].pc # "attempt"
  BY DEF SafeInv, CallsInv, Alone
<1> QED
  BY <1>4, <1>5, <1>6, PlaceStep DEF Waiting

\* Nobody opens a connection while a thread is in another call.
LEMMA NoOtherAttempt ==
  ASSUME SafeInv, NEW t \in Threads, calls[t].pc # "idle" \/ \E h \in Handle : Up(c[h])
  PROVE  \A u \in Threads \ {t} : calls[u].pc # "attempt"
<1>1. ASSUME NEW u \in Threads \ {t}, calls[u].pc = "attempt" PROVE FALSE
  <2>1. Opening(u) /\ Alone(u)
    BY <1>1 DEF Opening, Alone
  <2> QED
    BY <1>1, <2>1 DEF SafeInv, CallsInv, HandlesInv
<1> QED
  BY <1>1

LEMMA OpenPlace ==
  ASSUME SafeInv, Typed, PlaceInv, NEW t \in Threads, Open(t)
  PROVE  PlaceInv'
<1>1. PICK h \in Handle :
        /\ c' = [g \in Handle |-> IF g = h THEN Fresh
                                  ELSE [c[g] EXCEPT !.pack = None, !.sems = {}, !.rc = "ok"]]
        /\ client' = h
        /\ calls' = [calls EXCEPT ![t] = [NoCall EXCEPT !.pc = "attempt", !.h = h]]
  BY DEF Open
<1>2. (\A u \in Threads : calls[u].pc = "idle") /\ run' = run
  BY DEF Open, Quiet
<1>3. c'[client'].fd = 0
  BY <1>1 DEF Fresh
<1>4. calls'[t].pc = "attempt" /\ \A u \in Threads \ {t} : calls'[u] = calls[u]
  BY <1>1 DEF Typed, NoCall
<1> QED
  BY <1>2, <1>3, <1>4, PlaceStep DEF Waiting

LEMMA ConnectPlace ==
  ASSUME SafeInv, Typed, PlaceInv, NEW t \in Threads,
         AttemptFails(t) \/ Attempt(t) \/ ConnectTcpDone(t) \/ ConnackDone(t)
  PROVE  PlaceInv'
<1>1. /\ Opening(t) /\ calls[t].pc # "idle" /\ client' = client
      /\ StartThread \/ UNCHANGED <<run, running>>
  BY DEF AttemptFails, Attempt, ConnectTcpDone, ConnackDone, Opening, Attempting
<1>2. calls[t].h = client /\ client \in Handle
  BY <1>1 DEF SafeInv, CallsInv
<1>3. running' \in BOOLEAN /\ (run' = run \/ run' = RunLoop)
  BY <1>1, StartType DEF Typed, StartThread
<1>4. \A u \in Threads \ {t} : calls[u].pc # "attempt"
  BY <1>1, NoOtherAttempt
<1>5. CASE ConnectFails(t)
  BY <1>1, <1>3, <1>5, FailThenPlace DEF ConnectFails
<1>6. CASE calls' = [calls EXCEPT ![t] = NoCall]
  <2>1. calls'[t].pc = "idle" /\ \A u \in Threads \ {t} : calls'[u] = calls[u]
    BY <1>6, IdleCall DEF Typed
  <2> QED
    BY <1>3, <1>4, <2>1, PlaceStep DEF Waiting
<1>7. ASSUME NEW for, calls' = [calls EXCEPT ![t].pc = "begin", ![t].for = for] PROVE PlaceInv'
  <2>1. calls[t] \in CallType
    BY DEF Typed
  <2>2. /\ calls'[t].pc = "begin" /\ calls'[t].h = calls[t].h
        /\ \A u \in Threads \ {t} : calls'[u] = calls[u]
    BY <1>7, <2>1 DEF Typed, CallType
  <2> QED
    BY <1>2, <1>3, <1>4, <2>2, PlaceStep
<1> QED
  BY <1>5, <1>6, <1>7 DEF AttemptFails, Attempt, ConnectTcpDone, ConnackDone, ConnectFails

\* The other steps of the application.
LEMMA CallPlace ==
  ASSUME SafeInv, Typed, PlaceInv, NEW t \in Threads, Note,
         \/ Waitfor(t) \/ WaitEnds(t) \/ ReadPack(t) \/ Poll(t)
         \/ (\E kind \in Acks : Ask(t, kind)) \/ AskDone(t)
         \/ Disconnect(t) \/ Destroy(t) \/ Terminate(t) \/ StopWaited(t)
  PROVE  PlaceInv'
<1>1. calls[t] \in CallType /\ run' = run
  BY DEF Typed, Waitfor, WaitEnds, ReadPack, Poll, Ask, AskDone, Disconnect, Destroy, Terminate,
         StopWaited
<1>2. ASSUME \A u \in Threads \ {t} : calls[u].pc # "attempt" /\ calls'[u] = calls[u],
             calls'[t].pc # "attempt", Waiting(t)' => calls'[t].h \in Handle
      PROVE  PlaceInv'
  BY <1>1, <1>2, PlaceStep
<1>3. CASE Waitfor(t) \/ WaitEnds(t) \/ ReadPack(t)
  <2>0. CallTable
    BY DEF SafeInv, Shape
  <2>1. Waiting(t) /\ calls[t].pc # "idle"
    BY <1>3 DEF Waitfor, WaitEnds, ReadPack, Waiting
  <2>2. /\ \A u \in Threads \ {t} : calls'[u] = calls[u]
        /\ calls'[t].h = calls[t].h /\ calls'[t].pc # "attempt"
    <3>1. CASE Waitfor(t)
      BY <2>0, <3>1 DEF Waitfor, CallTable, CallFields
    <3>2. CASE WaitEnds(t)
      BY <2>0, <3>2 DEF WaitEnds, CallTable, CallFields
    <3>3. CASE ReadPack(t)
      BY <2>0, <3>3 DEF ReadPack, CallTable, CallFields
    <3> QED
      BY <1>3, <3>1, <3>2, <3>3
  <2> QED
    BY <1>2, <2>1, <2>2, NoOtherAttempt DEF PlaceInv
<1>4. CASE Poll(t)
  <2>1. Waiting(t) /\ calls[t].pc = "poll"
    BY <1>4 DEF Poll, Waiting
  <2>2. \/ calls' = calls
        \/ \E rc \in {"ok", "error", SoError(calls[t].h)}, pack \in {None} \cup {CycleResult(g).pack : g \in Live} :
              calls' = [calls EXCEPT ![t].pc = "got", ![t].rc = rc, ![t].got = pack]
        \/ calls' = [[calls EXCEPT ![t].pc = "got", ![t].rc = "timeout", ![t].got = None]
                        EXCEPT ![t].expired = TRUE]
    BY <1>4 DEF Poll
  <2>3. /\ \A u \in Threads \ {t} : calls'[u] = calls[u]
        /\ calls'[t].h = calls[t].h /\ calls'[t].pc # "attempt"
    <3>1. CASE calls' = calls
      BY <2>1, <3>1
    <3>2. ASSUME NEW rc, NEW pack, calls' = [calls EXCEPT ![t].pc = "got", ![t].rc = rc, ![t].got = pack]
          PROVE  /\ \A u \in Threads \ {t} : calls'[u] = calls[u]
                 /\ calls'[t].h = calls[t].h /\ calls'[t].pc # "attempt"
      BY <1>1, <3>2 DEF Typed, CallType
    <3>3. CASE calls' = [[calls EXCEPT ![t].pc = "got", ![t].rc = "timeout", ![t].got = None]
                           EXCEPT ![t].expired = TRUE]
      BY <1>1, <3>3 DEF Typed, CallType
    <3> QED
      BY <2>2, <3>1, <3>2, <3>3
  <2> QED
    BY <1>2, <2>1, <2>3, NoOtherAttempt DEF PlaceInv
<1>5. ASSUME NEW h, CloseSession(h), Stop(t, "idle"), UNCHANGED running,
             calls[t].pc # "attempt", calls[t].pc # "idle" \/ \E k \in Handle : Up(c[k])
      PROVE  PlaceInv'
  <2>1. /\ \A u \in Threads \ {t} : calls'[u] = calls[u]
        /\ calls'[t].pc \in {"stopping", "idle"}
    BY <1>5, StopFacts, IdleCall DEF SafeInv, Shape, Flags
  <2> QED
    BY <1>2, <1>5, <2>1, NoOtherAttempt DEF Waiting
<1>6. ASSUME NEW kind \in Acks, Ask(t, kind) PROVE PlaceInv'
  <2>1. calls[t].pc = "idle" /\ client \in Handle /\ Up(c[client]) /\ UNCHANGED running
    BY <1>6 DEF Ask, Live, Up
  <2>2. CASE CloseSession(client) /\ Stop(t, "idle")
    BY <1>5, <2>1, <2>2
  <2>3. ASSUME NEW for, calls' = calls \/ calls' = [calls EXCEPT ![t] = [NoCall EXCEPT !.pc = "begin",
                                                                    !.h = client, !.for = for]]
        PROVE  PlaceInv'
    <3> DEFINE call == [NoCall EXCEPT !.pc = "begin", !.h = client, !.for = for]
    <3>1. call.pc = "begin" /\ call.h = client
      BY DEF NoCall
    <3> HIDE DEF call
    <3>2. /\ \A u \in Threads \ {t} : calls'[u] = calls[u]
          /\ calls'[t] = calls[t] \/ calls'[t] = call
      BY <2>3 DEF call, Typed
    <3> QED
      BY <1>2, <2>1, <3>1, <3>2, NoOtherAttempt DEF Waiting
  <2> QED
    BY <1>6, <2>2, <2>3 DEF Ask
<1>7. CASE AskDone(t)
  <2>1. calls[t].pc = "got" /\ UNCHANGED running
    BY <1>7 DEF AskDone
  <2>2. CASE CloseSession(calls[t].h) /\ Stop(t, "idle")
    BY <1>5, <2>1, <2>2
  <2>3. CASE calls' = [calls EXCEPT ![t] = NoCall]
    <3>1. calls'[t].pc = "idle" /\ \A u \in Threads \ {t} : calls'[u] = calls[u]
      BY <2>3, IdleCall DEF Typed
    <3> QED
      BY <1>2, <2>1, <3>1, NoOtherAttempt DEF Waiting
  <2> QED
    BY <1>7, <2>2, <2>3 DEF AskDone
<1>8. CASE Disconnect(t)
  <2>1. \A u \in Threads : calls[u].pc = "idle"
    BY <1>8 DEF Disconnect, Quiet
  <2> DEFINE pc == IF Last(running, c') THEN "stopping" ELSE "destroy"
             call == [NoCall EXCEPT !.pc = pc, !.h = client, !.next = "destroy"]
  <2>2. calls' = [calls EXCEPT ![t] = call] /\ call.pc = pc
    BY <1>8 DEF Disconnect, NoCall
  <2> HIDE DEF call
  <2>3. calls'[t].pc \in {"stopping", "destroy"} /\ \A u \in Threads \ {t} : calls'[u] = calls[u]
    BY <2>2 DEF Typed
  <2> QED
    BY <1>2, <2>1, <2>3 DEF Waiting
<1>9. CASE Destroy(t)
  <2>1. calls[t].pc = "destroy" /\ UNCHANGED running
    BY <1>9 DEF Destroy
  <2>2. /\ \A u \in Threads \ {t} : calls'[u] = calls[u]
        /\ calls'[t].pc \in {"stopping", "terminate", "idle"}
    <3>1. CASE Stop(t, "terminate")
      <4>1. /\ \A u \in Threads \ {t} : calls'[u] = calls[u]
            /\ \/ calls'[t].pc = "stopping"
               \/ IF "terminate" = "idle" THEN calls'[t] = NoCall ELSE calls'[t].pc = "terminate"
        BY <2>1, <3>1, StopFacts DEF SafeInv, Shape, Flags
      <4> QED
        BY <4>1
    <3>2. CASE calls' = [calls EXCEPT ![t] = NoCall]
      BY <3>2, IdleCall DEF Typed
    <3> QED
      BY <1>9, <3>1, <3>2 DEF Destroy
  <2> QED
    BY <1>2, <2>1, <2>2, NoOtherAttempt DEF Waiting
<1>10. CASE Terminate(t)
  <2>1. calls[t].pc = "terminate" /\ calls' = [calls EXCEPT ![t] = NoCall]
    BY <1>10 DEF Terminate
  <2>2. calls'[t].pc = "idle" /\ \A u \in Threads \ {t} : calls'[u] = calls[u]
    BY <2>1, IdleCall DEF Typed
  <2> QED
    BY <1>2, <2>1, <2>2, NoOtherAttempt DEF Waiting
<1>11. CASE StopWaited(t)
  <2>1. calls[t].pc = "stopping"
    BY <1>11 DEF StopWaited
  <2>2. /\ \A u \in Threads \ {t} : calls'[u] = calls[u]
        /\ calls'[t].pc \in {"idle", "destroy", "terminate"}
    <3>1. \/ calls' = [calls EXCEPT ![t] = NoCall]
          \/ calls' = [calls EXCEPT ![t] = [calls[t] EXCEPT !.pc = calls[t].next]]
      BY <1>11 DEF StopWaited
    <3> QED
      BY <1>1, <3>1, IdleCall DEF Typed, CallType
  <2> QED
    BY <1>2, <2>1, <2>2, NoOtherAttempt DEF Waiting
<1> QED
  BY <1>3, <1>4, <1>6, <1>7, <1>8, <1>9, <1>10, <1>11

\* The thread gives no handle a socket and leaves no PUBLISH for a caller.
LEMMA RunPlace ==
  ASSUME SafeInv, Typed, PlaceInv,
         Run \/ Broker
  PROVE  PlaceInv'
<1>1. UNCHANGED <<client, calls>>
  BY DEF Run, Broker
<1>2. \A m \in ClientType : Closed(m).fd = 0
  BY DEF Closed, ClientType
<1>3. \A h \in Handle : CycleResult(h).m.fd = c[h].fd /\ CycleResult(h).pack.type # "PUBLISH"
  <2>1. ASSUME NEW h \in Handle PROVE CycleResult(h).m.fd = c[h].fd
    <3>1. c[h] \in ClientType
      BY DEF Typed
    <3>2. [c[h] EXCEPT !.queue = TRUE].fd = c[h].fd
      BY <3>1 DEF ClientType
    <3> QED
      BY <3>2 DEF CycleResult
  <2>2. ASSUME NEW h \in Handle PROVE CycleResult(h).pack.type # "PUBLISH"
    BY Constants DEF CycleResult
  <2> QED
    BY <2>1, <2>2
<1>4. \A m \in ClientType : \A h : Posted(m, h).fd = m.fd
  <2>1. ASSUME NEW m \in ClientType, NEW h PROVE Posted(m, h).fd = m.fd
    BY DEF Posted, ClientType
  <2> QED
    BY <2>1
<1>5. ASSUME \A h \in Handle : c[h].fd = 0 => c'[h].fd = 0,
             run'.pack.type # "PUBLISH"
      PROVE  PlaceInv'
  <2>1. \A t \in Threads : calls[t].pc = "attempt" => client \in Handle
    BY DEF SafeInv, CallsInv, Opening
  <2> QED
    BY <1>1, <1>5, <2>1 DEF PlaceInv, Waiting
<1>6. ASSUME NEW cs \in [Handle -> ClientType], NEW ns, NEW gone, KeptAlive(cs, ns, gone),
             \A h \in Handle : cs[h].fd = c[h].fd
      PROVE  \A h \in Handle : c[h].fd = 0 => c'[h].fd = 0
  BY <1>2, <1>6 DEF KeptAlive
<1>7. \A stops : Again(stops) => run'.pack.type # "PUBLISH"
  <2>1. RunLoop.pack.type = "none" /\ NoRun.pack.type = "none"
    BY DEF RunLoop, NoRun, None
  <2> QED
    BY <2>1 DEF Again
<1>8. ASSUME RunSelect PROVE PlaceInv'
  <2>1. \A f : /\ [RunLoop EXCEPT !.pc = "chosen", !.sock = f].pack.type = "none"
               /\ [RunLoop EXCEPT !.pc = "chosen"].pack.type = "none"
    BY DEF RunLoop, None
  <2>2. c' = c /\ run'.pack.type # "PUBLISH"
    BY <1>8, <2>1 DEF RunSelect
  <2> QED
    BY <1>5, <2>2
<1>9. ASSUME RunCycle PROVE PlaceInv'
  <2>1. CASE Undefined
    BY <1>5, <2>1 DEF Undefined, PlaceInv
  <2>2. ASSUME NEW gone, NEW h \in Live,
               run' = [run EXCEPT !.pc = "cycled", !.rc = CycleResult(h).rc, !.pack = CycleResult(h).pack],
               KeptAlive([c EXCEPT ![h] = CycleResult(h).m], [net EXCEPT ![h] = CycleResult(h).n], gone)
        PROVE  PlaceInv'
    <3> DEFINE cs == [c EXCEPT ![h] = CycleResult(h).m]
               ns == [net EXCEPT ![h] = CycleResult(h).n]
    <3>1. h \in Handle /\ CycleResult(h).m \in ClientType
      BY CycleType DEF Live
    <3>2. cs \in [Handle -> ClientType] /\ \A g \in Handle : cs[g].fd = c[g].fd
      BY <1>3, <3>1 DEF Typed
    <3>3. KeptAlive(cs, ns, gone)
      BY <2>2
    <3> HIDE DEF cs, ns
    <3>4. \A g \in Handle : c[g].fd = 0 => c'[g].fd = 0
      BY <1>6, <3>2, <3>3
    <3>5. run'.pack.type # "PUBLISH"
      BY <1>3, <2>2, <3>1 DEF Typed, RunType
    <3> QED
      BY <1>5, <3>4, <3>5
  <2>3. ASSUME NEW gone, run' = [run EXCEPT !.pc = "cycled"], KeptAlive(c, net, gone)
        PROVE  PlaceInv'
    <3>1. \A g \in Handle : c[g].fd = 0 => c'[g].fd = 0
      BY <1>6, <2>3 DEF Typed
    <3>2. run'.pack.type # "PUBLISH"
      BY <2>3 DEF Typed, RunType, PlaceInv
    <3> QED
      BY <1>5, <3>1, <3>2
  <2> QED
    BY <1>9, <2>1, <2>2, <2>3 DEF RunCycle
<1>10. ASSUME RunTurn PROVE PlaceInv'
  <2>1. ASSUME NEW stops, Again(stops), c' = c PROVE PlaceInv'
    BY <1>5, <1>7, <2>1
  <2>2. ASSUME NEW h, NEW stops, Again(stops), CloseSession(h) PROVE PlaceInv'
    <3>1. \A g \in Handle : c[g].fd = 0 => c'[g].fd = 0
      BY <1>2, <2>2 DEF CloseSession, Typed
    <3> QED
      BY <1>5, <1>7, <2>2, <3>1
  <2>3. ASSUME NEW h \in Handle, NEW stops, Again(stops),
               c' = [c EXCEPT ![h].state = "none", ![h].sems = c[h].sems \cup {"CONNACK"}]
        PROVE  PlaceInv'
    <3>1. \A g \in Handle : c'[g].fd = c[g].fd
      BY <2>3 DEF Typed, ClientType
    <3> QED
      BY <1>5, <1>7, <2>3, <3>1
  <2>4. ASSUME NEW h, run' = [run EXCEPT !.pc = "callback", !.h = h, !.sock = 0], c' = c
        PROVE  PlaceInv'
    <3>1. run'.pack.type # "PUBLISH"
      BY <2>4 DEF Typed, RunType, PlaceInv
    <3> QED
      BY <1>5, <2>4, <3>1
  <2>5. ASSUME NEW h \in Handle, NEW stops, Again(stops), c' = [c EXCEPT ![h] = Posted(c[h], h)]
        PROVE  PlaceInv'
    <3>1. \A g \in Handle : c'[g].fd = c[g].fd
      BY <1>4, <2>5 DEF Typed
    <3> QED
      BY <1>5, <1>7, <2>5, <3>1
  <2>6. \A h \in Live : h \in Handle
    BY DEF Live
  <2> QED
    BY <1>10, <2>1, <2>2, <2>3, <2>4, <2>5, <2>6 DEF RunTurn
<1>11. ASSUME CallbackReturns PROVE PlaceInv'
  <2>1. CASE Undefined
    BY <1>5, <2>1 DEF Undefined, PlaceInv
  <2>2. CASE /\ c' = [c EXCEPT ![run.h] = Posted([c[run.h] EXCEPT !.queue = FALSE], run.h)]
             /\ Again(tostop)
    <3> DEFINE k == [c[run.h] EXCEPT !.queue = FALSE]
    <3>0. c[run.h] \in ClientType
      BY <1>11 DEF CallbackReturns, SafeInv, ThreadInv, Typed
    <3>1. k \in ClientType /\ k.fd = c[run.h].fd
      BY <3>0 DEF ClientType
    <3>2. c' = [c EXCEPT ![run.h] = Posted(k, run.h)]
      BY <2>2
    <3> HIDE DEF k
    <3>3. \A g \in Handle : c'[g].fd = c[g].fd
      BY <1>4, <3>1, <3>2 DEF Typed
    <3> QED
      BY <1>5, <1>7, <2>2, <3>3
  <2> QED
    BY <1>11, <2>1, <2>2 DEF CallbackReturns
<1>12. ASSUME Broker PROVE PlaceInv'
  <2>1. UNCHANGED <<c, run>>
    BY <1>12 DEF Broker
  <2> QED
    BY <1>5, <2>1 DEF PlaceInv
<1> QED
  BY <1>8, <1>9, <1>10, <1>11, <1>12 DEF Run

LEMMA TypedStep == SafeInv /\ Typed /\ PlaceInv /\ [Next]_vars => Typed' /\ PlaceInv'
<1>1. ASSUME SafeInv, Typed, PlaceInv, Next PROVE Typed' /\ PlaceInv'
  <2>1. Note /\ raced' \in BOOLEAN
    BY <1>1 DEF Next, Note
  <2>2. CASE Run
    BY <1>1, <2>1, <2>2, RunSelectType, RunCycleType, RunTurnType, CallbackType, RunPlace DEF Run
  <2>3. CASE Broker
    BY <1>1, <2>1, <2>3, BrokerType, RunPlace
  <2>4. ASSUME NEW t \in Threads, Call(t) PROVE Typed' /\ PlaceInv'
    <3>1. CASE Open(t)
      BY <1>1, <2>1, <3>1, OpenType, OpenPlace
    <3>2. CASE AttemptFails(t) \/ Attempt(t) \/ ConnectTcpDone(t) \/ ConnackDone(t)
      BY <1>1, <2>1, <3>2, ConnectType, ConnectPlace
    <3>3. CASE Waitfor(t) \/ WaitEnds(t) \/ ReadPack(t)
      BY <1>1, <2>1, <3>3, WaitType, CallPlace
    <3>4. CASE Poll(t)
      BY <1>1, <2>1, <3>4, PollType, CallPlace
    <3>5. CASE (\E kind \in Acks : Ask(t, kind)) \/ AskDone(t)
      BY <1>1, <2>1, <3>5, AskType, CallPlace
    <3>6. CASE Disconnect(t) \/ Destroy(t) \/ Terminate(t) \/ StopWaited(t)
      BY <1>1, <2>1, <3>6, EndType, CallPlace
    <3> QED
      BY <2>4, <3>1, <3>2, <3>3, <3>4, <3>5, <3>6 DEF Call
  <2> QED
    BY <1>1, <2>2, <2>3, <2>4 DEF Next
<1>2. ASSUME Typed, PlaceInv, UNCHANGED vars PROVE Typed' /\ PlaceInv'
  BY <1>2 DEF vars, library, history, Typed, PlaceInv, Waiting
<1> QED
  BY <1>1, <1>2

\* Every reachable state is well typed: a connect always finds a free descriptor, no
\* PUBLISH is handed to a waiting caller, and the flag running tells whether there is a thread.
THEOREM TypeCorrect == Spec => []TypeOK
<1>1. Init => PlaceInv
  BY DEF Init, PlaceInv, Waiting, NoCall, NoRun, RunLoop, None
<1>2. SafeInv /\ Typed => TypeOK
  BY DEF SafeInv, ThreadInv, Typed, TypeOK, ClientType, NetType, RunType, CallType, Pack, Sems
<1> QED
  BY SafeInit, SafeStep, TypedInit, TypedStep, <1>1, <1>2, PTL DEF Spec

-----------------------------------------------------------------------------
(* What is under way to a caller that waits *)

\* The answers that wait to be read from a connection.
AnswersIn(n) == {i \in DOMAIN n.in : n.in[i].type # "PUBLISH"}
Connacks == {p \in Packet : p.type = "CONNACK"}

\* Nothing is under way: no request, no answer on the connection n, none in the hands of the
\* thread, which holds k.
Empty(n, k) == n.asked = {} /\ AnswersIn(n) = {} /\ k = None

\* One request or one answer at most, and all of them are expected.
Flow(n, k, E) ==
    /\ \A p, q \in n.asked : p = q
    /\ \A i, j \in AnswersIn(n) : i = j
    /\ n.asked # {} => AnswersIn(n) = {} /\ k = None
    /\ AnswersIn(n) # {} => k = None
    /\ n.asked \subseteq E /\ (\A i \in AnswersIn(n) : n.in[i] \in E) /\ k \in E \cup {None}

\* The network is gone and nothing will come.
Dead(n, m, k) == n.tcp = "failed" /\ n.in = <<>> /\ k = None /\ m.pack = None

\* A call v of connect, on the handle m and its connection n.  A CONNACK left in m->pack by
\* the first attempt is a refusal.
Early(v) == v.pc = "attempt" \/ v.for.type = "CONNECT"
Counted(p, v) == p # None /\ (p.ok \/ v.version = 4)
ConnectFlow(v, n, m, k) ==
    /\ Flow(n, k, Connacks) /\ \A i \in DOMAIN n.in : n.in[i].type = "CONNACK"
    /\ ~m.queue /\ m.sems \cap Acks = {} /\ m.pack \in Connacks \cup {None}
    /\ v.pc = "got" => v.got \in Connacks \cup {None}
ConnectEarly(v, n, m, k) ==
    /\ v.version = 4 /\ v.pc = "attempt" => ~v.expired
    /\ Early(v) => m.state # "connack" /\ (v.version = 4 => "CONNACK" \notin m.sems)
    /\ Early(v) /\ ~(v.pc = "attempt" /\ v.expired) =>
         Empty(n, k) /\ ~n.accepted /\ ~Counted(m.pack, v)
ConnectLate(v, n, m, k) ==
    v.for.type = "CONNACK" =>
      /\ m.state # "tcp"
      /\ n.asked # {} => ~n.accepted
      /\ \A p \in {n.in[i] : i \in DOMAIN n.in} \cup {k, m.pack} : p # None /\ p.ok => n.accepted
      /\ Counted(m.pack, v) => Empty(n, k)
      /\ v.pc = "got" /\ v.got # None /\ v.got.ok => n.accepted
      /\ v.pc = "got" /\ Counted(v.got, v) => Empty(n, k)
ConnectFirst(v, n, m, k) ==
    v.for.type = "CONNACK" /\ v.version = 4 =>
      /\ v.pc = "got" /\ v.got # None => m.pack \in {None, v.got}
      /\ ~v.expired =>
           /\ v.pc = "read" => v.rc = "ok"
           /\ "CONNACK" \in m.sems \/ v.pc = "read" => Dead(n, m, k) \/ m.pack # None
           /\ v.pc = "got" => Dead(n, m, k) \/ v.got # None
ConnectInv(v, n, m, k) ==
    ConnectFlow(v, n, m, k) /\ ConnectEarly(v, n, m, k) /\ ConnectLate(v, n, m, k)
      /\ ConnectFirst(v, n, m, k)

\* A call v of subscribe or unsubscribe; l says that a packet came in the moment of a timeout.
Untaken(v) ==
    \/ v.pc \in {"begin", "wait", "poll", "stopping"}
    \/ v.pc = "read" /\ v.rc = "timeout"
    \/ v.pc = "got" /\ v.got = None
AskFlow(v, n, m, k) ==
    /\ v.pc \in {"begin", "wait", "poll", "read", "got", "stopping"}
    /\ Flow(n, k, {v.for}) /\ m.pack \in {None, v.for}
    /\ m.pack # None => Empty(n, k)
    /\ v.pc = "got" => v.got \in {None, v.for}
    /\ v.pc = "got" /\ v.got # None => Empty(n, k)
AskPosted(v, m, l) ==
    ~l => /\ m.sems \cap Acks # {} => m.sems \cap Acks = {v.for.type} /\ m.pack = v.for /\ Untaken(v)
          /\ v.pc = "read" => v.rc = "timeout" \/ (v.rc = "ok" /\ m.pack = v.for)
          /\ v.pc = "got" /\ v.rc = "ok" => v.got # None
AskInv(v, n, m, k, l) == AskFlow(v, n, m, k) /\ AskPosted(v, m, l)

\* A session that waits for nothing.
IdleInv(n, m, k, l) == Empty(n, k) /\ m.pack = None /\ (~l => m.sems \cap Acks = {})

\* The state these speak of.
Connecting(t) == Opening(t) /\ calls[t].pc # "stopping"
Asks(t) == calls[t].for.type \in Acks
Carrying == (run.pc = "cycled" /\ ~tostop) \/ (run.pc = "callback" /\ run.h = client)
Carried == IF Carrying THEN run.pack ELSE None
N == net[client]
M == c[client]

\* The application waits on its own handle; at most one thread asks, and not while one opens.
AskersInv ==
    /\ \A t \in Threads : Asks(t) => calls[t].h = client /\ client # 0 /\ ~Alone(t) /\ calls[t].pc # "idle"
    /\ ~stray => \A t, u \in Threads : Asks(t) /\ Asks(u) => t = u
    /\ (\E t \in Threads : Opening(t)) => ~stray
    /\ \A t \in Threads : calls[t].pc = "stopping" => \A h \in Handle : ~Up(c[h])

\* Only the handle that is opened or connected has a socket; one not yet created has no
\* connection.
Serving == client # 0 /\ (Up(M) \/ \E t \in Threads : Connecting(t))
SocketInv ==
    /\ \A h \in Handle : c[h].fd # 0 => h = client /\ Serving
    /\ Serving => M.life = "live"
    /\ \A h \in Handle : c[h].life = "none" => net[h] = NoNet
    /\ client # 0 => M.life # "none"
    /\ client # 0 /\ M.state # "none" => \E t \in Threads : Connecting(t)
    /\ client # 0 => (Up(M) => N.accepted /\ \A a \in N.asked : a.type \in Acks)

\* The thread: where its socket and its packet are from.  In the first attempt of a connect
\* the socket is never one of an earlier connection.
RunInv ==
    /\ run.pc \in {"select", "chosen"} => run.pack = None
    /\ run.pc = "cycled" /\ run.pack # None => run.sock # 0
    /\ run.pc = "callback" => c[run.h].life # "none"
    /\ run.pc \in {"chosen", "cycled"} /\ run.sock # 0 /\ ~tostop => Serving
    /\ \A t \in Threads : Connecting(t) => (run.pc = "callback" => run.h # client)
    /\ \A t \in Threads : Connecting(t) /\ calls[t].version = 4 =>
         /\ tostop \/ ~running => M.pack = None
         /\ run.pc \in {"chosen", "cycled"} /\ run.sock # 0 /\ ~tostop => run.sock = M.fd
         /\ run.pc = "cycled" /\ run.rc = "error" /\ run.sock # 0 /\ ~tostop =>
              N.tcp = "failed" /\ N.in = <<>> /\ run.pack = None

CallerInv ==
    /\ \A t \in Threads : Connecting(t) => ConnectInv(calls[t], N, M, Carried)
    /\ \A t \in Threads : Asks(t) /\ ~stray => AskInv(calls[t], N, M, Carried, late)
    /\ client # 0 /\ Up(M) /\ ~stray /\ (\A t \in Threads : ~Asks(t)) => IdleInv(N, M, Carried, late)

FlowInv == AskersInv /\ SocketInv /\ RunInv /\ CallerInv

-----------------------------------------------------------------------------
(* Flow *)

LEMMA NoneFacts ==
  /\ None.type = "none" /\ None.ok = TRUE
  /\ \A p \in Packet : p # None /\ p.type # "none"
  /\ Connacks \subseteq Packet /\ Of("CONNACK") \in Connacks
  /\ Of("CONNACK").ok = TRUE /\ Of("PUBLISH").type = "PUBLISH"
<1>1. None.type = "none" /\ None.ok = TRUE
  BY DEF None
<1>2. \A p \in Packet : p.type # "none"
  BY DEF Packet, Acks
<1>3. Of("CONNACK").type = "CONNACK" /\ Of("PUBLISH").type = "PUBLISH" /\ Of("CONNACK").ok = TRUE
  BY DEF Of, None
<1> QED
  BY <1>1, <1>2, <1>3, Constants DEF Connacks

LEMMA EmptyFlow ==
  ASSUME NEW E, NEW n, NEW k, Empty(n, k)
  PROVE  Flow(n, k, E)
BY DEF Empty, Flow

LEMMA NoNetFlow ==
  /\ Empty(NoNet, None) /\ NoNet.in = <<>> /\ NoNet.asked = {} /\ NoNet.accepted = FALSE
  /\ AnswersIn(NoNet) = {}
  /\ \A E, k : k \in E \cup {None} => Flow(NoNet, k, E)
<1>1. NoNet.in = <<>> /\ NoNet.asked = {} /\ NoNet.accepted = FALSE
  BY DEF NoNet
<1>2. AnswersIn(NoNet) = {}
  BY <1>1 DEF AnswersIn
<1> QED
  BY <1>1, <1>2 DEF Empty, Flow

\* The thread loses what it has.
LEMMA FlowDrops ==
  ASSUME NEW E, NEW n, NEW k
  PROVE  /\ Flow(n, k, E) => Flow(n, None, E)
         /\ Empty(n, k) => Empty(n, None)
BY DEF Flow, Empty

\* The thread passes on what it has.
LEMMA FlowPosts ==
  ASSUME NEW E, NEW n, NEW k, Flow(n, k, E), k # None
  PROVE  k \in E /\ Empty(n, None)
BY DEF Flow, Empty

\* A packet is read.
LEMMA FlowReads ==
  ASSUME NEW E, NEW n \in NetType, n.in # <<>>, NEW n1, n1.in = Tail(n.in), n1.asked = n.asked,
         Flow(n, None, E)
  PROVE  /\ Head(n.in) \in Packet
         /\ Head(n.in).type = "PUBLISH" => Flow(n1, None, E)
         /\ Head(n.in).type = "PUBLISH" /\ Empty(n, None) => Empty(n1, None)
         /\ Head(n.in).type # "PUBLISH" =>
              /\ Head(n.in) \in E /\ ~Empty(n, None)
              /\ Flow(n1, Head(n.in), E) /\ Empty(n1, None)
<1> DEFINE s == n.in
           r == Tail(n.in)
<1>1. s \in Seq(Packet) /\ Len(s) \in Nat /\ Len(s) > 0 /\ DOMAIN s = 1..Len(s)
  BY DEF NetType
<1>2. /\ r \in Seq(Packet) /\ Len(r) = Len(s) - 1 /\ DOMAIN r = 1..Len(s) - 1
      /\ \A i \in 1..Len(s) - 1 : r[i] = s[i + 1] /\ i + 1 \in DOMAIN s
  BY <1>1
<1>3. Head(s) = s[1] /\ 1 \in DOMAIN s /\ Head(s) \in Packet
  BY <1>1
<1>4. \A i \in AnswersIn(n1) : i + 1 \in AnswersIn(n) /\ i \in Nat /\ i >= 1 /\ n1.in[i] = n.in[i + 1]
  <2> HIDE DEF r, s
  <2>1. n1.in = r /\ n.in = s
    BY DEF r, s
  <2> QED BY <1>1, <1>2, <2>1 DEF AnswersIn
<1>5. s[1].type # "PUBLISH" => 1 \in AnswersIn(n)
  BY <1>3 DEF AnswersIn
<1>6. AnswersIn(n) = {} => AnswersIn(n1) = {}
  BY <1>4
<1>7. \A i, j \in AnswersIn(n) : i = j
  BY DEF Flow
<1>8. ASSUME s[1].type = "PUBLISH" PROVE Flow(n1, None, E)
  <2>1. \A i, j \in AnswersIn(n1) : i = j
    <3> SUFFICES ASSUME NEW i \in AnswersIn(n1), NEW j \in AnswersIn(n1) PROVE i = j
      OBVIOUS
    <3>1. i + 1 = j + 1 /\ i \in Nat /\ j \in Nat
      BY <1>4, <1>7
    <3> QED BY <3>1
  <2> QED BY <1>4, <1>6, <2>1 DEF Flow
<1>9. ASSUME s[1].type # "PUBLISH"
      PROVE  s[1] \in E /\ n.asked = {} /\ AnswersIn(n1) = {}
  <2>1. 1 \in AnswersIn(n)
    BY <1>5, <1>9
  <2>2. ASSUME NEW i \in AnswersIn(n1) PROVE FALSE
    <3>1. i + 1 = 1 /\ i >= 1 /\ i \in Nat
      BY <1>4, <1>7, <2>1, <2>2
    <3> QED BY <3>1
  <2> QED BY <2>1, <2>2 DEF Flow
<1>10. s[1].type # "PUBLISH" => ~Empty(n, None)
  BY <1>5 DEF Empty
<1> HIDE DEF s, r
<1>11. Head(n.in) = s[1]
  BY <1>3 DEF s
<1>12. Empty(n, None) => AnswersIn(n) = {} /\ n.asked = {}
  BY DEF Empty
<1>13. Head(n.in) \in Packet
  BY <1>3 DEF s
<1>14. Head(n.in).type # "PUBLISH" => Flow(n1, Head(n.in), E) /\ Empty(n1, None)
  <2> SUFFICES ASSUME Head(n.in).type # "PUBLISH" PROVE Flow(n1, Head(n.in), E) /\ Empty(n1, None)
    OBVIOUS
  <2>1. s[1] \in E /\ n1.asked = {} /\ AnswersIn(n1) = {}
    BY <1>9, <1>11
  <2> QED BY <1>11, <2>1 DEF Flow, Empty
<1>15. Head(n.in).type = "PUBLISH" /\ Empty(n, None) => Empty(n1, None)
  BY <1>6, <1>12 DEF Empty
<1> QED BY <1>8, <1>9, <1>10, <1>11, <1>13, <1>14, <1>15

\* Every answer on the connection is p.
OnlyAnswer(n, p) == \A i \in AnswersIn(n) : n.in[i] = p

\* A packet arrives: an answer to a request, or a PUBLISH.
LEMMA FlowArrives ==
  ASSUME NEW E, NEW n \in NetType, NEW k, NEW p \in Packet, NEW n1, n1.in = Append(n.in, p),
         Flow(n, k, E)
  PROVE  /\ p.type = "PUBLISH" /\ n1.asked = n.asked => Flow(n1, k, E)
         /\ p.type = "PUBLISH" /\ n1.asked = n.asked /\ Empty(n, k) => Empty(n1, k)
         /\ \A a \in n.asked : p.type # "PUBLISH" /\ p \in E /\ n1.asked \subseteq n.asked \ {a} =>
              /\ Flow(n1, k, E) /\ n1.asked = {} /\ ~Empty(n, k) /\ k = None
              /\ OnlyAnswer(n1, p)
              /\ AnswersIn(n) = {}
<1> DEFINE s == n.in
           l == Len(n.in) + 1
<1>1. s \in Seq(Packet) /\ Len(s) \in Nat /\ DOMAIN s = 1..Len(s)
  BY DEF NetType
<1>2. /\ DOMAIN n1.in = 1..l /\ n1.in[l] = p
      /\ \A i \in 1..Len(s) : n1.in[i] = s[i]
  BY <1>1
<1>3. \A i \in AnswersIn(n1) : i = l \/ (i \in AnswersIn(n) /\ n1.in[i] = n.in[i])
  <2> SUFFICES ASSUME NEW i \in AnswersIn(n1), i # l
               PROVE  i \in AnswersIn(n) /\ n1.in[i] = n.in[i]
    OBVIOUS
  <2>1. i \in 1..l /\ n1.in[i].type # "PUBLISH"
    BY <1>2 DEF AnswersIn
  <2>2. i \in 1..Len(s)
    BY <1>1, <2>1
  <2> QED BY <1>1, <1>2, <2>1, <2>2 DEF AnswersIn
<1>4. p.type = "PUBLISH" => l \notin AnswersIn(n1)
  BY <1>2 DEF AnswersIn
<1> HIDE DEF s, l
<1>5. CASE p.type = "PUBLISH" /\ n1.asked = n.asked
  <2>1. AnswersIn(n1) \subseteq AnswersIn(n) /\ \A i \in AnswersIn(n1) : n1.in[i] = n.in[i]
    BY <1>3, <1>4, <1>5
  <2>2. Flow(n1, k, E)
    BY <1>5, <2>1 DEF Flow
  <2>3. Empty(n, k) => Empty(n1, k)
    BY <1>5, <2>1 DEF Empty
  <2> QED BY <1>5, <2>2, <2>3
<1>6. ASSUME NEW a \in n.asked, p.type # "PUBLISH", p \in E, n1.asked \subseteq n.asked \ {a}
      PROVE  /\ Flow(n1, k, E) /\ n1.asked = {} /\ ~Empty(n, k) /\ k = None
             /\ OnlyAnswer(n1, p)
             /\ AnswersIn(n) = {}
  <2>1. AnswersIn(n) = {} /\ k = None /\ n1.asked = {}
    BY <1>6 DEF Flow
  <2>2. \A i \in AnswersIn(n1) : i = l
    BY <1>3, <2>1
  <2>3. \A i \in AnswersIn(n1) : n1.in[i] = p
    BY <1>2, <2>2
  <2>6. OnlyAnswer(n1, p)
    BY <2>3 DEF OnlyAnswer
  <2>4. ~Empty(n, k)
    BY <1>6 DEF Empty
  <2>5. Flow(n1, k, E)
    BY <1>6, <2>1, <2>2, <2>3 DEF Flow
  <2> QED BY <2>1, <2>4, <2>5, <2>6
<1> QED BY <1>5, <1>6

\* The network fails.
LEMMA FlowFails ==
  ASSUME NEW E, NEW n, NEW k, NEW n1, n1.asked = {}, n1.in \in {<<>>, n.in}, Flow(n, k, E)
  PROVE  Flow(n1, k, E) /\ (Empty(n, k) => Empty(n1, k))
<1>1. AnswersIn(n1) \subseteq AnswersIn(n) /\ \A i \in AnswersIn(n1) : n1.in[i] = n.in[i]
  BY DEF AnswersIn
<1> QED BY <1>1 DEF Flow, Empty

-----------------------------------------------------------------------------
(* What the network, the thread and other callers do to a caller *)

\* The fields of a handle that the thread may change for a caller.
SameClient(m, m1) ==
    /\ m1.life = m.life /\ m1.connected = m.connected
    /\ m1.state \in {m.state, "none"} /\ m1.queue \in {m.queue, FALSE}
SameNet(n, n1) == n1.tcp = n.tcp /\ n1.accepted = n.accepted

\* The broker accepts the connection, answers a request or publishes; the network fails.
Connects(n, n1) ==
    /\ n.tcp = "connecting" /\ n1.in = n.in /\ n1.asked = n.asked /\ n1.accepted = n.accepted
Answers(n, n1) ==
    \E a \in n.asked, p \in Packet :
        /\ n.tcp = "up" /\ n1.tcp = "up" /\ n1.in = Append(n.in, p) /\ n1.asked \subseteq n.asked \ {a}
        /\ \/ a = Of("CONNACK") /\ p \in Connacks /\ n1.accepted = p.ok
           \/ a.type \in Acks /\ p = a /\ n1.accepted = n.accepted
Publishes(n, n1) ==
    n.tcp = "up" /\ SameNet(n, n1) /\ n1.in = Append(n.in, Of("PUBLISH")) /\ n1.asked = n.asked
Fails(n, n1) ==
    /\ n.tcp # "failed" /\ n1.tcp = "failed" /\ n1.accepted = n.accepted
    /\ n1.asked = {} /\ n1.in \in {<<>>, n.in}
BrokerView(n, m, n1) ==
    Connects(n, n1) \/ Answers(n, n1) \/ (Up(m) /\ Publishes(n, n1)) \/ Fails(n, n1)

\* A cycle reads a packet; the session is closed.
Reads(n, m, n1, m1, k1) ==
    /\ n.in # <<>> /\ m.state # "tcp" /\ SameNet(n, n1) /\ n1.in = Tail(n.in) /\ n1.asked = n.asked
    /\ m1 = [m EXCEPT !.queue = m1.queue]
    /\ IF Head(n.in).type = "PUBLISH" THEN k1 = None /\ m1.queue = TRUE
       ELSE k1 \in {Head(n.in), None} /\ m1.queue = m.queue
Closes(m, n1, m1) ==
    Up(m) /\ n1 = NoNet /\ ~m1.connected /\ m1.pack = m.pack /\ m1.sems = m.sems

\* The thread posts the packet it holds, ends a connect, or reports a fault.
Posts(m, k, m1) ==
    k # None /\ SameClient(m, m1) /\ m1.pack = k /\ m1.sems = m.sems \cup {k.type}
Ends(m, m1) ==
    SameClient(m, m1) /\ m1.pack = m.pack /\ m1.sems \in {m.sems, m.sems \cup {"CONNECT"}}
Faults(m, m1) ==
    /\ ~m.connected /\ m.state = "connack"
    /\ SameClient(m, m1) /\ m1.pack = m.pack /\ m1.sems = m.sems \cup {"CONNACK"}

View(n, m, k, n1, m1, k1) ==
    \/ n1 = n /\ m1 = m /\ k1 \in {k, None}
    \/ BrokerView(n, m, n1) /\ m1 = m /\ k1 = k
    \/ k = None /\ Reads(n, m, n1, m1, k1)
    \/ Closes(m, n1, m1) /\ k1 \in {k, None}
    \/ n1 = n /\ k1 = None /\ (Posts(m, k, m1) \/ Ends(m, m1) \/ Faults(m, m1))

\* How requests and answers fare.
LEMMA FlowView ==
  ASSUME NEW E, E \subseteq Packet, \A p \in E : p.type # "PUBLISH",
         NEW n \in NetType, NEW m, NEW k, NEW n1, NEW m1, NEW k1,
         Flow(n, k, E), View(n, m, k, n1, m1, k1),
         \A a \in n.asked, p \in Packet : a = Of("CONNACK") /\ p \in Connacks => p \in E
  PROVE  /\ Flow(n1, k1, E)
         /\ Empty(n, k) => Empty(n1, k1)
<1> DEFINE C == Flow(n1, k1, E) /\ (Empty(n, k) => Empty(n1, k1))
<1>1. CASE n1 = n /\ k1 \in {k, None}
  BY <1>1, FlowDrops
<1>2. CASE Connects(n, n1) /\ k1 = k
  <2>1. AnswersIn(n1) = AnswersIn(n) /\ n1.in = n.in /\ n1.asked = n.asked
    BY <1>2 DEF Connects, AnswersIn
  <2> QED BY <1>2, <2>1 DEF Flow, Empty
<1>3. CASE Answers(n, n1) /\ k1 = k
  <2>1. PICK a \in n.asked, p \in Packet :
          /\ n1.in = Append(n.in, p) /\ n1.asked \subseteq n.asked \ {a}
          /\ (a = Of("CONNACK") /\ p \in Connacks) \/ (a.type \in Acks /\ p = a)
    BY <1>3 DEF Answers
  <2>2. a \in E
    BY DEF Flow
  <2>3. p \in E /\ p.type # "PUBLISH"
    BY <2>1, <2>2
  <2>4. Flow(n1, k, E) /\ ~Empty(n, k)
    BY <2>1, <2>3, FlowArrives
  <2> QED BY <1>3, <2>4
<1>4. CASE Publishes(n, n1) /\ k1 = k
  <2>1. Of("PUBLISH") \in Packet /\ Of("PUBLISH").type = "PUBLISH"
    BY Constants, NoneFacts
  <2> QED BY <1>4, <2>1, FlowArrives DEF Publishes
<1>5. CASE Fails(n, n1) /\ k1 = k
  BY <1>5, FlowFails DEF Fails
<1>6. CASE k = None /\ Reads(n, m, n1, m1, k1)
  <2>1. /\ n.in # <<>> /\ n1.in = Tail(n.in) /\ n1.asked = n.asked
        /\ IF Head(n.in).type = "PUBLISH" THEN k1 = None ELSE k1 \in {Head(n.in), None}
    BY <1>6 DEF Reads
  <2>2. Flow(n, None, E)
    BY <1>6
  <2>3. CASE Head(n.in).type = "PUBLISH"
    BY <1>6, <2>1, <2>2, <2>3, FlowReads
  <2>4. CASE Head(n.in).type # "PUBLISH"
    <3>1. Flow(n1, Head(n.in), E) /\ Empty(n1, None) /\ ~Empty(n, None)
      BY <2>1, <2>2, <2>4, FlowReads
    <3>2. Flow(n1, None, E)
      BY <3>1, FlowDrops
    <3> QED BY <1>6, <2>1, <2>4, <3>1, <3>2
  <2> QED BY <2>3, <2>4
<1>7. CASE n1 = NoNet /\ k1 \in {k, None}
  <2>1. k1 \in E \cup {None}
    BY <1>7 DEF Flow
  <2>2. Empty(n, k) => k1 = None
    BY <1>7 DEF Empty
  <2> QED BY <1>7, <2>1, <2>2, NoNetFlow
<1>8. CASE n1 = n /\ k1 = None
  BY <1>8, FlowDrops
<1> QED BY <1>1, <1>2, <1>3, <1>4, <1>5, <1>6, <1>7, <1>8 DEF View, BrokerView, Closes

LEMMA AckTypes ==
  /\ "CONNACK" \notin Acks /\ "CONNECT" \notin Acks /\ "PUBLISH" \notin Acks /\ "none" \notin Acks
  /\ \A p \in Connacks : p.type \notin Acks
BY DEF Acks, Connacks

\* A session that waits for nothing keeps waiting for nothing.
LEMMA IdleView ==
  ASSUME NEW n \in NetType, NEW m \in ClientType, NEW k, NEW n1, NEW m1, NEW k1, NEW l \in BOOLEAN,
         IdleInv(n, m, k, l), View(n, m, k, n1, m1, k1)
  PROVE  IdleInv(n1, m1, k1, l)
<1>1. Empty(n, k) /\ k = None /\ n.asked = {}
  BY DEF IdleInv, Empty
<1>2. Empty(n1, k1)
  <2>1. Flow(n, k, {})
    BY <1>1, EmptyFlow
  <2> QED BY <1>1, <2>1, FlowView
<1>3. m1.pack = m.pack
  BY <1>1 DEF View, BrokerView, Reads, Closes, Posts, Ends, Faults, ClientType
<1>4. m1.sems \cap Acks = m.sems \cap Acks
  <2>1. m1.sems = m.sems \/ m1.sems = m.sems \cup {"CONNECT"} \/ m1.sems = m.sems \cup {"CONNACK"}
    BY <1>1 DEF View, BrokerView, Reads, Closes, Posts, Ends, Faults, ClientType
  <2> QED BY <2>1, AckTypes
<1> QED BY <1>2, <1>3, <1>4 DEF IdleInv

\* Nor does the thread bring a caller that asks anything but its own answer, and that once.
LEMMA AskView ==
  ASSUME NEW n \in NetType, NEW m \in ClientType, NEW k, NEW n1, NEW m1, NEW k1, NEW l \in BOOLEAN,
         NEW v \in CallType, v.for.type \in Acks,
         AskInv(v, n, m, k, l), View(n, m, k, n1, m1, k1)
  PROVE  AskInv(v, n1, m1, k1, l)
<1>1. v.for \in Packet /\ v.for # None /\ v.for.type # "PUBLISH" /\ v.for \notin Connacks
  <2>1. v.for \in Packet \cup {None, Of("CONNECT")}
    BY DEF CallType
  <2>2. None.type = "none" /\ Of("CONNECT").type = "CONNECT"
    BY DEF None, Of
  <2> QED BY <2>1, <2>2, AckTypes
<1>2. \A a \in n.asked : a # Of("CONNACK")
  BY <1>1, NoneFacts DEF AskInv, AskFlow, Flow
<1>3. Flow(n, k, {v.for})
  BY DEF AskInv, AskFlow
<1>4. Flow(n1, k1, {v.for}) /\ (Empty(n, k) => Empty(n1, k1))
  <2>1. \A p \in {v.for} : p.type # "PUBLISH"
    BY <1>1
  <2> QED BY <1>1, <1>2, <1>3, <2>1, FlowView
<1>5. CASE m1.pack = m.pack /\ m1.sems \cap Acks = m.sems \cap Acks
  <2>1. AskFlow(v, n1, m1, k1)
    BY <1>4, <1>5 DEF AskInv, AskFlow
  <2>2. AskPosted(v, m1, l)
    BY <1>5 DEF AskInv, AskPosted
  <2> QED BY <2>1, <2>2 DEF AskInv
<1>6. CASE n1 = n /\ k1 = None /\ Posts(m, k, m1)
  <2>1. k = v.for /\ Empty(n1, None)
    BY <1>3, <1>6, FlowPosts DEF Posts
  <2>2. ~Empty(n, k)
    BY <1>6 DEF Empty, Posts
  <2>3. m.pack = None /\ (v.pc = "got" => v.got = None)
    BY <2>2 DEF AskInv, AskFlow
  <2>4. m1.pack = v.for /\ m1.sems = m.sems \cup {v.for.type}
    BY <1>6, <2>1 DEF Posts
  <2>5. AskFlow(v, n1, m1, k1)
    BY <1>4, <1>6, <2>1, <2>3, <2>4 DEF AskInv, AskFlow
  <2>6. ASSUME ~l PROVE AskPosted(v, m1, l)
    <3>1. m.sems \cap Acks = {}
      BY <1>1, <2>3, <2>6 DEF AskInv, AskPosted
    <3>2. m1.sems \cap Acks = {v.for.type}
      BY <2>4, <3>1
    <3>3. ~(v.pc = "read" /\ v.rc = "ok")
      BY <1>1, <2>3, <2>6 DEF AskInv, AskPosted
    <3>4. Untaken(v)
      BY <2>3, <2>6, <3>3 DEF AskInv, AskFlow, AskPosted, Untaken
    <3>5. (v.pc = "read" => v.rc = "timeout" \/ (v.rc = "ok" /\ m1.pack = v.for)) /\ (v.pc = "got" /\ v.rc = "ok" => v.got # None)
      BY <2>4, <2>6 DEF AskInv, AskPosted
    <3> QED BY <2>4, <3>2, <3>4, <3>5 DEF AskPosted
  <2>7. l => AskPosted(v, m1, l)
    BY DEF AskPosted
  <2> QED BY <2>5, <2>6, <2>7 DEF AskInv
<1>7. m1.sems = m.sems \/ m1.sems = m.sems \cup {"CONNECT"} \/ m1.sems = m.sems \cup {"CONNACK"} =>
        m1.sems \cap Acks = m.sems \cap Acks
  BY AckTypes
<1>8. CASE ~Posts(m, k, m1)
  <2>1. m1.pack = m.pack
    BY <1>8 DEF View, BrokerView, Reads, Closes, Ends, Faults, ClientType
  <2>2. m1.sems = m.sems \/ m1.sems = m.sems \cup {"CONNECT"} \/ m1.sems = m.sems \cup {"CONNACK"}
    BY <1>8 DEF View, BrokerView, Reads, Closes, Ends, Faults, ClientType
  <2> QED BY <1>5, <1>7, <2>1, <2>2
<1>9. Posts(m, k, m1) => (n1 = n /\ k1 = None) \/ (m1.pack = m.pack /\ m1.sems \cap Acks = m.sems \cap Acks)
  BY <1>7 DEF View, BrokerView, Reads, Closes, Ends, Faults, ClientType
<1> QED BY <1>5, <1>6, <1>8, <1>9

\* What the thread and the network do to a call of connect.
LEMMA ConnectView ==
  ASSUME NEW n \in NetType, NEW m \in ClientType, NEW k, NEW n1, NEW m1, NEW k1,
         NEW v \in CallType, ConnectInv(v, n, m, k), View(n, m, k, n1, m1, k1), ~Up(m),
         v.version = 4 /\ "CONNACK" \in m1.sems \ m.sems =>
           Posts(m, k, m1) \/ (n.tcp = "failed" /\ n.in = <<>>)
  PROVE  ConnectInv(v, n1, m1, k1)
<1>1. /\ Flow(n, k, Connacks) /\ (\A i \in DOMAIN n.in : n.in[i].type = "CONNACK")
      /\ ~m.queue /\ m.sems \cap Acks = {} /\ m.pack \in Connacks \cup {None}
      /\ v.pc = "got" => v.got \in Connacks \cup {None}
  BY DEF ConnectInv, ConnectFlow
<1>2. Flow(n1, k1, Connacks) /\ (Empty(n, k) => Empty(n1, k1))
  <2>1. Connacks \subseteq Packet /\ \A p \in Connacks : p.type # "PUBLISH"
    BY DEF Connacks
  <2> QED BY <1>1, <2>1, FlowView
<1>3. k \in Connacks \cup {None} /\ n.asked \subseteq Connacks /\ \A a \in n.asked : a.type = "CONNACK"
  BY <1>1 DEF Flow, Connacks
<1>4. AnswersIn(n) = DOMAIN n.in /\ n.in \in Seq(Packet)
  BY <1>1 DEF AnswersIn, NetType
<1>5. (Posts(m, k, m1) /\ n1 = n /\ k1 = None) \/ m1.pack = m.pack
  BY DEF View, BrokerView, Reads, Closes, Ends, Faults, ClientType
<1>6. ASSUME Answers(n, n1)
      PROVE  /\ ~Empty(n, k) /\ k = None /\ n1.asked = {} /\ n.tcp = "up"
             /\ \A i \in DOMAIN n1.in : n1.in[i] \in Connacks /\ (n1.in[i].ok => n1.accepted)
  <2>1. PICK a \in n.asked, p \in Packet :
          /\ n.tcp = "up" /\ n1.in = Append(n.in, p) /\ n1.asked \subseteq n.asked \ {a}
          /\ \/ a = Of("CONNACK") /\ p \in Connacks /\ n1.accepted = p.ok
             \/ a.type \in Acks /\ p = a /\ n1.accepted = n.accepted
    BY <1>6 DEF Answers
  <2>2. p \in Connacks /\ n1.accepted = p.ok /\ p.type # "PUBLISH"
    BY <1>3, <2>1, AckTypes DEF Connacks
  <2>3. n1.asked = {} /\ ~Empty(n, k) /\ k = None /\ AnswersIn(n) = {} /\ OnlyAnswer(n1, p)
    <3>1. n1.in = Append(n.in, p) /\ a \in n.asked /\ n1.asked \subseteq n.asked \ {a}
      BY <2>1
    <3>2. Flow(n, k, Connacks)
      BY <1>1
    <3>3. p \in Connacks /\ p.type # "PUBLISH"
      BY <2>2
    <3>4. n1.asked = {} /\ ~Empty(n, k)
      BY <3>1, <3>2 DEF Flow, Empty
    <3>5. k = None /\ AnswersIn(n) = {}
      BY <3>1, <3>2 DEF Flow
    <3>7. OnlyAnswer(n1, p)
      BY <3>1, <3>2, <3>3, FlowArrives
    <3> QED BY <3>4, <3>5, <3>7
  <2>4. n.in = <<>>
    <3>1. DOMAIN n.in = {}
      BY <1>4, <2>3
    <3>2. DOMAIN n.in = 1..Len(n.in) /\ Len(n.in) \in Nat
      BY <1>4
    <3>3. Len(n.in) = 0
      <4>1. Len(n.in) >= 1 => 1 \in DOMAIN n.in
        BY <3>2
      <4> QED BY <3>1, <3>2, <4>1
    <3> QED BY <1>4, <3>3
  <2>5. DOMAIN n1.in = {1} /\ n1.in[1] = p
    BY <1>4, <2>1, <2>4
  <2> QED BY <2>1, <2>2, <2>3, <2>5
<1>7. ASSUME ~Answers(n, n1)
      PROVE  /\ n1.accepted = n.accepted /\ n1.asked \subseteq n.asked
             /\ \A i \in DOMAIN n1.in : \E j \in DOMAIN n.in : n1.in[i] = n.in[j]
  <2>1. CASE n1 = n
    BY <2>1
  <2>2. CASE Connects(n, n1)
    BY <2>2 DEF Connects
  <2>3. CASE Fails(n, n1)
    <3>1. DOMAIN <<>> = {}
      OBVIOUS
    <3> QED BY <2>3, <3>1 DEF Fails
  <2>4. CASE Reads(n, m, n1, m1, k1)
    <3>1. n.in # <<>> /\ n1.in = Tail(n.in)
      BY <2>4 DEF Reads
    <3>2. \A i \in DOMAIN n1.in : i + 1 \in DOMAIN n.in /\ n1.in[i] = n.in[i + 1]
      BY <1>4, <3>1
    <3> QED BY <2>4, <3>2 DEF Reads, SameNet
  <2> QED BY <1>7, <2>1, <2>2, <2>3, <2>4 DEF View, BrokerView, Closes
<1>8. k1 = None \/ k1 = k \/ (n.in # <<>> /\ Reads(n, m, n1, m1, k1) /\ k1 = n.in[1])
  BY DEF View, Reads
<1>9. \A i \in DOMAIN n1.in : n1.in[i].type = "CONNACK"
  <2>1. CASE Answers(n, n1)
    BY <1>6, <2>1 DEF Connacks
  <2>2. CASE ~Answers(n, n1)
    BY <1>1, <1>7, <2>2
  <2> QED BY <2>1, <2>2
<1>10. /\ m1.state \in {m.state, "none"} /\ m1.queue \in {m.queue, FALSE}
       /\ m1.sems \in {m.sems, m.sems \cup {"CONNECT"}, m.sems \cup {"CONNACK"}}
  <2>1. CASE Reads(n, m, n1, m1, k1)
    <3>1. Head(n.in) = n.in[1] /\ 1 \in DOMAIN n.in
      BY <1>4, <2>1 DEF Reads
    <3>2. Head(n.in).type = "CONNACK"
      BY <1>1, <3>1
    <3> QED BY <2>1, <3>2 DEF Reads, ClientType
  <2>2. CASE Posts(m, k, m1)
    <3>1. k.type = "CONNACK"
      BY <1>3, <2>2 DEF Posts, Connacks
    <3> QED BY <2>2, <3>1 DEF Posts, SameClient
  <2> QED BY <2>1, <2>2 DEF View, BrokerView, Closes, Ends, Faults, SameClient
<1>11. ConnectFlow(v, n1, m1, k1)
  <2>1. m1.sems \cap Acks = {}
    BY <1>1, <1>10, AckTypes
  <2>2. m1.pack \in Connacks \cup {None}
    BY <1>1, <1>3, <1>5 DEF Posts
  <2> QED BY <1>1, <1>2, <1>9, <1>10, <2>1, <2>2 DEF ConnectFlow
<1>12. ConnectEarly(v, n1, m1, k1)
  <2>1. v.version = 4 /\ v.pc = "attempt" => ~v.expired
    BY DEF ConnectInv, ConnectEarly
  <2>2. ASSUME Early(v), ~(v.pc = "attempt" /\ v.expired)
        PROVE  /\ Empty(n1, k1) /\ ~n1.accepted /\ ~Counted(m1.pack, v)
               /\ ~Posts(m, k, m1)
    <3>1. Empty(n, k) /\ ~n.accepted /\ ~Counted(m.pack, v)
      BY <2>2 DEF ConnectInv, ConnectEarly
    <3>2. k = None
      BY <3>1 DEF Empty
    <3>3. ~Answers(n, n1) /\ ~Posts(m, k, m1)
      BY <1>6, <3>1, <3>2 DEF Posts
    <3> QED BY <1>2, <1>5, <1>7, <3>1, <3>3
  <2>3. ASSUME Early(v) PROVE m1.state # "connack" /\ ~Faults(m, m1)
    <3>1. m.state # "connack"
      BY <2>3 DEF ConnectInv, ConnectEarly
    <3> QED BY <1>10, <3>1 DEF Faults
  <2>4. ASSUME Early(v), v.version = 4 PROVE "CONNACK" \notin m1.sems
    <3>1. "CONNACK" \notin m.sems
      BY <2>4 DEF ConnectInv, ConnectEarly
    <3>2. ~Posts(m, k, m1) /\ ~Faults(m, m1)
      BY <2>1, <2>2, <2>3, <2>4
    <3>3. m1.sems = m.sems \/ m1.sems = m.sems \cup {"CONNECT"}
      BY <3>2 DEF View, BrokerView, Reads, Closes, Ends, ClientType
    <3> QED BY <3>1, <3>3
  <2> QED BY <2>1, <2>2, <2>3, <2>4 DEF ConnectEarly
<1>13. ASSUME v.for.type = "CONNACK" PROVE ConnectLate(v, n1, m1, k1)
  <2>1. /\ m.state # "tcp"
        /\ n.asked # {} => ~n.accepted
        /\ \A p \in {n.in[i] : i \in DOMAIN n.in} \cup {k, m.pack} : p # None /\ p.ok => n.accepted
        /\ Counted(m.pack, v) => Empty(n, k)
        /\ v.pc = "got" /\ v.got # None /\ v.got.ok => n.accepted
        /\ v.pc = "got" /\ Counted(v.got, v) => Empty(n, k)
    BY <1>13 DEF ConnectInv, ConnectLate
  <2>2. m1.state # "tcp"
    BY <1>10, <2>1
  <2>3. n1.asked # {} => ~n1.accepted
    BY <1>6, <1>7, <2>1
  <2>4. \A p \in {n1.in[i] : i \in DOMAIN n1.in} \cup {k1, m1.pack} : p # None /\ p.ok => n1.accepted
    <3>1. CASE Answers(n, n1)
      <4>1. \A i \in DOMAIN n1.in : n1.in[i].ok => n1.accepted
        BY <1>6, <3>1
      <4>2. k = None /\ ~Empty(n, k) /\ ~Counted(m.pack, v)
        BY <1>6, <2>1, <3>1
      <4>3. m1.pack = m.pack
        BY <1>5, <4>2 DEF Posts
      <4>4. k1 = None
        <5>1. DOMAIN n.in = {}
          <6>1. n.asked # {}
            BY <3>1 DEF Answers
          <6> QED BY <1>1, <1>4, <6>1 DEF Flow
        <5> QED BY <1>4, <1>8, <4>2, <5>1
      <4> QED BY <4>1, <4>2, <4>3, <4>4 DEF Counted
    <3>2. CASE ~Answers(n, n1)
      <4>1. m1.pack = m.pack \/ m1.pack = k
        BY <1>5 DEF Posts
      <4>2. k1 = None \/ k1 = k \/ \E j \in DOMAIN n.in : k1 = n.in[j]
        <5>1. n.in # <<>> => 1 \in DOMAIN n.in
          BY <1>4
        <5> QED BY <1>8, <5>1
      <4> QED BY <1>7, <2>1, <3>2, <4>1, <4>2
    <3> QED BY <3>1, <3>2
  <2>5. Counted(m1.pack, v) => Empty(n1, k1)
    <3>1. CASE Posts(m, k, m1) /\ n1 = n /\ k1 = None
      BY <1>1, <3>1, FlowPosts DEF Posts
    <3>2. CASE m1.pack = m.pack
      BY <1>2, <2>1, <3>2
    <3> QED BY <1>5, <3>1, <3>2
  <2>6. v.pc = "got" /\ v.got # None /\ v.got.ok => n1.accepted
    BY <1>6, <1>7, <2>1 DEF Counted
  <2>7. v.pc = "got" /\ Counted(v.got, v) => Empty(n1, k1)
    BY <1>2, <2>1
  <2> QED BY <2>2, <2>3, <2>4, <2>5, <2>6, <2>7 DEF ConnectLate
<1>14. ASSUME v.for.type = "CONNACK", v.version = 4 PROVE ConnectFirst(v, n1, m1, k1)
  <2>1. v.pc = "got" /\ v.got # None => m1.pack \in {None, v.got}
    <3>1. v.pc = "got" /\ v.got # None => m.pack \in {None, v.got} /\ Empty(n, k)
      BY <1>14 DEF ConnectInv, ConnectLate, ConnectFirst, Counted
    <3>2. Empty(n, k) => ~Posts(m, k, m1)
      BY DEF Empty, Posts
    <3> QED BY <1>5, <3>1, <3>2
  <2>2. Dead(n, m, k) => Dead(n1, m1, k1)
    <3> SUFFICES ASSUME Dead(n, m, k) PROVE Dead(n1, m1, k1)
      OBVIOUS
    <3>1. n.tcp = "failed" /\ n.in = <<>> /\ k = None /\ m.pack = None
      BY DEF Dead
    <3>2. ~BrokerView(n, m, n1) /\ ~Reads(n, m, n1, m1, k1) /\ ~Posts(m, k, m1)
      BY <3>1 DEF BrokerView, Connects, Answers, Fails, Reads, Posts
    <3>3. n1 = n /\ k1 = None
      BY <3>1, <3>2 DEF View, Closes
    <3> QED BY <1>5, <3>1, <3>2, <3>3 DEF Dead
  <2>3. m.pack # None => m1.pack # None
    BY <1>5 DEF Posts
  <2>4. ASSUME ~v.expired, "CONNACK" \in m1.sems PROVE Dead(n1, m1, k1) \/ m1.pack # None
    <3>1. CASE "CONNACK" \in m.sems
      <4>1. Dead(n, m, k) \/ m.pack # None
        BY <1>14, <2>4, <3>1 DEF ConnectInv, ConnectFirst
      <4> QED BY <2>2, <2>3, <4>1
    <3>2. CASE "CONNACK" \notin m.sems
      <4>1. Posts(m, k, m1) \/ (Faults(m, m1) /\ n1 = n /\ k1 = None)
        BY <2>4, <3>2 DEF View, BrokerView, Reads, Closes, Ends, ClientType
      <4>2. CASE Posts(m, k, m1)
        BY <4>2 DEF Posts
      <4>3. CASE ~Posts(m, k, m1)
        <5>1. n1 = n /\ k1 = None /\ n.tcp = "failed" /\ n.in = <<>>
          BY <1>14, <2>4, <3>2, <4>1, <4>3
        <5> QED BY <5>1 DEF Dead
      <4> QED BY <4>1, <4>2, <4>3
    <3> QED BY <3>1, <3>2
  <2>5. ASSUME ~v.expired
        PROVE  /\ v.pc = "read" => v.rc = "ok" /\ (Dead(n1, m1, k1) \/ m1.pack # None)
               /\ v.pc = "got" => Dead(n1, m1, k1) \/ v.got # None
    <3>1. /\ v.pc = "read" => v.rc = "ok" /\ (Dead(n, m, k) \/ m.pack # None)
          /\ v.pc = "got" => Dead(n, m, k) \/ v.got # None
      BY <1>14, <2>5 DEF ConnectInv, ConnectFirst
    <3> QED BY <2>2, <2>3, <3>1
  <2> QED BY <2>1, <2>4, <2>5 DEF ConnectFirst
<1> QED BY <1>11, <1>12, <1>13, <1>14 DEF ConnectInv, ConnectLate, ConnectFirst

-----------------------------------------------------------------------------
(* Steps of the thread and of the network *)

\* No handle comes into use or gets a socket; one that is no longer connected has none, and
\* one that is not there keeps its connection.
Calm ==
    \A h \in Handle :
        /\ c'[h].life = c[h].life /\ c'[h].fd \in {c[h].fd, 0} /\ c'[h].state \in {c[h].state, "none"}
        /\ Up(c'[h]) => Up(c[h])
        /\ Up(c[h]) /\ ~Up(c'[h]) => c'[h].fd = 0
        /\ c[h].life = "none" => net'[h] = net[h]

\* What the step is for the client.
OwnView == client # 0 => View(N, M, Carried, N', M', Carried')

\* A fault reported to the first attempt of a connect is one of its own connection.
OwnFault ==
    \A t \in Threads :
        Connecting(t) /\ calls[t].version = 4 /\ "CONNACK" \in M'.sems \ M.sems =>
          Posts(M, Carried, M') \/ (N.tcp = "failed" /\ N.in = <<>>)

LEMMA ClientHandle ==
  ASSUME SafeInv, Typed
  PROVE  /\ client # 0 => client \in Handle /\ M \in ClientType /\ N \in NetType
         /\ \A t \in Threads : Opening(t) => client \in Handle /\ client # 0 /\ ~Up(M)
<1>1. client # 0 => client \in Handle
  BY Constants DEF Typed, Handle
<1>2. \A h \in Handle : c[h] \in ClientType /\ net[h] \in NetType /\ h # 0
  BY Constants DEF Typed, Handle
<1>3. \A t \in Threads : Opening(t) => client \in Handle /\ ~Up(c[client])
  BY DEF SafeInv, CallsInv, HandlesInv
<1> QED
  BY <1>1, <1>2, <1>3 DEF M, N

\* A connected session was accepted and is asked for no CONNACK.
LEMMA UpView ==
  ASSUME NEW n \in NetType, NEW m \in ClientType, NEW k, NEW n1, NEW m1, NEW k1,
         View(n, m, k, n1, m1, k1), Up(m), Up(m1), n.accepted, \A a \in n.asked : a.type \in Acks
  PROVE  n1.accepted /\ \A a \in n1.asked : a.type \in Acks
<1>1. \A a \in n.asked : a # Of("CONNACK")
  BY AckTypes, NoneFacts
<1>2. ~Closes(m, n1, m1)
  BY DEF Closes, Up
<1> QED
  BY <1>1, <1>2 DEF View, BrokerView, Connects, Answers, Publishes, Fails, Reads, SameNet

LEMMA CalmSocket ==
  ASSUME SafeInv, Typed, SocketInv, client' = client, Calm, OwnView,
         \A t \in Threads : Connecting(t)' <=> Connecting(t)
  PROVE  SocketInv'
<1>0. client # 0 => client \in Handle /\ M \in ClientType /\ N \in NetType
  BY ClientHandle
<1>1. \A t \in Threads : Connecting(t)' <=> Connecting(t)
  OBVIOUS
<1>2. M' = c'[client] /\ N' = net'[client] /\ M = c[client] /\ N = net[client]
  BY DEF M, N
<1>3. Serving' => Serving
  BY <1>0, <1>1, <1>2 DEF Serving, Calm
<1>4. ASSUME NEW h \in Handle, c'[h].fd # 0 PROVE h = client' /\ Serving'
  <2>1. c[h].fd # 0
    BY <1>4 DEF Calm
  <2>2. h = client /\ Serving
    BY <2>1 DEF SocketInv
  <2>3. Up(c[client]) => Up(c'[client])
    BY <1>4, <2>2 DEF Calm
  <2> QED BY <1>1, <1>2, <2>2, <2>3 DEF Serving
<1>5. Serving' => M'.life = "live"
  BY <1>0, <1>2, <1>3 DEF SocketInv, Calm, Serving
<1>6. \A h \in Handle : c'[h].life = "none" => net'[h] = NoNet
  BY DEF Calm, SocketInv
<1>7. client' # 0 => M'.life # "none"
  BY <1>0, <1>2 DEF Calm, SocketInv
<1>8. ASSUME client' # 0, Up(M') PROVE N'.accepted /\ \A a \in N'.asked : a.type \in Acks
  <2>1. Up(M) /\ N.accepted /\ \A a \in N.asked : a.type \in Acks
    BY <1>0, <1>2, <1>8 DEF Calm, SocketInv
  <2>2. View(N, M, Carried, N', M', Carried')
    BY <1>8 DEF OwnView
  <2> HIDE DEF Up
  <2> QED BY <1>0, <1>8, <2>1, <2>2, UpView
<1>9. client' # 0 /\ M'.state # "none" => \E t \in Threads : Connecting(t)'
  BY <1>0, <1>1, <1>2 DEF Calm, SocketInv
<1> QED BY <1>4, <1>5, <1>6, <1>7, <1>8, <1>9 DEF SocketInv

LEMMA CalmCaller ==
  ASSUME SafeInv, Typed, SocketInv, AskersInv, CallerInv, UNCHANGED <<client, calls, stray, late>>,
         Calm, OwnView, OwnFault
  PROVE  CallerInv'
<1>0. /\ client # 0 => client \in Handle /\ M \in ClientType /\ N \in NetType
      /\ \A t \in Threads : Opening(t) => client \in Handle /\ client # 0 /\ ~Up(M)
  BY ClientHandle
<1>1. \A t \in Threads : /\ (Connecting(t)' <=> Connecting(t)) /\ (Asks(t)' <=> Asks(t))
                         /\ calls'[t] = calls[t] /\ calls[t] \in CallType
  BY DEF Connecting, Opening, Asks, Typed
<1>2. ASSUME NEW t \in Threads, Connecting(t)' PROVE ConnectInv(calls'[t], N', M', Carried')
  <2>1. Connecting(t) /\ Opening(t) /\ calls'[t] = calls[t] /\ calls[t] \in CallType
    BY <1>1, <1>2 DEF Connecting
  <2>2. M \in ClientType /\ N \in NetType /\ ~Up(M) /\ View(N, M, Carried, N', M', Carried')
    BY <1>0, <2>1 DEF OwnView
  <2>3. ConnectInv(calls[t], N, M, Carried)
    BY <2>1 DEF CallerInv
  <2>4. calls[t].version = 4 /\ "CONNACK" \in M'.sems \ M.sems =>
           Posts(M, Carried, M') \/ (N.tcp = "failed" /\ N.in = <<>>)
    BY <2>1 DEF OwnFault
  <2>5. ConnectInv(calls[t], N', M', Carried')
    BY <2>1, <2>2, <2>3, <2>4, ConnectView
  <2> QED BY <2>1, <2>5
<1>3. ASSUME NEW t \in Threads, Asks(t)', ~stray' PROVE AskInv(calls'[t], N', M', Carried', late')
  <2>1. Asks(t) /\ calls'[t] = calls[t] /\ calls[t] \in CallType /\ calls[t].for.type \in Acks
    BY <1>1, <1>3 DEF Asks
  <2>2. M \in ClientType /\ N \in NetType /\ View(N, M, Carried, N', M', Carried')
    BY <1>0, <2>1 DEF OwnView, AskersInv
  <2>3. AskInv(calls[t], N, M, Carried, late) /\ late \in BOOLEAN /\ late' = late
    BY <1>3, <2>1 DEF CallerInv, Typed
  <2>4. AskInv(calls[t], N', M', Carried', late)
    BY <2>1, <2>2, <2>3, AskView
  <2> QED BY <2>1, <2>3, <2>4
<1>4. ASSUME client' # 0, Up(M'), ~stray', \A t \in Threads : ~Asks(t)'
      PROVE  IdleInv(N', M', Carried', late')
  <2>1. Up(M)
    BY <1>0, <1>4 DEF Calm, M
  <2>2. M \in ClientType /\ N \in NetType /\ View(N, M, Carried, N', M', Carried')
    BY <1>0, <1>4 DEF OwnView
  <2>3. IdleInv(N, M, Carried, late) /\ late \in BOOLEAN /\ late' = late
    BY <1>1, <1>4, <2>1 DEF CallerInv, Typed
  <2>4. IdleInv(N', M', Carried', late)
    BY <2>2, <2>3, IdleView
  <2> QED BY <2>3, <2>4
<1> QED BY <1>2, <1>3, <1>4 DEF CallerInv

LEMMA FlowCalm ==
  ASSUME SafeInv, Typed, FlowInv, UNCHANGED <<client, calls, stray, late>>,
         Calm, OwnView, OwnFault, RunInv'
  PROVE  FlowInv'
<1>1. AskersInv'
  <2>1. \A t \in Threads : Asks(t)' = Asks(t) /\ Opening(t)' = Opening(t) /\ Alone(t)' = Alone(t)
    BY DEF Asks, Opening, Alone, Leaving
  <2>2. \A t \in Threads : calls'[t].pc = "stopping" => \A h \in Handle : ~Up(c'[h])
    BY DEF FlowInv, AskersInv, Calm
  <2> QED BY <2>1, <2>2 DEF FlowInv, AskersInv
<1>2. SocketInv'
  <2>1. \A t \in Threads : Connecting(t)' <=> Connecting(t)
    BY DEF Connecting, Opening
  <2> QED BY <2>1, CalmSocket DEF FlowInv
<1>3. CallerInv'
  BY CalmCaller DEF FlowInv
<1> QED BY <1>1, <1>2, <1>3 DEF FlowInv

LEMMA FoundClient ==
  ASSUME Typed, FlowInv, NEW s, NEW h, Found(s, h)
  PROVE  /\ h = client /\ h \in Handle /\ client # 0 /\ s # 0 /\ M.life = "live" /\ M.fd = s
         /\ Serving
<1>1. h \in Handle /\ c[h].life = "live" /\ c[h].fd = s /\ s # 0
  BY DEF Found, Live
<1>2. h = client /\ Serving
  BY <1>1 DEF FlowInv, SocketInv
<1> QED BY <1>1, <1>2, Constants DEF M, Handle

\* A step that changes at most what the client's record says besides its socket.
LEMMA CalmOne ==
  ASSUME Typed, net' = net,
         \/ c' = c
         \/ \E h \in Handle : \E m \in ClientType :
              /\ c' = [c EXCEPT ![h] = m] /\ m.life = c[h].life /\ m.fd = c[h].fd
              /\ m.connected = c[h].connected /\ m.state \in {c[h].state, "none"}
  PROVE  Calm
<1>1. CASE c' = c
  BY <1>1 DEF Calm
<1>2. ASSUME NEW h \in Handle, NEW m \in ClientType, c' = [c EXCEPT ![h] = m],
             m.life = c[h].life, m.fd = c[h].fd, m.connected = c[h].connected,
             m.state \in {c[h].state, "none"}
      PROVE  Calm
  <2>1. \A g \in Handle : c'[g] = IF g = h THEN m ELSE c[g]
    BY <1>2 DEF Typed
  <2> QED BY <1>2, <2>1 DEF Calm, Up
<1> QED BY <1>1, <1>2

\* A session is closed.
LEMMA CalmClose ==
  ASSUME Typed, NEW h \in Live, CloseSession(h)
  PROVE  /\ Calm
         /\ \A g \in Handle : g # h => c'[g] = c[g] /\ net'[g] = net[g]
         /\ c'[h] = Closed(c[h]) /\ net'[h] = NoNet
         /\ c'[h].pack = c[h].pack /\ c'[h].sems = c[h].sems /\ ~c'[h].connected /\ c'[h].fd = 0
         /\ c'[h].state = "none"
<1>1. h \in Handle /\ c[h] \in ClientType /\ c[h].life = "live"
  BY DEF Live, Typed
<1>2. /\ Closed(c[h]).life = c[h].life /\ Closed(c[h]).fd = 0 /\ ~Closed(c[h]).connected
      /\ Closed(c[h]).state = "none"
      /\ Closed(c[h]).pack = c[h].pack /\ Closed(c[h]).sems = c[h].sems
  BY <1>1 DEF Closed, ClientType
<1>3. \A g \in Handle : /\ c'[g] = IF g = h THEN Closed(c[h]) ELSE c[g]
                        /\ net'[g] = IF g = h THEN NoNet ELSE net[g]
  BY DEF CloseSession, Typed
<1>4. Calm
  BY <1>1, <1>2, <1>3 DEF Calm, Up
<1> QED BY <1>1, <1>2, <1>3, <1>4

\* The thread is at the end of its loop.
LEMMA RunRests ==
  ASSUME run' = RunLoop \/ run' = NoRun
  PROVE  /\ Carried' = None /\ run'.pc \in {"select", "none"}
         /\ (\A t \in Threads : Connecting(t)' /\ calls'[t].version = 4 =>
                (tostop' \/ ~running' => M'.pack = None)) => RunInv'
<1>1. run'.pack = None /\ run'.pc \in {"select", "none"}
  BY DEF RunLoop, NoRun
<1> QED BY <1>1 DEF RunInv, Carried, Carrying

LEMMA SelectFlow ==
  ASSUME SafeInv, Typed, FlowInv, RunSelect, UNCHANGED <<client, calls>>
  PROVE  Calm /\ OwnView /\ OwnFault /\ RunInv'
<1>1. /\ run.pc = "select" /\ UNCHANGED <<c, net, running, tostop>>
      /\ M' = M /\ N' = N /\ \A t \in Threads : Connecting(t)' <=> Connecting(t)
  BY DEF RunSelect, library, M, N, Connecting, Opening
<1>2. \/ \E h \in Live : c[h].fd # 0 /\ run' = [RunLoop EXCEPT !.pc = "chosen", !.sock = c[h].fd]
      \/ run' = [RunLoop EXCEPT !.pc = "chosen"]
  BY DEF RunSelect, ReadyHandle
<1>3. run'.pc = "chosen" /\ run'.pack = None /\ (run'.sock # 0 => Serving /\ run'.sock = M.fd)
  <2>1. CASE run' = [RunLoop EXCEPT !.pc = "chosen"]
    BY <2>1 DEF RunLoop
  <2>2. ASSUME NEW h \in Live, c[h].fd # 0, run' = [RunLoop EXCEPT !.pc = "chosen", !.sock = c[h].fd]
        PROVE  run'.pc = "chosen" /\ run'.pack = None /\ Serving /\ run'.sock = M.fd
    <3>1. h = client /\ Serving
      BY <2>2 DEF FlowInv, SocketInv, Live
    <3> QED BY <2>2, <3>1 DEF RunLoop, M
  <2> QED BY <1>2, <2>1, <2>2
<1>4. Calm
  BY <1>1, CalmOne
<1>5. Carried = None /\ Carried' = None
  BY <1>1, <1>3 DEF Carried, Carrying
<1>6. OwnView /\ OwnFault
  BY <1>1, <1>5 DEF OwnView, OwnFault, View
<1>7. Serving => Serving'
  BY <1>1 DEF Serving
<1> QED BY <1>1, <1>3, <1>4, <1>6, <1>7 DEF FlowInv, RunInv

\* What a cycle reads.
LEMMA CycleReads ==
  ASSUME Typed, NEW h \in Handle
  PROVE  LET r == CycleResult(h) IN
         /\ r.m.life = c[h].life /\ r.m.connected = c[h].connected /\ r.m.fd = c[h].fd
         /\ r.m.state = c[h].state /\ r.m.pack = c[h].pack /\ r.m.sems = c[h].sems
         /\ \/ /\ r.n = net[h] /\ r.m = c[h] /\ r.pack = None
               /\ r.rc = "error" => net[h].tcp = "failed" /\ net[h].in = <<>>
            \/ r.rc = "ok" /\ Reads(net[h], c[h], r.n, r.m, r.pack)
<1> DEFINE r == CycleResult(h)
           n == net[h]
           m == c[h]
<1>1. m \in ClientType /\ n \in NetType
  BY DEF Typed
<1>2. CASE m.state = "tcp"
  <2>1. r = [rc |-> "ok", pack |-> None, m |-> m, n |-> n]
    BY <1>2 DEF CycleResult
  <2> QED BY <2>1
<1>3. CASE m.state # "tcp" /\ n.in = <<>>
  <2>1. r = [rc |-> IF n.tcp = "failed" THEN "error" ELSE "ok", pack |-> None, m |-> m, n |-> n]
    BY <1>3 DEF CycleResult
  <2> QED BY <1>3, <2>1
<1>4. CASE m.state # "tcp" /\ n.in # <<>>
  <2> DEFINE rest == [n EXCEPT !.in = Tail(n.in)]
  <2>1. SameNet(n, rest) /\ rest.in = Tail(n.in) /\ rest.asked = n.asked
    BY <1>1 DEF SameNet, NetType
  <2>2. CASE Head(n.in).type = "PUBLISH"
    <3>1. r = [rc |-> "ok", pack |-> None, m |-> [m EXCEPT !.queue = TRUE], n |-> rest]
      BY <1>4, <2>2 DEF CycleResult
    <3>2. r.rc = "ok" /\ r.pack = None /\ r.m = [m EXCEPT !.queue = TRUE] /\ r.n = rest
      BY <3>1
    <3> HIDE DEF r, rest
    <3>3. r.m.queue = TRUE
      BY <1>1, <3>2 DEF ClientType
    <3>4. r.m = [m EXCEPT !.queue = r.m.queue]
      BY <3>2, <3>3
    <3>5. /\ r.m.life = m.life /\ r.m.connected = m.connected /\ r.m.fd = m.fd
          /\ r.m.state = m.state /\ r.m.pack = m.pack /\ r.m.sems = m.sems
      BY <1>1, <3>2 DEF ClientType
    <3>6. Reads(n, m, r.n, r.m, r.pack)
      BY <1>4, <2>1, <2>2, <3>2, <3>3, <3>4 DEF Reads
    <3> QED BY <3>2, <3>5, <3>6 DEF r
  <2>3. CASE Head(n.in).type # "PUBLISH"
    <3>1. r = [rc |-> "ok", pack |-> Head(n.in), m |-> m, n |-> rest]
      BY <1>4, <2>3 DEF CycleResult
    <3>2. r.rc = "ok" /\ r.pack = Head(n.in) /\ r.m = m /\ r.n = rest
      BY <3>1
    <3> HIDE DEF r, rest
    <3>4. r.m = [m EXCEPT !.queue = r.m.queue]
      BY <1>1, <3>2 DEF ClientType
    <3>6. Reads(n, m, r.n, r.m, r.pack)
      BY <1>4, <2>1, <2>3, <3>2, <3>4 DEF Reads
    <3> QED BY <3>2, <3>6 DEF r
  <2> QED BY <2>2, <2>3
<1> QED BY <1>2, <1>3, <1>4

\* The keep-alive at the end of a cycle closes at most the session of the client, and tells
\* the thread to end then.
LEMMA KeptAliveFlow ==
  ASSUME SafeInv, Typed, NEW cs \in [Handle -> ClientType], NEW ns \in [Handle -> NetType],
         NEW gone \in SUBSET Live,
         KeptAlive(cs, ns, gone),
         \A h \in Handle : /\ cs[h].life = c[h].life /\ cs[h].connected = c[h].connected
                           /\ cs[h].state = c[h].state /\ cs[h].fd = c[h].fd
                           /\ c[h].life = "none" => ns[h] = net[h]
  PROVE  /\ Calm /\ (tostop => tostop')
         /\ \A h \in Handle :
              \/ c'[h] = cs[h] /\ net'[h] = ns[h]
              \/ /\ Up(c[h]) /\ net'[h] = NoNet /\ (running => tostop')
                 /\ c'[h].pack = cs[h].pack /\ c'[h].sems = cs[h].sems /\ ~c'[h].connected
         /\ (\A h \in Handle : ~Up(c[h])) => tostop' = tostop
<1>1. \A h \in Handle :
        /\ c'[h] = IF h \in gone THEN Closed(cs[h]) ELSE cs[h]
        /\ net'[h] = IF h \in gone THEN NoNet ELSE ns[h]
        /\ h \in gone => Up(c[h])
  BY DEF KeptAlive, Up
<1>2. \A h \in Handle :
        /\ Closed(cs[h]).life = cs[h].life /\ Closed(cs[h]).fd = 0 /\ ~Closed(cs[h]).connected
        /\ Closed(cs[h]).pack = cs[h].pack /\ Closed(cs[h]).sems = cs[h].sems
        /\ Closed(cs[h]).state = "none"
  BY DEF Closed, ClientType
<1>3. Calm
  BY <1>1, <1>2 DEF Calm, Up
<1>4. ASSUME NEW h \in Handle, h \in gone, running PROVE tostop'
  <2>1. tostop' = (tostop \/ Last(running, c'))
    BY <1>4 DEF KeptAlive, StopSelf
  <2>2. \A g \in Handle : g # h => ~InUse(c[g])
    BY <1>1, <1>4 DEF SafeInv, HandlesInv, InUse, Up
  <2>3. \A g \in Handle : ~InUse(c'[g])
    BY <1>1, <1>2, <1>4, <2>2 DEF InUse
  <2> QED BY <1>4, <2>1, <2>3 DEF Last
<1>5. tostop => tostop'
  BY DEF KeptAlive, StopSelf
<1>6. (\A h \in Handle : ~Up(c[h])) => tostop' = tostop
  <2>2. (\A h \in Handle : ~Up(c[h])) => \A k \in gone : k \notin Handle
    BY <1>1
  <2>3. \A k \in gone : k \in Handle
    BY DEF Live
  <2> QED BY <2>2, <2>3 DEF KeptAlive
<1> QED BY <1>1, <1>2, <1>3, <1>4, <1>5, <1>6

\* The cycle of the thread.
LEMMA CycleFlow ==
  ASSUME SafeInv, Typed, FlowInv, RunCycle, UNCHANGED <<client, calls>>
  PROVE  Calm /\ OwnView /\ OwnFault /\ RunInv'
<1>0. /\ run.pc = "chosen" /\ run.pack = None /\ Carried = None /\ running
      /\ \A t \in Threads : Connecting(t)' <=> Connecting(t)
  BY DEF RunCycle, FlowInv, RunInv, Carried, Carrying, Connecting, Opening, SafeInv, ThreadInv
<1>00. \A t \in Threads : Connecting(t) => \A h \in Handle : ~Up(c[h])
  BY DEF Connecting, SafeInv, HandlesInv
<1>1. CASE terminated /\ Undefined
  <2>1. UNCHANGED <<c, net, running, tostop, run>> /\ M' = M /\ N' = N /\ Carried' = Carried
    BY <1>1 DEF Undefined, M, N, Carried, Carrying
  <2>2. Calm
    BY <2>1, CalmOne
  <2>3. OwnView /\ OwnFault
    BY <2>1 DEF OwnView, OwnFault, View
  <2>4. Serving' = Serving
    BY <1>0, <2>1 DEF Serving
  <2>5. RunInv'
    BY <1>0, <2>1, <2>4 DEF FlowInv, RunInv
  <2> QED BY <2>2, <2>3, <2>5
\* What remains is the same for a cycle that reads and one that does not.
<1>2. ASSUME NEW cs \in [Handle -> ClientType], NEW ns \in [Handle -> NetType], NEW gone \in SUBSET Live,
             KeptAlive(cs, ns, gone), UNCHANGED running,
             run'.pc = "cycled", run'.sock = run.sock,
             \A h \in Handle : /\ cs[h].life = c[h].life /\ cs[h].connected = c[h].connected
                               /\ cs[h].state = c[h].state /\ cs[h].fd = c[h].fd
                               /\ cs[h].pack = c[h].pack /\ cs[h].sems = c[h].sems
                               /\ c[h].life = "none" => ns[h] = net[h],
             client # 0 => \/ ns[client] = N /\ cs[client] = M /\ run'.pack = None
                           \/ Reads(N, M, ns[client], cs[client], run'.pack),
             run'.pack # None => run.sock # 0,
             client # 0 /\ run'.rc = "error" /\ run.sock # 0 /\ run.sock = M.fd /\ M.life = "live" =>
               N.tcp = "failed" /\ N.in = <<>> /\ run'.pack = None
      PROVE  Calm /\ OwnView /\ OwnFault /\ RunInv'
  <2>1. /\ Calm /\ (tostop => tostop')
        /\ \A h \in Handle :
              \/ c'[h] = cs[h] /\ net'[h] = ns[h]
              \/ /\ Up(c[h]) /\ net'[h] = NoNet /\ (running => tostop')
                 /\ c'[h].pack = cs[h].pack /\ c'[h].sems = cs[h].sems /\ ~c'[h].connected
        /\ (\A h \in Handle : ~Up(c[h])) => tostop' = tostop
    BY <1>2, KeptAliveFlow
  <2>2. /\ M' = c'[client] /\ N' = net'[client] /\ M = c[client] /\ N = net[client]
        /\ client # 0 => client \in Handle
    BY ClientHandle DEF M, N
  <2>3. Carried' = IF tostop' THEN None ELSE run'.pack
    BY <1>2 DEF Carried, Carrying
  <2>4. (M'.sems = M.sems /\ M'.pack = M.pack) \/ client = 0
    BY <1>2, <2>1, <2>2
  <2>5. OwnView
    <3> SUFFICES ASSUME client # 0 PROVE View(N, M, Carried, N', M', Carried')
      BY DEF OwnView
    <3>1. CASE M' = cs[client] /\ N' = ns[client]
      <4>1. CASE N' = N /\ M' = M /\ run'.pack = None
        BY <2>3, <4>1 DEF View
      <4>2. CASE Reads(N, M, N', M', run'.pack)
        <5>1. Reads(N, M, N', M', Carried')
          BY <2>3, <4>2 DEF Reads
        <5> QED BY <1>0, <5>1 DEF View
      <4> QED BY <1>2, <3>1, <4>1, <4>2
    <3>2. CASE Up(M) /\ N' = NoNet /\ tostop' /\ ~M'.connected /\ M'.pack = M.pack /\ M'.sems = M.sems
      BY <1>0, <2>3, <3>2 DEF View, Closes
    <3> QED BY <1>0, <1>2, <2>1, <2>2, <3>1, <3>2
  <2>6. OwnFault
    BY <2>4, ClientHandle DEF OwnFault, Connecting
  <2>7. run.sock # 0 /\ ~tostop' => Serving'
    <3>1. run.sock # 0 /\ ~tostop' => Serving
      BY <1>0, <2>1 DEF FlowInv, RunInv
    <3>2. client # 0 /\ Up(M) /\ ~tostop' => Up(M')
      BY <1>0, <1>2, <2>1, <2>2 DEF Up
    <3> QED BY <1>0, <3>1, <3>2 DEF Serving
  <2>8. ASSUME NEW t \in Threads, Connecting(t), calls[t].version = 4
        PROVE  /\ tostop' \/ ~running' => M'.pack = None
               /\ run.sock # 0 /\ ~tostop' => run.sock = M'.fd
               /\ run'.rc = "error" /\ run.sock # 0 /\ ~tostop' =>
                    N'.tcp = "failed" /\ N'.in = <<>> /\ run'.pack = None
    <3>1. client # 0 /\ client \in Handle /\ Serving /\ M.life = "live"
      BY <2>8, ClientHandle DEF Connecting, Serving, FlowInv, SocketInv
    <3>2. M' = cs[client] /\ N' = ns[client] /\ tostop' = tostop /\ M'.fd = M.fd
      BY <1>00, <1>2, <2>1, <2>2, <2>8, <3>1
    <3>3. /\ tostop \/ ~running => M.pack = None
          /\ run.sock # 0 /\ ~tostop => run.sock = M.fd
      BY <1>0, <2>8 DEF FlowInv, RunInv
    <3>4. run'.rc = "error" /\ run.sock # 0 /\ ~tostop' => N.tcp = "failed" /\ N.in = <<>> /\ run'.pack = None
      BY <1>2, <3>1, <3>2, <3>3
    <3>5. run'.pack = None /\ N.in = <<>> => N' = N
      BY <1>2, <3>1, <3>2 DEF Reads
    <3> QED BY <1>2, <2>4, <3>1, <3>2, <3>3, <3>4, <3>5
  <2>9. RunInv'
    BY <1>0, <1>2, <2>7, <2>8 DEF RunInv
  <2> QED BY <2>1, <2>5, <2>6, <2>9
<1>3. ASSUME NEW h \in Live, Found(run.sock, h), NEW gone \in SUBSET Live, UNCHANGED running,
             run' = [run EXCEPT !.pc = "cycled", !.rc = CycleResult(h).rc, !.pack = CycleResult(h).pack],
             KeptAlive([c EXCEPT ![h] = CycleResult(h).m], [net EXCEPT ![h] = CycleResult(h).n], gone)
      PROVE  Calm /\ OwnView /\ OwnFault /\ RunInv'
  <2> DEFINE r == CycleResult(h)
             cs == [c EXCEPT ![h] = r.m]
             ns == [net EXCEPT ![h] = r.n]
  <2>1. h = client /\ h \in Handle /\ client # 0 /\ run.sock # 0 /\ c[h].life = "live"
    BY <1>3, FoundClient DEF M
  <2>2. /\ r.m.life = c[h].life /\ r.m.connected = c[h].connected /\ r.m.fd = c[h].fd
        /\ r.m.state = c[h].state /\ r.m.pack = c[h].pack /\ r.m.sems = c[h].sems
        /\ \/ /\ r.n = net[h] /\ r.m = c[h] /\ r.pack = None
              /\ r.rc = "error" => net[h].tcp = "failed" /\ net[h].in = <<>>
           \/ r.rc = "ok" /\ Reads(net[h], c[h], r.n, r.m, r.pack)
    BY <2>1, CycleReads
  <2>3. r.m \in ClientType /\ r.n \in NetType
    BY <2>1, CycleType
  <2>4. run'.pc = "cycled" /\ run'.sock = run.sock /\ run'.rc = r.rc /\ run'.pack = r.pack
    BY <1>3 DEF Typed, RunType
  <2>5. KeptAlive(cs, ns, gone)
    BY <1>3
  <2> HIDE DEF r
  <2>6. cs \in [Handle -> ClientType] /\ ns \in [Handle -> NetType]
    BY <2>3 DEF Typed
  <2>7. /\ \A g \in Handle : cs[g] = (IF g = h THEN r.m ELSE c[g]) /\ ns[g] = (IF g = h THEN r.n ELSE net[g])
        /\ M = c[h] /\ N = net[h] /\ cs[client] = r.m /\ ns[client] = r.n
    BY <2>1 DEF Typed, M, N
  <2> HIDE DEF cs, ns
  <2>8. \A g \in Handle : /\ cs[g].life = c[g].life /\ cs[g].connected = c[g].connected
                          /\ cs[g].state = c[g].state /\ cs[g].fd = c[g].fd
                          /\ cs[g].pack = c[g].pack /\ cs[g].sems = c[g].sems
                          /\ c[g].life = "none" => ns[g] = net[g]
    BY <2>1, <2>2, <2>7
  <2>9. /\ client # 0 => \/ ns[client] = N /\ cs[client] = M /\ run'.pack = None
                         \/ Reads(N, M, ns[client], cs[client], run'.pack)
        /\ run'.pack # None => run.sock # 0
        /\ run'.rc = "error" => N.tcp = "failed" /\ N.in = <<>> /\ run'.pack = None
    BY <2>1, <2>2, <2>4, <2>7
  <2> QED BY <1>2, <1>3, <2>4, <2>5, <2>6, <2>8, <2>9
<1>4. ASSUME ~(\E h \in Live : Found(run.sock, h)), NEW gone \in SUBSET Live, UNCHANGED running,
             run' = [run EXCEPT !.pc = "cycled"], KeptAlive(c, net, gone)
      PROVE  Calm /\ OwnView /\ OwnFault /\ RunInv'
  <2>1. run'.pc = "cycled" /\ run'.sock = run.sock /\ run'.rc = run.rc /\ run'.pack = None
    BY <1>0, <1>4 DEF Typed, RunType
  <2>2. c \in [Handle -> ClientType] /\ net \in [Handle -> NetType] /\ c[client] = M /\ net[client] = N
    BY DEF Typed, M, N
  <2>3. ~(client # 0 /\ run.sock # 0 /\ run.sock = M.fd /\ M.life = "live")
    BY <1>4, ClientHandle DEF Found, Live, M
  <2> QED BY <1>2, <1>4, <2>1, <2>2, <2>3
<1> QED BY <1>1, <1>3, <1>4 DEF RunCycle

\* What the thread leaves for the caller.
LEMMA PostedView ==
  ASSUME Typed, PlaceInv, NEW m \in ClientType, NEW k \in ClientType, NEW h,
         k \in {m, [m EXCEPT !.queue = FALSE]}
  PROVE  LET m1 == Posted(k, h) IN
         /\ m1 \in ClientType /\ m1.life = m.life /\ m1.fd = m.fd /\ m1.connected = m.connected
         /\ m1.state \in {m.state, "none"}
         /\ Posts(m, run.pack, m1) \/ (run.pack = None /\ Ends(m, m1))
<1> DEFINE m1 == Posted(k, h)
<1>1. m1 \in ClientType
  BY PostedType
<1>2. /\ k.life = m.life /\ k.fd = m.fd /\ k.connected = m.connected /\ k.state = m.state
      /\ k.pack = m.pack /\ k.sems = m.sems /\ k.queue \in {m.queue, FALSE}
  BY DEF ClientType
<1>3. CASE run.pack.type # "none"
  <2>1. m1 = [k EXCEPT !.pack = run.pack, !.sems = k.sems \cup {run.pack.type}]
    BY <1>3 DEF Posted
  <2>2. run.pack # None
    BY <1>3, NoneFacts
  <2> HIDE DEF m1
  <2>3. /\ m1.life = k.life /\ m1.fd = k.fd /\ m1.connected = k.connected /\ m1.state = k.state
        /\ m1.queue = k.queue /\ m1.pack = run.pack /\ m1.sems = k.sems \cup {run.pack.type}
    BY <2>1 DEF ClientType
  <2>4. Posts(m, run.pack, m1)
    BY <1>2, <2>2, <2>3 DEF Posts, SameClient
  <2> QED BY <1>1, <1>2, <2>3, <2>4 DEF m1
<1>4. CASE run.pack.type = "none"
  <2>0. run.pack = None
    BY <1>4, NoneFacts DEF Typed, RunType, Pack
  <2>1. CASE m.state = "tcp"
    <3>1. m1 = [k EXCEPT !.state = "none", !.rc = SoError(h), !.sems = k.sems \cup {"CONNECT"}]
      BY <1>2, <1>4, <2>1 DEF Posted
    <3> HIDE DEF m1
    <3>2. /\ m1.life = k.life /\ m1.fd = k.fd /\ m1.connected = k.connected /\ m1.state = "none"
          /\ m1.queue = k.queue /\ m1.pack = k.pack /\ m1.sems = k.sems \cup {"CONNECT"}
      BY <3>1 DEF ClientType
    <3>3. Ends(m, m1)
      BY <1>2, <3>2 DEF Ends, SameClient
    <3> QED BY <1>1, <1>2, <2>0, <3>2, <3>3 DEF m1
  <2>2. CASE m.state # "tcp"
    <3>1. m1 = k
      BY <1>2, <1>4, <2>2 DEF Posted
    <3>2. Ends(m, k)
      BY <1>2 DEF Ends, SameClient
    <3> QED BY <1>1, <1>2, <2>0, <3>1, <3>2
  <2> QED BY <2>1, <2>2
<1> QED BY <1>3, <1>4

\* The thread posts what it has to the client and begins its next cycle, or ends.
LEMMA PostFlow ==
  ASSUME SafeInv, Typed, PlaceInv, FlowInv, UNCHANGED <<client, calls, net>>,
         NEW k \in ClientType, client # 0, k \in {M, [M EXCEPT !.queue = FALSE]},
         c' = [c EXCEPT ![client] = Posted(k, client)],
         run' = RunLoop \/ run' = NoRun, Carried = run.pack,
         \A t \in Threads : Connecting(t) => running' /\ ~tostop'
  PROVE  Calm /\ OwnView /\ OwnFault /\ RunInv'
<1>1. client \in Handle /\ M \in ClientType /\ M = c[client] /\ N' = N
  BY ClientHandle DEF M, N
<1> DEFINE m1 == Posted(k, client)
<1>2. /\ m1 \in ClientType /\ m1.life = M.life /\ m1.fd = M.fd /\ m1.connected = M.connected
      /\ m1.state \in {M.state, "none"}
      /\ Posts(M, run.pack, m1) \/ (run.pack = None /\ Ends(M, m1))
  BY <1>1, PostedView
<1> HIDE DEF m1
<1>3. c' = [c EXCEPT ![client] = m1]
  BY DEF m1
<1>4. M' = m1
  BY <1>1, <1>3 DEF Typed, M
<1>5. Calm
  BY <1>1, <1>2, <1>3, CalmOne
<1>6. Carried' = None
  BY RunRests
<1>7. OwnView
  BY <1>1, <1>2, <1>4, <1>6 DEF OwnView, View
<1>8. OwnFault
  BY <1>2, <1>4 DEF OwnFault, Ends
<1>9. RunInv'
  BY RunRests DEF Connecting, Opening
<1> QED BY <1>5, <1>7, <1>8, <1>9

LEMMA TurnFlow ==
  ASSUME SafeInv, Typed, PlaceInv, FlowInv, RunTurn, UNCHANGED <<client, calls>>
  PROVE  Calm /\ OwnView /\ OwnFault /\ RunInv'
<1>0. /\ run.pc = "cycled" /\ running
      /\ \A t \in Threads : Connecting(t)' <=> Connecting(t)
      /\ Carried = IF tostop THEN None ELSE run.pack
  BY DEF RunTurn, SafeInv, ThreadInv, Connecting, Opening, Carried, Carrying
<1>1. ASSUME UNCHANGED <<c, net>>, (tostop /\ Again(TRUE)) \/ (~tostop /\ Again(FALSE))
      PROVE  Calm /\ OwnView /\ OwnFault /\ RunInv'
  <2>1. /\ M' = M /\ N' = N /\ (run' = RunLoop \/ run' = NoRun)
        /\ ~tostop => running' /\ ~tostop'
    BY <1>0, <1>1 DEF Again, M, N
  <2>2. Calm
    BY <1>1, CalmOne
  <2>3. OwnView /\ OwnFault
    BY <2>1, RunRests DEF OwnView, OwnFault, View
  <2>4. \A t \in Threads : Connecting(t)' /\ calls'[t].version = 4 =>
          (tostop' \/ ~running' => M'.pack = None)
    BY <1>0, <2>1 DEF FlowInv, RunInv
  <2> QED BY <2>1, <2>2, <2>3, <2>4, RunRests
<1>2. ASSUME NEW h \in Live, ~tostop, Found(run.sock, h), c[h].connected,
             CloseSession(h), Again(Last(running, c'))
      PROVE  Calm /\ OwnView /\ OwnFault /\ RunInv'
  <2>1. h = client /\ h \in Handle /\ client # 0 /\ M.life = "live" /\ M = c[h] /\ N = net[h]
    BY <1>2, FoundClient DEF M, N
  <2>2. /\ Calm /\ N' = NoNet /\ M'.pack = M.pack /\ M'.sems = M.sems /\ ~M'.connected
    BY <1>2, <2>1, CalmClose DEF M, N
  <2>3. run' = RunLoop \/ run' = NoRun
    BY <1>2 DEF Again
  <2>4. Up(M)
    BY <1>2, <2>1 DEF Up
  <2>5. \A t \in Threads : ~Connecting(t)
    BY <2>4, ClientHandle DEF Connecting
  <2>6. OwnView /\ OwnFault
    BY <2>2, <2>3, <2>4, <2>5, RunRests DEF OwnView, OwnFault, View, Closes
  <2> QED BY <1>0, <2>2, <2>3, <2>5, <2>6, RunRests
<1>3. ASSUME NEW h \in Live, ~tostop, Found(run.sock, h), run.rc = "error", ~c[h].connected,
             c' = IF c[h].state = "connack"
                  THEN [c EXCEPT ![h].state = "none", ![h].sems = c[h].sems \cup {"CONNACK"}]
                  ELSE c,
             net' = net, Again(FALSE)
      PROVE  Calm /\ OwnView /\ OwnFault /\ RunInv'
  <2>1. /\ h = client /\ h \in Handle /\ client # 0 /\ M = c[h] /\ N' = N /\ M \in ClientType
        /\ run.sock # 0 /\ M.fd = run.sock
    BY <1>3, FoundClient, ClientHandle DEF M, N
  <2>2. run' = RunLoop /\ running' /\ ~tostop'
    BY <1>0, <1>3 DEF Again
  <2>3. CASE c[h].state # "connack"
    BY <1>1, <1>3, <2>3
  <2>4. CASE c[h].state = "connack"
    <3> DEFINE m == [M EXCEPT !.state = "none", !.sems = M.sems \cup {"CONNACK"}]
    <3>1. /\ m \in ClientType /\ m.life = M.life /\ m.fd = M.fd /\ m.connected = M.connected
          /\ m.state = "none" /\ m.queue = M.queue /\ m.pack = M.pack /\ m.sems = M.sems \cup {"CONNACK"}
      BY <2>1 DEF ClientType, Sems
    <3>2. c' = [c EXCEPT ![h] = m]
      BY <1>3, <2>1, <2>4 DEF Typed
    <3> HIDE DEF m
    <3>3. M' = m
      BY <2>1, <3>2 DEF Typed, M
    <3>4. Calm
      BY <1>3, <2>1, <3>1, <3>2, CalmOne
    <3>5. Faults(M, M')
      BY <1>3, <2>1, <2>4, <3>1, <3>3 DEF Faults, SameClient
    <3>6. OwnView
      BY <2>1, <2>2, <3>5, RunRests DEF OwnView, View
    <3>7. OwnFault
      BY <1>0, <1>3, <2>1 DEF OwnFault, FlowInv, RunInv
    <3>8. RunInv'
      BY <2>2, RunRests
    <3> QED BY <3>4, <3>6, <3>7, <3>8
  <2> QED BY <2>3, <2>4
<1>4. ASSUME NEW h \in Live, ~tostop, Found(run.sock, h), c[h].queue,
             run' = [run EXCEPT !.pc = "callback", !.h = h, !.sock = 0],
             UNCHANGED <<c, net, running, tostop>>
      PROVE  Calm /\ OwnView /\ OwnFault /\ RunInv'
  <2>1. /\ h = client /\ client # 0 /\ M' = M /\ N' = N /\ M.queue /\ M.life = "live"
    BY <1>4, FoundClient DEF M, N
  <2>2. run'.pc = "callback" /\ run'.h = client /\ run'.pack = run.pack
    BY <1>4, <2>1 DEF Typed, RunType
  <2>3. Calm
    BY <1>4, CalmOne
  <2>4. Carried' = Carried
    BY <1>0, <1>4, <2>2 DEF Carried, Carrying
  <2>5. OwnView /\ OwnFault
    BY <2>1, <2>4 DEF OwnView, OwnFault, View
  <2>6. \A t \in Threads : ~Connecting(t)
    BY <2>1 DEF FlowInv, CallerInv, ConnectInv, ConnectFlow
  <2>7. c'[run'.h].life # "none"
    BY <1>4, <2>1, <2>2 DEF M
  <2>8. RunInv'
    BY <1>0, <2>2, <2>6, <2>7 DEF RunInv
  <2> QED BY <2>3, <2>5, <2>8
<1>5. ASSUME NEW h \in Live, ~tostop, Found(run.sock, h), c' = [c EXCEPT ![h] = Posted(c[h], h)],
             net' = net, Again(FALSE)
      PROVE  Calm /\ OwnView /\ OwnFault /\ RunInv'
  <2>1. h = client /\ client # 0 /\ M = c[h] /\ M \in ClientType
    BY <1>5, FoundClient, ClientHandle DEF M
  <2>2. run' = RunLoop /\ running' /\ ~tostop'
    BY <1>0, <1>5 DEF Again
  <2> QED BY <1>0, <1>5, <2>1, <2>2, PostFlow
<1> DEFINE Closing(h) == c[h].connected /\ CloseSession(h) /\ Again(Last(running, c'))
           Faulting(h) == /\ run.rc = "error" /\ ~c[h].connected
                          /\ c' = IF c[h].state = "connack"
                                  THEN [c EXCEPT ![h].state = "none", ![h].sems = c[h].sems \cup {"CONNACK"}]
                                  ELSE c
                          /\ net' = net /\ Again(FALSE)
           Calling(h) == /\ c[h].queue /\ UNCHANGED <<c, net, running, tostop>>
                         /\ run' = [run EXCEPT !.pc = "callback", !.h = h, !.sock = 0]
           Posting(h) == c' = [c EXCEPT ![h] = Posted(c[h], h)] /\ net' = net /\ Again(FALSE)
<1>6. \/ UNCHANGED <<c, net>> /\ ((tostop /\ Again(TRUE)) \/ (~tostop /\ Again(FALSE)))
      \/ \E h \in Live : ~tostop /\ Found(run.sock, h)
                         /\ (Closing(h) \/ Faulting(h) \/ Calling(h) \/ Posting(h))
  BY Zenon DEF RunTurn
<1>7. ASSUME NEW h \in Live, ~tostop, Found(run.sock, h) PROVE
        /\ Closing(h) => Calm /\ OwnView /\ OwnFault /\ RunInv'
        /\ Faulting(h) => Calm /\ OwnView /\ OwnFault /\ RunInv'
        /\ Calling(h) => Calm /\ OwnView /\ OwnFault /\ RunInv'
        /\ Posting(h) => Calm /\ OwnView /\ OwnFault /\ RunInv'
  BY <1>2, <1>3, <1>4, <1>5, <1>7, Zenon
<1> HIDE DEF Closing, Faulting, Calling, Posting
<1> QED BY <1>1, <1>6, <1>7

LEMMA CallbackFlow ==
  ASSUME SafeInv, Typed, PlaceInv, FlowInv, CallbackReturns, UNCHANGED <<client, calls>>
  PROVE  Calm /\ OwnView /\ OwnFault /\ RunInv'
<1>0. /\ run.pc = "callback" /\ running /\ run.h \in Handle
      /\ \A t \in Threads : Connecting(t)' <=> Connecting(t)
      /\ Carried = IF run.h = client THEN run.pack ELSE None
  BY DEF CallbackReturns, SafeInv, ThreadInv, Connecting, Opening, Carried, Carrying
<1>1. CASE Undefined
  <2>1. UNCHANGED <<c, net, running, tostop, run>> /\ M' = M /\ N' = N /\ Carried' = Carried
    BY <1>1 DEF Undefined, M, N, Carried, Carrying
  <2>2. Calm
    BY <2>1, CalmOne
  <2>3. OwnView /\ OwnFault
    BY <2>1 DEF OwnView, OwnFault, View
  <2>5. RunInv'
    BY <1>0, <2>1 DEF FlowInv, RunInv
  <2> QED BY <2>2, <2>3, <2>5
<1>2. ASSUME c' = [c EXCEPT ![run.h] = Posted([c[run.h] EXCEPT !.queue = FALSE], run.h)],
             Again(tostop), net' = net
      PROVE  Calm /\ OwnView /\ OwnFault /\ RunInv'
  <2>1. run' = RunLoop \/ run' = NoRun
    BY <1>2 DEF Again
  <2>2. c[run.h] \in ClientType /\ [c[run.h] EXCEPT !.queue = FALSE] \in ClientType
    <3>1. c[run.h] \in ClientType
      BY <1>0 DEF Typed
    <3> QED BY <3>1 DEF ClientType
  <2>3. CASE run.h = client
    <3>1. client # 0 /\ M = c[run.h]
      BY <1>0, <2>3, Constants DEF M, Handle
    <3>2. \A t \in Threads : ~Connecting(t)
      BY <1>0, <2>3 DEF FlowInv, RunInv
    <3> DEFINE k == [M EXCEPT !.queue = FALSE]
    <3>3. k \in ClientType /\ c' = [c EXCEPT ![client] = Posted(k, client)]
      BY <1>2, <2>2, <2>3, <3>1
    <3>4. k \in {M, [M EXCEPT !.queue = FALSE]}
      OBVIOUS
    <3> HIDE DEF k
    <3> QED BY <1>0, <1>2, <2>1, <2>3, <3>1, <3>2, <3>3, <3>4, PostFlow
  <2>4. CASE run.h # client
    <3> DEFINE h == run.h
               k == [c[h] EXCEPT !.queue = FALSE]
               m == Posted(k, h)
    <3>1. /\ m \in ClientType /\ m.life = c[h].life /\ m.fd = c[h].fd
          /\ m.connected = c[h].connected /\ m.state \in {c[h].state, "none"}
      BY <2>2, PostedView
    <3>2. c' = [c EXCEPT ![h] = m]
      BY <1>2
    <3> HIDE DEF m, k
    <3>3. Calm
      BY <1>0, <1>2, <3>1, <3>2, CalmOne
    <3>4. client # 0 => M' = M /\ N' = N
      BY <1>0, <1>2, <2>4, <3>2, ClientHandle DEF Typed, M, N
    <3>5. Carried' = None
      BY <2>1, RunRests
    <3>6. OwnView
      BY <3>4, <3>5 DEF OwnView, View
    <3>7. OwnFault
      BY <3>4, ClientHandle DEF OwnFault, Connecting
    <3>8. \A t \in Threads : Connecting(t)' /\ calls'[t].version = 4 =>
            (tostop' \/ ~running' => M'.pack = None)
      <4>1. tostop' \/ ~running' => tostop \/ ~running
        BY <1>0, <1>2 DEF Again
      <4>2. \A t \in Threads : Connecting(t) => client # 0
        BY ClientHandle DEF Connecting
      <4> QED BY <1>0, <3>4, <4>1, <4>2 DEF FlowInv, RunInv
    <3> QED BY <2>1, <3>3, <3>6, <3>7, <3>8, RunRests
  <2> QED BY <2>3, <2>4
<1> QED BY <1>1, <1>2 DEF CallbackReturns

LEMMA BrokerFlow ==
  ASSUME SafeInv, Typed, FlowInv, Broker
  PROVE  Calm /\ OwnView /\ OwnFault /\ RunInv'
<1>0. /\ UNCHANGED <<client, c, run, calls, running, tostop>>
      /\ M' = M /\ N = net[client] /\ N' = net'[client] /\ M = c[client] /\ Carried' = Carried
  BY DEF Broker, library, M, N, Carried, Carrying
<1>1. PICK h \in Live :
        \/ /\ net[h].tcp = "connecting"
           /\ \E end \in {"up", "failed"} : net' = [net EXCEPT ![h].tcp = end]
        \/ /\ net[h].tcp = "up" /\ Of("CONNACK") \in net[h].asked
           /\ \E ok \in BOOLEAN :
                net' = [net EXCEPT ![h] = [[net[h] EXCEPT !.in = Append(net[h].in, [Of("CONNACK") EXCEPT !.ok = ok])]
                                             EXCEPT !.asked = {}, !.accepted = ok]]
        \/ /\ net[h].tcp = "up"
           /\ \E a \in net[h].asked :
                a.type \in Acks /\ net' = [net EXCEPT ![h] = [[net[h] EXCEPT !.in = Append(net[h].in, a)]
                                             EXCEPT !.asked = @ \ {a}]]
        \/ /\ net[h].tcp = "up" /\ c[h].connected
           /\ net' = [net EXCEPT ![h] = [net[h] EXCEPT !.in = Append(net[h].in, Of("PUBLISH"))]]
        \/ /\ net[h].tcp = "up"
           /\ \E kept \in {<<>>, net[h].in} :
                net' = [net EXCEPT ![h] = [net[h] EXCEPT !.tcp = "failed", !.in = kept, !.asked = {}]]
  BY Zenon DEF Broker
<1> DEFINE n == net[h]
           n1 == net'[h]
<1>2. h \in Handle /\ c[h].life = "live" /\ n \in NetType
  BY DEF Live, Typed
<1>3. ASSUME NEW e, net' = [net EXCEPT ![h] = e]
      PROVE  n1 = e /\ \A g \in Handle : g # h => net'[g] = net[g]
  BY <1>2, <1>3 DEF Typed
<1> HIDE DEF n1
<1>4. BrokerView(n, c[h], n1) /\ \A g \in Handle : g # h => net'[g] = net[g]
  <2>1. ASSUME n.tcp = "connecting", NEW end \in {"up", "failed"}, net' = [net EXCEPT ![h].tcp = end]
        PROVE  BrokerView(n, c[h], n1) /\ \A g \in Handle : g # h => net'[g] = net[g]
    <3>1. n1 = [n EXCEPT !.tcp = end] /\ \A g \in Handle : g # h => net'[g] = net[g]
      BY <1>2, <2>1 DEF Typed, n1
    <3>2. n1.in = n.in /\ n1.asked = n.asked /\ n1.accepted = n.accepted
      BY <1>2, <3>1 DEF NetType
    <3> QED BY <2>1, <3>1, <3>2 DEF BrokerView, Connects
  <2>2. ASSUME n.tcp = "up", Of("CONNACK") \in n.asked, NEW ok \in BOOLEAN,
               net' = [net EXCEPT ![h] = [[n EXCEPT !.in = Append(n.in, [Of("CONNACK") EXCEPT !.ok = ok])]
                                            EXCEPT !.asked = {}, !.accepted = ok]]
        PROVE  BrokerView(n, c[h], n1) /\ \A g \in Handle : g # h => net'[g] = net[g]
    <3> DEFINE p == [Of("CONNACK") EXCEPT !.ok = ok]
    <3>1. p \in Connacks /\ p.ok = ok
      <4>1. p \in Packet
        BY Constants
      <4>2. p.type = "CONNACK" /\ p.ok = ok
        BY DEF Of, None
      <4> QED BY <4>1, <4>2 DEF Connacks
    <3>2. n1 = [[n EXCEPT !.in = Append(n.in, p)] EXCEPT !.asked = {}, !.accepted = ok]
      BY <1>3, <2>2
    <3>3. p \in Packet
      BY <3>1 DEF Connacks
    <3> HIDE DEF p
    <3>4. n1.tcp = "up" /\ n1.in = Append(n.in, p) /\ n1.asked = {} /\ n1.accepted = p.ok
      BY <1>2, <2>2, <3>1, <3>2 DEF NetType
    <3>5. Answers(n, n1)
      BY <2>2, <3>1, <3>3, <3>4 DEF Answers
    <3> QED BY <1>3, <2>2, <3>5 DEF BrokerView
  <2>3. ASSUME n.tcp = "up", NEW a \in n.asked, a.type \in Acks,
               net' = [net EXCEPT ![h] = [[n EXCEPT !.in = Append(n.in, a)] EXCEPT !.asked = @ \ {a}]]
        PROVE  BrokerView(n, c[h], n1) /\ \A g \in Handle : g # h => net'[g] = net[g]
    <3>1. n1 = [[n EXCEPT !.in = Append(n.in, a)] EXCEPT !.asked = @ \ {a}]
      BY <1>3, <2>3
    <3>2. /\ n1.tcp = "up" /\ n1.in = Append(n.in, a) /\ n1.asked = n.asked \ {a}
          /\ n1.accepted = n.accepted
      BY <1>2, <2>3, <3>1 DEF NetType
    <3>3. a \in Packet
      BY <1>2 DEF NetType
    <3>4. Answers(n, n1)
      BY <2>3, <3>2, <3>3 DEF Answers
    <3> QED BY <1>3, <2>3, <3>4 DEF BrokerView
  <2>4. ASSUME n.tcp = "up", c[h].connected,
               net' = [net EXCEPT ![h] = [n EXCEPT !.in = Append(n.in, Of("PUBLISH"))]]
        PROVE  BrokerView(n, c[h], n1) /\ \A g \in Handle : g # h => net'[g] = net[g]
    <3>1. n1 = [n EXCEPT !.in = Append(n.in, Of("PUBLISH"))]
      BY <1>3, <2>4
    <3>2. Publishes(n, n1)
      BY <1>2, <2>4, <3>1 DEF NetType, Publishes, SameNet
    <3>3. Up(c[h])
      BY <1>2, <2>4 DEF Up
    <3> QED BY <1>3, <2>4, <3>2, <3>3 DEF BrokerView
  <2>5. ASSUME n.tcp = "up", NEW kept \in {<<>>, n.in},
               net' = [net EXCEPT ![h] = [n EXCEPT !.tcp = "failed", !.in = kept, !.asked = {}]]
        PROVE  BrokerView(n, c[h], n1) /\ \A g \in Handle : g # h => net'[g] = net[g]
    <3>1. n1 = [n EXCEPT !.tcp = "failed", !.in = kept, !.asked = {}]
      BY <1>3, <2>5
    <3>2. Fails(n, n1)
      BY <1>2, <2>5, <3>1 DEF NetType, Fails
    <3> QED BY <1>3, <2>5, <3>2 DEF BrokerView
  <2> QED BY <1>1, <2>1, <2>2, <2>3, <2>4, <2>5
<1>5. Calm
  BY <1>0, <1>2, <1>4 DEF Calm
<1>6. client # 0 => N' = N \/ BrokerView(N, M, N')
  BY <1>0, <1>4, ClientHandle DEF n1
<1>7. OwnView /\ OwnFault
  BY <1>0, <1>6 DEF OwnView, OwnFault, View
<1>8. client # 0 /\ N.tcp = "failed" => N' = N
  BY <1>6 DEF BrokerView, Connects, Answers, Fails, Publishes
<1>9. RunInv'
  <2>1. \A t \in Threads : (Connecting(t)' <=> Connecting(t)) /\ (Connecting(t) => client # 0)
    BY <1>0, ClientHandle DEF Connecting, Opening
  <2>2. Serving' <=> Serving
    BY <1>0, <2>1 DEF Serving
  <2> QED BY <1>0, <1>8, <2>1, <2>2 DEF FlowInv, RunInv
<1> QED BY <1>5, <1>7, <1>9

\* Neither the thread nor the network disturbs the flow.
LEMMA RunFlow ==
  ASSUME SafeInv, Typed, PlaceInv, FlowInv, Run \/ Broker
  PROVE  FlowInv'
<1>1. UNCHANGED <<client, calls, stray, late>>
  BY DEF Run, Broker
<1>2. Calm /\ OwnView /\ OwnFault /\ RunInv'
  BY <1>1, SelectFlow, CycleFlow, TurnFlow, CallbackFlow, BrokerFlow DEF Run
<1> QED BY <1>1, <1>2, FlowCalm

-----------------------------------------------------------------------------
(* The steps of a caller that waits *)

\* The call v becomes v1, its handle m becomes m1, the flag late is l and becomes l1.
SameCall(v, v1) == v1.for = v.for /\ v1.h = v.h /\ v1.version = v.version
Begins(v, v1) ==
    \/ v1.pc \in {"wait", "poll"} /\ v1.rc = v.rc /\ v1.expired = v.expired
    \/ v.for.type \notin Acks /\ v1.pc = "got" /\ v1.rc = "error" /\ v1.got = None /\ v1.expired = TRUE
Takes(v, v1, m, m1) ==
    /\ v.for.type \in m.sems /\ m1 = [m EXCEPT !.sems = m.sems \ {v.for.type}]
    /\ v1.pc = "read" /\ v1.expired = v.expired
    /\ v1.rc = IF v.for.type = "CONNECT" THEN m.rc ELSE "ok"
GivesUp(v, v1, m, m1) ==
    m1 = m /\ v1.pc = "read" /\ v1.rc = "timeout" /\ v1.expired = (v.for.type \notin Acks)
Waits(v, v1, m, m1, l, l1) ==
    /\ SameCall(v, v1)
    /\ \/ v.pc = "begin" /\ Begins(v, v1) /\ m1 = m /\ l1 = l
       \/ v.pc = "wait" /\ (Takes(v, v1, m, m1) \/ GivesUp(v, v1, m, m1)) /\ l1 = l
       \/ /\ v.pc = "read" /\ v1.pc = "got" /\ v1.got = m.pack /\ m1 = m
          /\ v1.rc = v.rc /\ v1.expired = v.expired
          /\ l1 = (l \/ (v.rc = "timeout" /\ m.pack # None))

LEMMA ConnectWaits ==
  ASSUME NEW n \in NetType, NEW m \in ClientType, NEW k, NEW v \in CallType, NEW v1, NEW m1,
         NEW l \in BOOLEAN, NEW l1, ConnectInv(v, n, m, k), Waits(v, v1, m, m1, l, l1),
         v.for.type \in {"CONNECT", "CONNACK"}
  PROVE  ConnectInv(v1, n, m1, k)
<1>1. v.for.type \notin Acks
  BY AckTypes
<1>2. /\ v1.for = v.for /\ v1.version = v.version /\ v1.pc \in {"wait", "poll", "read", "got"}
      /\ m1.pack = m.pack /\ m1.state = m.state /\ m1.queue = m.queue /\ m1.sems \subseteq m.sems
      /\ v1.pc = "got" => v1.got \in {None, m.pack}
      /\ v.pc \in {"begin", "wait", "read"}
  BY <1>1 DEF Waits, SameCall, Begins, Takes, GivesUp, ClientType
<1>3. ConnectFlow(v1, n, m1, k)
  BY <1>2 DEF ConnectInv, ConnectFlow
<1>4. ConnectEarly(v1, n, m1, k)
  BY <1>2 DEF ConnectInv, ConnectEarly, Early, Counted
<1>5. ConnectLate(v1, n, m1, k)
  BY <1>2 DEF ConnectInv, ConnectLate, Counted
<1>6. ASSUME v.for.type = "CONNACK", v.version = 4, ~v1.expired
      PROVE  /\ v1.pc = "read" => v1.rc = "ok"
             /\ "CONNACK" \in m1.sems \/ v1.pc = "read" => Dead(n, m1, k) \/ m1.pack # None
             /\ v1.pc = "got" => Dead(n, m1, k) \/ v1.got # None
  <2>1. /\ "CONNACK" \in m.sems \/ v.pc = "read" => Dead(n, m, k) \/ m.pack # None
        /\ ~v.expired
    BY <1>1, <1>6 DEF Waits, Begins, Takes, GivesUp, ConnectInv, ConnectFirst
  <2>2. Dead(n, m, k) => Dead(n, m1, k)
    BY <1>2 DEF Dead
  <2> QED BY <1>1, <1>2, <1>6, <2>1, <2>2 DEF Waits, Begins, Takes, GivesUp
<1>7. ConnectFirst(v1, n, m1, k)
  BY <1>2, <1>6 DEF ConnectFirst
<1> QED BY <1>3, <1>4, <1>5, <1>7 DEF ConnectInv

LEMMA AskWaits ==
  ASSUME NEW n \in NetType, NEW m \in ClientType, NEW k, NEW v \in CallType, NEW v1, NEW m1,
         NEW l \in BOOLEAN, NEW l1, AskInv(v, n, m, k, l), Waits(v, v1, m, m1, l, l1),
         v.for.type \in Acks
  PROVE  AskInv(v1, n, m1, k, l1)
<1>1. v.for.type # "CONNECT" /\ v.for # None
  BY AckTypes, NoneFacts
<1>2. /\ v1.for = v.for /\ v1.pc \in {"wait", "poll", "read", "got"}
      /\ m1.pack = m.pack /\ m1.sems \subseteq m.sems
      /\ v1.pc = "got" => v.pc = "read" /\ v1.got = m.pack
      /\ v.pc \in {"begin", "wait", "read"}
      /\ ~l1 => ~l
  BY <1>1 DEF Waits, SameCall, Begins, Takes, GivesUp, ClientType
<1>3. AskFlow(v1, n, m1, k)
  BY <1>2 DEF AskInv, AskFlow
<1>4. ASSUME ~l1 PROVE AskPosted(v1, m1, l1)
  <2>1. /\ m.sems \cap Acks # {} => m.sems \cap Acks = {v.for.type} /\ m.pack = v.for /\ Untaken(v)
        /\ v.pc = "read" => v.rc = "timeout" \/ (v.rc = "ok" /\ m.pack = v.for)
    BY <1>2, <1>4 DEF AskInv, AskPosted
  <2>2. CASE v.pc = "begin"
    BY <1>1, <1>2, <2>1, <2>2 DEF Waits, Begins, AskPosted, Untaken
  <2>3. CASE v.pc = "wait" /\ Takes(v, v1, m, m1)
    <3>1. m1.sems = m.sems \ {v.for.type} /\ m1.pack = m.pack /\ v1.pc = "read" /\ v1.rc = "ok"
      BY <1>1, <2>3 DEF Takes, ClientType
    <3>2. m.sems \cap Acks = {v.for.type} /\ m.pack = v.for
      BY <2>1, <2>3 DEF Takes
    <3>3. m1.sems \cap Acks = {}
      BY <3>1, <3>2
    <3> QED BY <1>2, <3>1, <3>2, <3>3 DEF AskPosted
  <2>4. CASE v.pc = "wait" /\ GivesUp(v, v1, m, m1)
    BY <1>2, <2>1, <2>4 DEF GivesUp, AskPosted, Untaken
  <2>5. CASE v.pc = "read"
    <3>1. m1 = m /\ v1.pc = "got" /\ v1.got = m.pack /\ v1.rc = v.rc /\ ~(v.rc = "timeout" /\ m.pack # None)
      BY <1>4, <2>5 DEF Waits
    <3>2. m.sems \cap Acks = {}
      BY <1>1, <2>1, <2>5, <3>1 DEF Untaken
    <3> QED BY <1>1, <1>2, <2>1, <2>5, <3>1, <3>2 DEF AskPosted
  <2> QED BY <1>2, <2>2, <2>3, <2>4, <2>5 DEF Waits
<1> QED BY <1>2, <1>3, <1>4 DEF AskInv, AskPosted

\* What does not depend on who waits for what.
LEMMA SameSockets ==
  ASSUME SafeInv, Typed, FlowInv, UNCHANGED <<client, run, tostop, running, net>>,
         \A u \in Threads : /\ Connecting(u)' <=> Connecting(u)
                            /\ Connecting(u) => calls'[u].version = calls[u].version,
         \A h \in Handle : /\ c'[h].life = c[h].life /\ c'[h].fd = c[h].fd /\ c'[h].pack \in {c[h].pack, None}
                           /\ c'[h].connected = c[h].connected /\ c'[h].state = c[h].state
  PROVE  SocketInv' /\ RunInv' /\ Carried' = Carried
<1>1. /\ client # 0 => client \in Handle
      /\ M = c[client] /\ M' = c'[client] /\ N = net[client] /\ N' = N
      /\ \A u \in Threads : Connecting(u) => client # 0
  BY ClientHandle DEF M, N, Connecting
<1>2. Serving' <=> Serving
  BY <1>1 DEF Serving, Up
<1>3. Carried' = Carried
  BY DEF Carried, Carrying
<1>4. SocketInv'
  <2>1. SocketInv
    BY DEF FlowInv
  <2>2. \A h \in Handle : c'[h].fd # 0 => h = client' /\ Serving'
    BY <1>2, <2>1 DEF SocketInv
  <2>3. /\ Serving' => M'.life = "live"
        /\ client' # 0 => M'.life # "none"
        /\ client' # 0 /\ M'.state # "none" => \E t \in Threads : Connecting(t)'
    BY <1>1, <1>2, <2>1 DEF SocketInv, Serving
  <2>4. \A h \in Handle : c'[h].life = "none" => net'[h] = NoNet
    BY <2>1 DEF SocketInv
  <2>5. client' # 0 => (Up(M') => N'.accepted /\ \A a \in N'.asked : a.type \in Acks)
    <3>1. client # 0 => (Up(M') <=> Up(M))
      BY <1>1 DEF Up
    <3> QED BY <1>1, <2>1, <3>1 DEF SocketInv
  <2> QED BY <2>2, <2>3, <2>4, <2>5 DEF SocketInv
<1>5. RunInv'
  <2>1. run.pc = "callback" => run.h \in Handle
    BY DEF SafeInv, ThreadInv
  <2> QED BY <1>1, <1>2, <2>1 DEF FlowInv, RunInv
<1> QED BY <1>3, <1>4, <1>5

LEMMA WaitIs ==
  ASSUME Typed, PlaceInv, NEW t \in Threads, Waitfor(t) \/ WaitEnds(t) \/ ReadPack(t)
  PROVE  LET h == calls[t].h IN
         /\ UNCHANGED <<client, net, run, running, tostop, stray>> /\ late' \in BOOLEAN /\ (late => late')
         /\ \A u \in Threads \ {t} : calls'[u] = calls[u]
         /\ \A g \in Handle : g # h => c'[g] = c[g]
         /\ h \in Handle /\ Waits(calls[t], calls'[t], c[h], c'[h], late, late')
<1> DEFINE v == calls[t]
           v1 == calls'[t]
           h == calls[t].h
<1>1. v \in CallType /\ c \in [Handle -> ClientType] /\ late \in BOOLEAN /\ calls \in [Threads -> CallType]
  BY DEF Typed
<1>2. h \in Handle
  BY DEF PlaceInv, Waiting, Waitfor, WaitEnds, ReadPack
<1>3. /\ UNCHANGED <<client, net, run, running, tostop, stray>>
      /\ late' \in BOOLEAN /\ (late => late')
  BY <1>1 DEF Waitfor, WaitEnds, ReadPack, library
<1>4. CASE Waitfor(t)
  <2>1. /\ v.pc = "begin" /\ UNCHANGED <<c, late>>
        /\ \/ calls' = [calls EXCEPT ![t].pc = IF running THEN "wait" ELSE "poll"]
           \/ /\ v.for.type \notin Acks
              /\ calls' = [calls EXCEPT ![t].pc = "got", ![t].rc = "error", ![t].got = None,
                                        ![t].expired = TRUE]
    BY <1>4 DEF Waitfor
  <2>2. /\ SameCall(v, v1) /\ Begins(v, v1) /\ \A u \in Threads \ {t} : calls'[u] = calls[u]
    BY <1>1, <2>1 DEF CallType, SameCall, Begins
  <2> QED BY <1>2, <1>3, <2>1, <2>2 DEF Waits
<1>5. CASE WaitEnds(t)
  <2>0. v.pc = "wait" /\ late' = late
    BY <1>5 DEF WaitEnds
  <2>1. CASE /\ v.for.type \in c[h].sems
             /\ c' = [c EXCEPT ![h].sems = c[h].sems \ {v.for.type}]
             /\ calls' = [calls EXCEPT ![t].pc = "read",
                                       ![t].rc = IF v.for.type = "CONNECT" THEN c[h].rc ELSE "ok"]
    <3>1. c'[h] = [c[h] EXCEPT !.sems = c[h].sems \ {v.for.type}] /\ \A g \in Handle : g # h => c'[g] = c[g]
      BY <1>1, <1>2, <2>1
    <3>2. /\ SameCall(v, v1) /\ Takes(v, v1, c[h], c'[h]) /\ \A u \in Threads \ {t} : calls'[u] = calls[u]
      BY <1>1, <2>1, <3>1 DEF CallType, SameCall, Takes
    <3> QED BY <1>2, <1>3, <2>0, <3>1, <3>2 DEF Waits
  <2>2. CASE /\ calls' = [calls EXCEPT ![t].pc = "read", ![t].rc = "timeout",
                                       ![t].expired = v.for.type \notin Acks]
             /\ UNCHANGED c
    <3>2. /\ SameCall(v, v1) /\ GivesUp(v, v1, c[h], c'[h]) /\ \A u \in Threads \ {t} : calls'[u] = calls[u]
      BY <1>1, <2>2 DEF CallType, SameCall, GivesUp
    <3> QED BY <1>2, <1>3, <2>0, <2>2, <3>2 DEF Waits
  <2> QED BY <1>5, <2>1, <2>2 DEF WaitEnds
<1>6. CASE ReadPack(t)
  <2>1. /\ v.pc = "read" /\ c' = c
        /\ calls' = [calls EXCEPT ![t].pc = "got", ![t].got = c[h].pack]
        /\ late' = IF v.rc = "timeout" /\ c[h].pack # None THEN TRUE ELSE late
    BY <1>6 DEF ReadPack
  <2>2. /\ SameCall(v, v1) /\ v1.pc = "got" /\ v1.got = c[h].pack /\ v1.rc = v.rc /\ v1.expired = v.expired
        /\ \A u \in Threads \ {t} : calls'[u] = calls[u]
    BY <1>1, <2>1 DEF CallType, SameCall
  <2>3. late' = (late \/ (v.rc = "timeout" /\ c[h].pack # None))
    BY <1>1, <2>1
  <2> QED BY <1>2, <1>3, <2>1, <2>2, <2>3 DEF Waits
<1> QED BY <1>4, <1>5, <1>6

LEMMA WaitFlow ==
  ASSUME SafeInv, Typed, PlaceInv, FlowInv, NEW t \in Threads, Waitfor(t) \/ WaitEnds(t) \/ ReadPack(t)
  PROVE  FlowInv'
<1> DEFINE h == calls[t].h
<1>1. /\ UNCHANGED <<client, net, run, running, tostop, stray>> /\ late' \in BOOLEAN /\ (late => late')
      /\ \A u \in Threads \ {t} : calls'[u] = calls[u]
      /\ \A g \in Handle : g # h => c'[g] = c[g]
      /\ h \in Handle /\ Waits(calls[t], calls'[t], c[h], c'[h], late, late')
  BY WaitIs
<1>2. /\ calls[t] \in CallType /\ c[h] \in ClientType /\ late \in BOOLEAN
  BY <1>1 DEF Typed
<1>3. /\ SameCall(calls[t], calls'[t]) /\ calls'[t].pc \in {"wait", "poll", "read", "got"}
      /\ calls[t].pc \in {"begin", "wait", "read"}
  BY <1>1 DEF Waits, Begins, Takes, GivesUp
<1>4. \A u \in Threads : /\ (Connecting(u)' <=> Connecting(u)) /\ (Asks(u)' <=> Asks(u))
                         /\ (Opening(u)' <=> Opening(u)) /\ (Alone(u)' <=> Alone(u))
                         /\ calls'[u].version = calls[u].version
  BY <1>1, <1>3 DEF Connecting, Opening, Asks, Alone, Leaving, SameCall
<1>5. \A g \in Handle : /\ c'[g].life = c[g].life /\ c'[g].fd = c[g].fd /\ c'[g].pack = c[g].pack
                        /\ c'[g].connected = c[g].connected /\ c'[g].state = c[g].state
  <2>1. /\ c'[h].life = c[h].life /\ c'[h].fd = c[h].fd /\ c'[h].pack = c[h].pack
        /\ c'[h].connected = c[h].connected /\ c'[h].state = c[h].state
    BY <1>1, <1>2 DEF Waits, Takes, GivesUp, ClientType
  <2> QED BY <1>1, <2>1
<1>6. SocketInv' /\ RunInv' /\ Carried' = Carried
  BY <1>1, <1>4, <1>5, SameSockets
<1>7. AskersInv'
  BY <1>1, <1>3, <1>4, <1>5 DEF FlowInv, AskersInv, SameCall, Up
<1>8. /\ client # 0 => client \in Handle /\ M \in ClientType /\ N \in NetType
      /\ \A u \in Threads : Connecting(u) => client # 0
      /\ M = c[client] /\ M' = c'[client] /\ N' = N
  BY <1>1, ClientHandle DEF M, N, Connecting
\* Who waits for something else than an answer changes nothing of the handle.
<1>9. M' = M \/ (h = client /\ (Opening(t) \/ Asks(t))) \/ client = 0
  <2>1. CASE c'[h] = c[h]
    BY <1>1, <1>8, <2>1
  <2>2. CASE calls[t].for.type \in c[h].sems
    <3>1. calls[t].for.type \in Sems
      BY <1>2, <2>2 DEF ClientType
    <3>2. Opening(t) \/ Asks(t)
      BY <1>3, <3>1 DEF Sems, Opening, Asks
    <3> QED BY <1>1, <1>8, <3>2
  <2> QED BY <1>1, <2>1, <2>2 DEF Waits, Takes, GivesUp
<1>10. ASSUME NEW u \in Threads, Connecting(u)' PROVE ConnectInv(calls'[u], N', M', Carried')
  <2>1. Connecting(u) /\ ConnectInv(calls[u], N, M, Carried)
    BY <1>4, <1>10 DEF FlowInv, CallerInv
  <2>2. u = t
    BY <1>3, <2>1 DEF Connecting, SafeInv, CallsInv, Alone
  <2>3. h = client /\ calls[t].for.type \in {"CONNECT", "CONNACK"}
    BY <1>3, <2>1, <2>2 DEF Connecting, Opening, SafeInv, CallsInv
  <2>4. client # 0 /\ M \in ClientType /\ N \in NetType /\ M = c[h] /\ M' = c'[h]
    BY <1>8, <2>1, <2>3
  <2> QED BY <1>1, <1>2, <1>6, <1>8, <2>1, <2>2, <2>3, <2>4, ConnectWaits
<1>11. ASSUME NEW u \in Threads, Asks(u)', ~stray' PROVE AskInv(calls'[u], N', M', Carried', late')
  <2>1. Asks(u) /\ AskInv(calls[u], N, M, Carried, late) /\ client # 0 /\ calls[u].h = client
    BY <1>1, <1>4, <1>11 DEF FlowInv, CallerInv, AskersInv
  <2>2. M \in ClientType /\ N \in NetType
    BY <1>8, <2>1
  <2>3. CASE u = t
    <3>1. h = client /\ calls[t].for.type \in Acks /\ M = c[h] /\ M' = c'[h]
      BY <1>8, <2>1, <2>3 DEF Asks
    <3> QED BY <1>1, <1>2, <1>6, <1>8, <2>1, <2>2, <2>3, <3>1, AskWaits
  <2>4. CASE u # t
    <3>1. ~Asks(t) /\ ~Opening(t)
      BY <1>1, <1>11, <2>1, <2>4 DEF FlowInv, AskersInv, SafeInv, CallsInv, Alone
    <3>2. M' = M /\ calls'[u] = calls[u]
      BY <1>1, <1>9, <2>1, <2>4, <3>1
    <3> QED BY <1>1, <1>6, <1>8, <2>1, <3>2 DEF AskInv, AskPosted
  <2> QED BY <2>3, <2>4
<1>12. ASSUME client' # 0, Up(M'), ~stray', \A u \in Threads : ~Asks(u)'
       PROVE  IdleInv(N', M', Carried', late')
  <2>1. Up(M) /\ client # 0 /\ ~stray /\ \A u \in Threads : ~Asks(u)
    BY <1>1, <1>4, <1>5, <1>8, <1>12 DEF Up
  <2>2. ~Opening(t)
    BY <2>1, ClientHandle
  <2>3. M' = M
    BY <1>9, <2>1, <2>2
  <2>4. IdleInv(N, M, Carried, late)
    BY <2>1 DEF FlowInv, CallerInv
  <2> QED BY <1>1, <1>6, <1>8, <2>3, <2>4 DEF IdleInv
<1>13. CallerInv'
  BY <1>10, <1>11, <1>12 DEF CallerInv
<1> QED BY <1>6, <1>7, <1>13 DEF FlowInv

-----------------------------------------------------------------------------
(* A cycle of a waiting caller *)

\* What the caller learns from it; n1 is what its cycle leaves of the connection.
Finds(v, v1, m, n, n1) ==
    \/ v1 = v
    \/ v1.pc = "got" /\ v1.got = None /\ v1.rc = "timeout" /\ v1.expired = TRUE
    \/ v1.pc = "got" /\ v1.got = None /\ v1.expired = v.expired /\ m.state = "tcp"
    \/ /\ v1.pc = "got" /\ v1.got = None /\ v1.expired = v.expired /\ v1.rc = "error"
       /\ n.tcp = "failed" /\ n.in = <<>> /\ n1 = n
    \/ /\ v1.pc = "got" /\ v1.rc = "ok" /\ v1.expired = v.expired
       /\ n.in # <<>> /\ Head(n.in).type = v.for.type /\ v1.got = Head(n.in)
       /\ n1.in = Tail(n.in) /\ SameNet(n, n1) /\ n1.asked = n.asked

LEMMA ConnectFinds ==
  ASSUME NEW n \in NetType, NEW m \in ClientType, NEW v \in CallType, NEW v1, NEW n1, NEW m1,
         ConnectInv(v, n, m, None), ConnectInv(v, n1, m1, None), Finds(v, v1, m, n, n1), SameCall(v, v1),
         v.pc = "poll", m1.pack = m.pack, v.version = 4 => m.pack = None
  PROVE  ConnectInv(v1, n1, m1, None)
<1>1. CASE v1 = v
  BY <1>1
<1>2. ASSUME v1.pc = "got", v1.got = None,
             v.for.type # "CONNACK" \/ v1.expired \/ (v1.expired = v.expired /\ (v.version = 4 => Dead(n1, m1, None)))
      PROVE  ConnectInv(v1, n1, m1, None)
  <2>1. v1.for = v.for /\ v1.version = v.version
    BY DEF SameCall
  <2>2. ConnectFlow(v1, n1, m1, None)
    BY <1>2 DEF ConnectInv, ConnectFlow
  <2>3. ConnectEarly(v1, n1, m1, None)
    BY <1>2, <2>1 DEF ConnectInv, ConnectEarly, Early, Counted
  <2>4. ConnectLate(v1, n1, m1, None)
    BY <1>2, <2>1 DEF ConnectInv, ConnectLate, Counted
  <2>5. ConnectFirst(v1, n1, m1, None)
    BY <1>2, <2>1 DEF ConnectInv, ConnectFirst
  <2> QED BY <2>2, <2>3, <2>4, <2>5 DEF ConnectInv
<1>3. CASE v1.pc = "got" /\ v1.got = None /\ v1.rc = "timeout" /\ v1.expired = TRUE
  BY <1>2, <1>3
<1>4. CASE v1.pc = "got" /\ v1.got = None /\ v1.expired = v.expired /\ m.state = "tcp"
  <2>1. v.for.type # "CONNACK"
    BY <1>4 DEF ConnectInv, ConnectLate
  <2> QED BY <1>2, <1>4, <2>1
<1>5. CASE /\ v1.pc = "got" /\ v1.got = None /\ v1.expired = v.expired /\ v1.rc = "error"
           /\ n.tcp = "failed" /\ n.in = <<>> /\ n1 = n
  <2>1. v.version = 4 => Dead(n1, m1, None)
    BY <1>5 DEF Dead
  <2> QED BY <1>2, <1>5, <2>1
<1>6. CASE /\ v1.pc = "got" /\ v1.rc = "ok" /\ v1.expired = v.expired
           /\ n.in # <<>> /\ Head(n.in).type = v.for.type /\ v1.got = Head(n.in)
           /\ n1.in = Tail(n.in) /\ SameNet(n, n1) /\ n1.asked = n.asked
  <2> DEFINE p == Head(n.in)
  <2>1. v1.for = v.for /\ v1.version = v.version
    BY DEF SameCall
  <2>2. p \in Packet /\ 1 \in DOMAIN n.in /\ p = n.in[1]
    BY <1>6 DEF NetType
  <2>3. p.type = "CONNACK" /\ v.for.type = "CONNACK"
    BY <1>6, <2>2 DEF ConnectInv, ConnectFlow
  <2>4. Flow(n, None, Connacks)
    BY DEF ConnectInv, ConnectFlow
  <2>5. Empty(n1, None)
    BY <1>6, <2>3, <2>4, FlowReads
  <2>6. p \in Connacks /\ p # None
    BY <2>2, <2>3, NoneFacts DEF Connacks
  <2>7. p.ok => n1.accepted
    BY <1>6, <2>2, <2>3, <2>6 DEF ConnectInv, ConnectLate, SameNet
  <2> HIDE DEF p
  <2>8. v1.got = p
    BY <1>6 DEF p
  <2>9. ConnectFlow(v1, n1, m1, None)
    BY <1>6, <2>6, <2>8 DEF ConnectInv, ConnectFlow
  <2>10. ConnectEarly(v1, n1, m1, None)
    BY <1>6, <2>1, <2>3 DEF ConnectInv, ConnectEarly, Early
  <2>11. ConnectLate(v1, n1, m1, None)
    BY <1>6, <2>1, <2>5, <2>7, <2>8 DEF ConnectInv, ConnectLate, Counted
  <2>12. ConnectFirst(v1, n1, m1, None)
    BY <1>6, <2>1, <2>6, <2>8 DEF ConnectInv, ConnectFirst
  <2> QED BY <2>9, <2>10, <2>11, <2>12 DEF ConnectInv
<1> QED BY <1>1, <1>3, <1>4, <1>5, <1>6 DEF Finds

LEMMA AskFinds ==
  ASSUME NEW m, NEW v \in CallType, NEW v1, NEW n, NEW n1, NEW n2, NEW m1, NEW l,
         AskInv(v, n1, m1, None, l), Finds(v, v1, m, n, n2), SameCall(v, v1),
         v.pc = "poll", m.state # "tcp", v1.pc = "got" => v1.rc # "ok"
  PROVE  AskInv(v1, n1, m1, None, l)
<1>1. CASE v1 = v
  BY <1>1
<1>2. CASE v1.pc = "got" /\ v1.got = None /\ v1.rc \in {"timeout", "error"}
  <2>1. v1.for = v.for
    BY DEF SameCall
  <2>2. AskFlow(v1, n1, m1, None)
    BY <1>2, <2>1 DEF AskInv, AskFlow
  <2>3. AskPosted(v1, m1, l)
    BY <1>2, <2>1 DEF AskInv, AskPosted, Untaken
  <2> QED BY <2>2, <2>3 DEF AskInv
<1> QED BY <1>1, <1>2 DEF Finds

LEMMA PollIs ==
  ASSUME SafeInv, Typed, FlowInv, NEW t \in Threads, Poll(t)
  PROVE  /\ UNCHANGED <<client, run, running, tostop, late>> /\ ~running /\ calls[t].pc = "poll"
         /\ run.pc = "none" /\ Carried = None /\ Carried' = None
         /\ \A u \in Threads \ {t} : calls'[u] = calls[u]
         /\ SameCall(calls[t], calls'[t]) /\ calls'[t].pc \in {"poll", "got"}
         /\ Calm /\ OwnView /\ (client # 0 => M'.sems = M.sems /\ M'.pack = M.pack)
         /\ client # 0 /\ calls[t].h = client /\ calls[t].for.type # "none" =>
              /\ \E n1 : Finds(calls[t], calls'[t], M, N, n1) /\ (Up(M) \/ N' = n1)
              /\ M.state # "tcp" /\ calls'[t].pc = "got" /\ calls'[t].rc = "ok"
                   /\ calls[t].for.type \in Acks => stray'
         /\ stray' \in BOOLEAN
         /\ (stray => stray') /\ (stray' = stray \/ (client # 0 /\ N.in # <<>> /\ Head(N.in).type \in Acks))
<1> DEFINE v == calls[t]
           h == calls[t].h
           got(rc, pack) == [calls EXCEPT ![t].pc = "got", ![t].rc = rc, ![t].got = pack]
<1>1. /\ UNCHANGED <<client, run, running, late>> /\ v.pc = "poll" /\ ~running
      /\ v \in CallType /\ calls \in [Threads -> CallType] /\ stray \in BOOLEAN
      /\ c \in [Handle -> ClientType] /\ net \in [Handle -> NetType]
  BY DEF Poll, Typed, SafeInv, CallsInv
<1>2. run.pc = "none" /\ Carried = None /\ Carried' = None
  BY <1>1 DEF SafeInv, ThreadInv, Carried, Carrying
<1>3. /\ M' = c'[client] /\ N' = net'[client] /\ M = c[client] /\ N = net[client]
      /\ client # 0 => client \in Handle
  BY <1>1, ClientHandle DEF M, N
<1>4. ASSUME NEW cs \in [Handle -> ClientType], NEW ns \in [Handle -> NetType], NEW gone \in SUBSET Live,
             KeptAlive(cs, ns, gone),
             \A g \in Handle : /\ cs[g].life = c[g].life /\ cs[g].connected = c[g].connected
                               /\ cs[g].state = c[g].state /\ cs[g].fd = c[g].fd
                               /\ cs[g].pack = c[g].pack /\ cs[g].sems = c[g].sems
                               /\ c[g].life = "none" => ns[g] = net[g],
             NEW k, client # 0 => \/ ns[client] = N /\ cs[client] = M
                                  \/ Reads(N, M, ns[client], cs[client], k)
      PROVE  /\ Calm /\ OwnView /\ tostop' = tostop /\ (client # 0 => M'.sems = M.sems /\ M'.pack = M.pack)
             /\ client # 0 => Up(M) \/ N' = ns[client]
  <2>1. /\ Calm
        /\ \A g \in Handle :
              \/ c'[g] = cs[g] /\ net'[g] = ns[g]
              \/ /\ Up(c[g]) /\ net'[g] = NoNet
                 /\ c'[g].pack = cs[g].pack /\ c'[g].sems = cs[g].sems /\ ~c'[g].connected
    BY <1>4, KeptAliveFlow
  <2>2. tostop' = tostop
    BY <1>1, <1>4 DEF KeptAlive, StopSelf, Last, Typed
  <2>3. client # 0 => M'.sems = M.sems /\ M'.pack = M.pack
    BY <1>3, <1>4, <2>1
  <2>4. client # 0 => Up(M) \/ N' = ns[client]
    BY <1>3, <2>1
  <2>5. OwnView
    <3> SUFFICES ASSUME client # 0 PROVE View(N, M, Carried, N', M', Carried')
      BY DEF OwnView
    <3>1. CASE M' = cs[client] /\ N' = ns[client]
      <4>1. CASE N' = N /\ M' = M
        BY <1>2, <4>1 DEF View
      <4>2. CASE Reads(N, M, N', M', k)
        <5>1. Reads(N, M, N', M', None)
          BY <4>2 DEF Reads
        <5> QED BY <1>2, <5>1 DEF View
      <4> QED BY <1>4, <3>1, <4>1, <4>2
    <3>2. CASE Up(M) /\ N' = NoNet /\ ~M'.connected /\ M'.pack = M.pack /\ M'.sems = M.sems
      BY <1>2, <3>2 DEF View, Closes
    <3> QED BY <1>3, <1>4, <2>1, <3>1, <3>2
  <2> QED BY <2>1, <2>2, <2>3, <2>4, <2>5
<1>5. ASSUME NEW rc, NEW pack, calls' = got(rc, pack)
      PROVE  /\ \A u \in Threads \ {t} : calls'[u] = calls[u]
             /\ SameCall(v, calls'[t]) /\ calls'[t].pc = "got" /\ calls'[t].rc = rc
             /\ calls'[t].got = pack /\ calls'[t].expired = v.expired
  BY <1>1, <1>5 DEF CallType, SameCall
<1>6. ASSUME NEW gone \in SUBSET Live, KeptAlive(c, net, gone), stray' = stray,
             calls' = [got("timeout", None) EXCEPT ![t].expired = TRUE]
      PROVE  /\ \A u \in Threads \ {t} : calls'[u] = calls[u]
             /\ SameCall(v, calls'[t]) /\ calls'[t].pc = "got" /\ calls'[t].rc = "timeout"
             /\ calls'[t].got = None /\ calls'[t].expired = TRUE
             /\ Calm /\ OwnView /\ tostop' = tostop /\ (client # 0 => M'.sems = M.sems /\ M'.pack = M.pack)
  <2>1. /\ \A u \in Threads \ {t} : calls'[u] = calls[u]
        /\ SameCall(v, calls'[t]) /\ calls'[t].pc = "got" /\ calls'[t].rc = "timeout"
        /\ calls'[t].got = None /\ calls'[t].expired = TRUE
    BY <1>1, <1>6 DEF CallType, SameCall
  <2>2. Calm /\ OwnView /\ tostop' = tostop /\ (client # 0 => M'.sems = M.sems /\ M'.pack = M.pack)
    BY <1>1, <1>3, <1>4, <1>6
  <2> QED BY <2>1, <2>2
<1>7. ASSUME NEW gone \in SUBSET Live, NEW g \in Live, ReadyHandle(g),
             KeptAlive([c EXCEPT ![g] = CycleResult(g).m], [net EXCEPT ![g] = CycleResult(g).n], gone),
             calls' = IF g # h THEN calls
                      ELSE IF c[h].state = "tcp" THEN got(SoError(h), None)
                      ELSE IF CycleResult(g).rc = "error" THEN got("error", None)
                      ELSE IF CycleResult(g).pack.type = v.for.type THEN got("ok", CycleResult(g).pack)
                      ELSE calls,
             stray' = IF CycleResult(g).pack.type \in Acks THEN TRUE ELSE stray
      PROVE  /\ \A u \in Threads \ {t} : calls'[u] = calls[u]
             /\ SameCall(v, calls'[t]) /\ calls'[t].pc \in {"poll", "got"}
             /\ Calm /\ OwnView /\ tostop' = tostop /\ (client # 0 => M'.sems = M.sems /\ M'.pack = M.pack)
             /\ client # 0 /\ h = client /\ v.for.type # "none" =>
                  /\ \E n1 : Finds(v, calls'[t], M, N, n1) /\ (Up(M) \/ N' = n1)
                  /\ M.state # "tcp" /\ calls'[t].pc = "got" /\ calls'[t].rc = "ok"
                       /\ v.for.type \in Acks => stray'
             /\ (stray => stray') /\ (stray' = stray \/ (client # 0 /\ N.in # <<>> /\ Head(N.in).type \in Acks))
  <2> DEFINE r == CycleResult(g)
             cs == [c EXCEPT ![g] = r.m]
             ns == [net EXCEPT ![g] = r.n]
  <2>1. g = client /\ g \in Handle /\ client # 0
    BY <1>7, Constants DEF FlowInv, SocketInv, Live, ReadyHandle, Handle
  <2>2. /\ r.m.life = c[g].life /\ r.m.connected = c[g].connected /\ r.m.fd = c[g].fd
        /\ r.m.state = c[g].state /\ r.m.pack = c[g].pack /\ r.m.sems = c[g].sems
        /\ \/ /\ r.n = net[g] /\ r.m = c[g] /\ r.pack = None
              /\ r.rc = "error" => net[g].tcp = "failed" /\ net[g].in = <<>>
           \/ r.rc = "ok" /\ Reads(net[g], c[g], r.n, r.m, r.pack)
    BY <2>1, CycleReads
  <2>3. r.m \in ClientType /\ r.n \in NetType /\ r.rc \in {"ok", "error"}
    BY <2>1, CycleType
  <2>4. KeptAlive(cs, ns, gone)
    BY <1>7
  <2>5. calls' = IF g # h THEN calls
                 ELSE IF c[h].state = "tcp" THEN got(SoError(h), None)
                 ELSE IF r.rc = "error" THEN got("error", None)
                 ELSE IF r.pack.type = v.for.type THEN got("ok", r.pack)
                 ELSE calls
    BY <1>7
  <2>6. stray' = IF r.pack.type \in Acks THEN TRUE ELSE stray
    BY <1>7
  <2> HIDE DEF r
  <2>7. cs \in [Handle -> ClientType] /\ ns \in [Handle -> NetType]
    BY <2>3 DEF Typed
  <2>8. /\ \A k \in Handle : cs[k] = (IF k = g THEN r.m ELSE c[k]) /\ ns[k] = (IF k = g THEN r.n ELSE net[k])
        /\ M = c[g] /\ N = net[g] /\ cs[client] = r.m /\ ns[client] = r.n
    BY <1>1, <2>1 DEF M, N
  <2> HIDE DEF cs, ns
  <2>9. \A k \in Handle : /\ cs[k].life = c[k].life /\ cs[k].connected = c[k].connected
                          /\ cs[k].state = c[k].state /\ cs[k].fd = c[k].fd
                          /\ cs[k].pack = c[k].pack /\ cs[k].sems = c[k].sems
                          /\ c[k].life = "none" => ns[k] = net[k]
    BY <1>7, <2>2, <2>8 DEF Live
  <2>10. \/ ns[client] = N /\ cs[client] = M
         \/ Reads(N, M, ns[client], cs[client], r.pack)
    BY <2>2, <2>8
  <2>11. /\ Calm /\ OwnView /\ tostop' = tostop /\ (client # 0 => M'.sems = M.sems /\ M'.pack = M.pack)
         /\ client # 0 => Up(M) \/ N' = ns[client]
    BY <1>4, <1>7, <2>4, <2>7, <2>9, <2>10
  <2> HIDE DEF got, v
  <2>12. \/ calls' = calls
         \/ \E rc, pack : calls' = got(rc, pack)
    BY <2>5
  <2>13. /\ \A u \in Threads \ {t} : calls'[u] = calls[u]
         /\ SameCall(v, calls'[t]) /\ calls'[t].pc \in {"poll", "got"}
    BY <1>1, <1>5, <2>12 DEF SameCall, v
  <2>14. r.pack.type # "none" =>
            /\ N.in # <<>> /\ r.pack = Head(N.in) /\ M.state # "tcp"
            /\ r.n.in = Tail(N.in) /\ SameNet(N, r.n) /\ r.n.asked = N.asked
    BY <2>2, <2>8, NoneFacts DEF Reads
  <2>15. (stray => stray') /\ (stray' = stray \/ (client # 0 /\ N.in # <<>> /\ Head(N.in).type \in Acks))
    BY <2>1, <2>6, <2>14, AckTypes
  <2>16. ASSUME h = client, v.for.type # "none"
         PROVE  /\ Finds(v, calls'[t], M, N, r.n)
                /\ M.state # "tcp" /\ calls'[t].pc = "got" /\ calls'[t].rc = "ok"
                     /\ v.for.type \in Acks => stray'
    <3>1. CASE M.state = "tcp"
      <4>1. calls' = got(SoError(h), None)
        BY <2>1, <2>5, <2>8, <2>16, <3>1
      <4> QED BY <1>5, <3>1, <4>1 DEF Finds
    <3>2. CASE M.state # "tcp" /\ r.rc = "error"
      <4>1. calls' = got("error", None)
        BY <2>1, <2>5, <2>8, <2>16, <3>2
      <4>2. N.tcp = "failed" /\ N.in = <<>> /\ r.n = N
        BY <2>2, <2>8, <3>2
      <4> QED BY <1>5, <4>1, <4>2 DEF Finds
    <3>3. CASE M.state # "tcp" /\ r.rc = "ok" /\ r.pack.type = v.for.type
      <4>1. calls' = got("ok", r.pack)
        BY <2>1, <2>5, <2>8, <2>16, <3>3
      <4>2. /\ N.in # <<>> /\ r.pack = Head(N.in)
            /\ r.n.in = Tail(N.in) /\ SameNet(N, r.n) /\ r.n.asked = N.asked
        BY <2>14, <2>16, <3>3
      <4>3. v.for.type \in Acks => stray'
        BY <2>6, <3>3
      <4> QED BY <1>5, <3>3, <4>1, <4>2, <4>3 DEF Finds
    <3>4. CASE M.state # "tcp" /\ r.rc = "ok" /\ r.pack.type # v.for.type
      <4>1. calls' = calls
        BY <2>1, <2>5, <2>8, <2>16, <3>4
      <4> QED BY <1>1, <4>1 DEF Finds, v
    <3> QED BY <2>3, <3>1, <3>2, <3>3, <3>4
  <2> QED BY <2>8, <2>11, <2>13, <2>15, <2>16 DEF v
<1>8. \/ \E gone \in SUBSET Live : \E g \in Live :
            /\ ReadyHandle(g)
            /\ KeptAlive([c EXCEPT ![g] = CycleResult(g).m], [net EXCEPT ![g] = CycleResult(g).n], gone)
            /\ calls' = IF g # h THEN calls
                        ELSE IF c[h].state = "tcp" THEN got(SoError(h), None)
                        ELSE IF CycleResult(g).rc = "error" THEN got("error", None)
                        ELSE IF CycleResult(g).pack.type = v.for.type THEN got("ok", CycleResult(g).pack)
                        ELSE calls
            /\ stray' = IF CycleResult(g).pack.type \in Acks THEN TRUE ELSE stray
      \/ \E gone \in SUBSET Live :
            /\ KeptAlive(c, net, gone) /\ stray' = stray
            /\ calls' = [got("timeout", None) EXCEPT ![t].expired = TRUE]
  BY DEF Poll
<1>9. CASE \E gone \in SUBSET Live :
             /\ KeptAlive(c, net, gone) /\ stray' = stray
             /\ calls' = [got("timeout", None) EXCEPT ![t].expired = TRUE]
  <2>1. /\ stray' = stray
        /\ \A u \in Threads \ {t} : calls'[u] = calls[u]
        /\ SameCall(v, calls'[t]) /\ calls'[t].pc = "got" /\ calls'[t].rc = "timeout"
        /\ calls'[t].got = None /\ calls'[t].expired = TRUE
        /\ Calm /\ OwnView /\ tostop' = tostop /\ (client # 0 => M'.sems = M.sems /\ M'.pack = M.pack)
    <3> HIDE DEF v, got
    <3> QED BY <1>6, <1>9
  <2>2. Finds(v, calls'[t], M, N, N')
    BY <2>1 DEF Finds
  <2> QED BY <1>1, <1>2, <2>1, <2>2
<1>10. CASE \E gone \in SUBSET Live : \E g \in Live :
            /\ ReadyHandle(g)
            /\ KeptAlive([c EXCEPT ![g] = CycleResult(g).m], [net EXCEPT ![g] = CycleResult(g).n], gone)
            /\ calls' = IF g # h THEN calls
                        ELSE IF c[h].state = "tcp" THEN got(SoError(h), None)
                        ELSE IF CycleResult(g).rc = "error" THEN got("error", None)
                        ELSE IF CycleResult(g).pack.type = v.for.type THEN got("ok", CycleResult(g).pack)
                        ELSE calls
            /\ stray' = IF CycleResult(g).pack.type \in Acks THEN TRUE ELSE stray
  <2> HIDE DEF v, got, h
  <2>1. /\ \A u \in Threads \ {t} : calls'[u] = calls[u]
        /\ SameCall(v, calls'[t]) /\ calls'[t].pc \in {"poll", "got"}
        /\ Calm /\ OwnView /\ tostop' = tostop /\ (client # 0 => M'.sems = M.sems /\ M'.pack = M.pack)
        /\ client # 0 /\ h = client /\ v.for.type # "none" =>
             /\ \E n1 : Finds(v, calls'[t], M, N, n1) /\ (Up(M) \/ N' = n1)
             /\ M.state # "tcp" /\ calls'[t].pc = "got" /\ calls'[t].rc = "ok"
                  /\ v.for.type \in Acks => stray'
        /\ (stray => stray') /\ (stray' = stray \/ (client # 0 /\ N.in # <<>> /\ Head(N.in).type \in Acks))
    BY <1>7, <1>10
  <2>2. stray' \in BOOLEAN
    <3>1. stray' \in {TRUE, stray}
      BY <1>10
    <3> QED BY <1>1, <3>1
  <2> QED BY <1>1, <1>2, <2>1, <2>2 DEF v, h
<1> QED BY <1>8, <1>9, <1>10

LEMMA PollFlow ==
  ASSUME SafeInv, Typed, PlaceInv, FlowInv, NEW t \in Threads, Poll(t)
  PROVE  FlowInv'
<1> DEFINE v == calls[t]
           h == calls[t].h
<1>1. /\ UNCHANGED <<client, run, running, tostop, late>> /\ ~running /\ v.pc = "poll"
      /\ run.pc = "none" /\ Carried = None /\ Carried' = None
      /\ \A u \in Threads \ {t} : calls'[u] = calls[u]
      /\ SameCall(v, calls'[t]) /\ calls'[t].pc \in {"poll", "got"}
      /\ Calm /\ OwnView /\ (client # 0 => M'.sems = M.sems /\ M'.pack = M.pack)
      /\ stray' \in BOOLEAN
      /\ (stray => stray') /\ (stray' = stray \/ (client # 0 /\ N.in # <<>> /\ Head(N.in).type \in Acks))
  BY PollIs
<1>2. client # 0 /\ h = client /\ v.for.type # "none" =>
         /\ \E n1 : Finds(v, calls'[t], M, N, n1) /\ (Up(M) \/ N' = n1)
         /\ M.state # "tcp" /\ calls'[t].pc = "got" /\ calls'[t].rc = "ok" /\ v.for.type \in Acks => stray'
  BY PollIs
<1>3. \A u \in Threads : /\ (Connecting(u)' <=> Connecting(u)) /\ (Asks(u)' <=> Asks(u))
                         /\ (Opening(u)' <=> Opening(u)) /\ (Alone(u)' <=> Alone(u))
                         /\ calls'[u].version = calls[u].version /\ calls'[u].h = calls[u].h
                         /\ (calls'[u].pc = "stopping" <=> calls[u].pc = "stopping")
                         /\ (calls'[u].pc = "idle" <=> calls[u].pc = "idle")
  BY <1>1 DEF Connecting, Opening, Asks, Alone, Leaving, SameCall
<1>4. /\ v \in CallType /\ late \in BOOLEAN /\ stray \in BOOLEAN
      /\ client # 0 => client \in Handle /\ M \in ClientType /\ N \in NetType
      /\ M = c[client] /\ M' = c'[client] /\ N = net[client] /\ N' = net'[client]
  BY <1>1, ClientHandle DEF Typed, M, N
<1>5. \A u \in Threads : Opening(u) =>
        u = t /\ h = client /\ client # 0 /\ ~Up(M) /\ Connecting(t) /\ ConnectInv(v, N, M, None)
  <2> SUFFICES ASSUME NEW u \in Threads, Opening(u)
               PROVE  u = t /\ h = client /\ client # 0 /\ ~Up(M) /\ Connecting(t) /\ ConnectInv(v, N, M, None)
    OBVIOUS
  <2>1. u = t
    BY <1>1 DEF SafeInv, CallsInv, Alone
  <2>2. h = client /\ client # 0 /\ ~Up(M) /\ Connecting(t)
    BY <1>1, <2>1, ClientHandle DEF Connecting, SafeInv, CallsInv
  <2> QED BY <1>1, <2>1, <2>2 DEF FlowInv, CallerInv
<1>6. ASSUME NEW u \in Threads, Opening(u) PROVE stray' = stray
  <2>1. client # 0 /\ (\A i \in DOMAIN N.in : N.in[i].type = "CONNACK") /\ N \in NetType
    BY <1>4, <1>5, <1>6 DEF ConnectInv, ConnectFlow
  <2>2. N.in # <<>> => Head(N.in).type = "CONNACK"
    BY <2>1 DEF NetType
  <2> QED BY <1>1, <2>2, AckTypes
<1>7. AskersInv'
  <2>1. \A u \in Threads : Asks(u)' => calls'[u].h = client' /\ client' # 0 /\ ~Alone(u)' /\ calls'[u].pc # "idle"
    BY <1>1, <1>3 DEF FlowInv, AskersInv
  <2>2. ~stray' => \A u, w \in Threads : Asks(u)' /\ Asks(w)' => u = w
    BY <1>1, <1>3 DEF FlowInv, AskersInv
  <2>3. (\E u \in Threads : Opening(u)') => ~stray'
    BY <1>3, <1>6 DEF FlowInv, AskersInv
  <2>4. \A u \in Threads : calls'[u].pc = "stopping" => \A g \in Handle : ~Up(c'[g])
    BY <1>1, <1>3 DEF FlowInv, AskersInv, Calm
  <2> QED BY <2>1, <2>2, <2>3, <2>4 DEF AskersInv
<1>8. SocketInv'
  BY <1>1, <1>3, CalmSocket DEF FlowInv
<1>9. \A u \in Threads : Connecting(u) /\ calls[u].version = 4 => M.pack = None /\ M'.pack = None
  BY <1>1, <1>5 DEF FlowInv, RunInv, Connecting
<1>10. RunInv'
  <2>1. run'.pc = "none"
    BY <1>1
  <2> QED BY <1>3, <1>9, <2>1 DEF RunInv
<1>11. ASSUME NEW u \in Threads, Connecting(u)' PROVE ConnectInv(calls'[u], N', M', Carried')
  <2>1. u = t /\ h = client /\ client # 0 /\ ~Up(M) /\ Connecting(t) /\ ConnectInv(v, N, M, None)
    BY <1>3, <1>5, <1>11 DEF Connecting
  <2>2. v.for.type # "none" /\ M \in ClientType /\ N \in NetType
    BY <1>1, <1>4, <2>1 DEF Connecting, Opening
  <2>3. "CONNACK" \notin M'.sems \ M.sems /\ View(N, M, None, N', M', None)
    BY <1>1, <2>1 DEF OwnView
  <2>4. ConnectInv(v, N', M', None)
    BY <1>4, <2>1, <2>2, <2>3, ConnectView
  <2>5. Finds(v, calls'[t], M, N, N')
    BY <1>2, <2>1, <2>2
  <2>6. v.version = 4 => M.pack = None
    BY <1>9, <2>1
  <2>7. M'.pack = M.pack
    BY <1>1, <2>1
  <2>8. ConnectInv(calls'[t], N', M', None)
    <3> HIDE DEF v, h
    <3> QED BY <1>1, <1>4, <2>1, <2>2, <2>4, <2>5, <2>6, <2>7, ConnectFinds
  <2> QED BY <1>1, <2>1, <2>8
<1>12. ASSUME NEW u \in Threads, Asks(u)', ~stray' PROVE AskInv(calls'[u], N', M', Carried', late')
  <2>1. Asks(u) /\ ~stray /\ AskInv(calls[u], N, M, None, late) /\ client # 0 /\ calls[u].h = client
    BY <1>1, <1>3, <1>12 DEF FlowInv, CallerInv, AskersInv
  <2>2. M \in ClientType /\ N \in NetType /\ View(N, M, None, N', M', None) /\ calls[u] \in CallType
    BY <1>1, <1>4, <2>1 DEF OwnView, Typed
  <2>3. AskInv(calls[u], N', M', None, late)
    BY <1>4, <2>1, <2>2, AskView DEF Asks
  <2>4. CASE u = t
    <3>1. v.for.type \in Acks /\ v.for.type # "none" /\ h = client
      BY <2>1, <2>4, AckTypes DEF Asks
    <3>2. M.state # "tcp"
      <4>1. \A w \in Threads : ~Connecting(w)
        BY <1>5, <3>1, AckTypes, <1>1 DEF Connecting, Opening
      <4> QED BY <2>1, <4>1 DEF FlowInv, SocketInv
    <3>3. calls'[t].pc = "got" => calls'[t].rc # "ok"
      BY <1>2, <1>12, <2>1, <3>1, <3>2
    <3>4. PICK n1 : Finds(v, calls'[t], M, N, n1)
      BY <1>2, <2>1, <3>1
    <3>5. AskInv(calls'[t], N', M', None, late)
      <4> HIDE DEF v
      <4>1. AskInv(v, N', M', None, late)
        BY <2>3, <2>4 DEF v
      <4> QED BY <1>1, <1>4, <3>2, <3>3, <3>4, <4>1, AskFinds
    <3> QED BY <1>1, <2>4, <3>5
  <2>5. CASE u # t
    BY <1>1, <2>3, <2>5
  <2> QED BY <2>4, <2>5
<1>13. ASSUME client' # 0, Up(M'), ~stray', \A u \in Threads : ~Asks(u)'
       PROVE  IdleInv(N', M', Carried', late')
  <2>1. Up(M) /\ client # 0 /\ ~stray /\ \A u \in Threads : ~Asks(u)
    BY <1>1, <1>3, <1>4, <1>13 DEF Calm
  <2>2. IdleInv(N, M, None, late)
    BY <1>1, <2>1 DEF FlowInv, CallerInv
  <2>3. M \in ClientType /\ N \in NetType /\ View(N, M, None, N', M', None)
    BY <1>1, <1>4, <2>1 DEF OwnView
  <2> QED BY <1>1, <1>4, <2>2, <2>3, IdleView
<1>14. CallerInv'
  BY <1>11, <1>12, <1>13 DEF CallerInv
<1> QED BY <1>7, <1>8, <1>10, <1>14 DEF FlowInv

-----------------------------------------------------------------------------
(* The steps of connect *)

\* A step of the thread that connects, while all others are idle: it goes on, it has failed,
\* or the session is there.
GoesOn(v1, n1, m1, k1) == ~Up(m1) /\ ConnectInv(v1, n1, m1, k1)
HasFailed(v1, m1) == m1.fd = 0 /\ ~m1.connected /\ m1.state = "none" /\ v1.pc \in {"idle", "stopping"}
Succeeds(v1, n1, m1, k1) ==
    /\ m1.connected /\ m1.state = "none" /\ n1.accepted /\ n1.asked = {} /\ v1.pc = "idle"
    /\ \A l \in BOOLEAN : IdleInv(n1, m1, k1, l)

LEMMA OpenerFlow ==
  ASSUME SafeInv, Typed, FlowInv, NEW t \in Threads, Connecting(t), UNCHANGED <<client, stray, late>>,
         \A u \in Threads \ {t} : calls'[u] = calls[u],
         \A h \in Handle : h # client => c'[h] = c[h] /\ net'[h] = net[h],
         M'.life = M.life, calls'[t].for.type \notin Acks,
         \/ Connecting(t)' /\ GoesOn(calls'[t], N', M', Carried')
         \/ ~Connecting(t)' /\ HasFailed(calls'[t], M')
         \/ ~Connecting(t)' /\ Succeeds(calls'[t], N', M', Carried'),
         run' = run \/ run' = RunLoop,
         run' = run => Serving' \/ tostop' \/ run.pc = "none",
         tostop => tostop', tostop' \/ ~running' => tostop \/ ~running \/ ~Connecting(t)',
         Connecting(t)' /\ calls'[t].version = 4 =>
           /\ calls[t].version = 4 /\ M'.pack = M.pack
           /\ M.fd = 0 \/ (M'.fd = M.fd /\ N'.tcp = N.tcp /\ N'.in = N.in)
  PROVE  FlowInv'
<1>1. /\ client \in Handle /\ client # 0 /\ ~Up(M) /\ M \in ClientType /\ Opening(t)
      /\ M = c[client] /\ M' = c'[client] /\ N = net[client] /\ N' = net'[client]
      /\ Serving /\ M.life = "live"
  BY ClientHandle DEF Connecting, M, N, Serving, FlowInv, SocketInv
<1>2. \A u \in Threads \ {t} : calls[u].pc = "idle" /\ ~Opening(u) /\ ~Asks(u)
  BY <1>1 DEF SafeInv, CallsInv, Alone, FlowInv, AskersInv
<1>3. \A u \in Threads \ {t} : calls'[u].pc = "idle" /\ ~Opening(u)' /\ ~Connecting(u)' /\ ~Asks(u)'
  BY <1>2 DEF Opening, Connecting, Asks
<1>4. ~Asks(t)' /\ \A u \in Threads : ~Asks(u)'
  BY <1>3 DEF Asks
<1>5. ~stray' /\ late' \in BOOLEAN
  BY <1>1 DEF FlowInv, AskersInv, Typed
<1>6. \A h \in Handle : h # client => ~Up(c'[h]) /\ c'[h].fd = 0
  <2>1. \A h \in Handle : ~Up(c[h])
    BY <1>1 DEF SafeInv, HandlesInv
  <2>2. \A h \in Handle : h # client => c[h].fd = 0
    BY DEF FlowInv, SocketInv
  <2> QED BY <2>1, <2>2
<1>7. Connecting(t)' => ~Up(M')
  BY DEF GoesOn
<1>8. Up(M') => N'.accepted /\ N'.asked = {} /\ IdleInv(N', M', Carried', late') /\ calls'[t].pc = "idle"
  BY <1>5, <1>7 DEF Succeeds, HasFailed, GoesOn, Up
<1>9. AskersInv'
  <2>1. ASSUME NEW u \in Threads, calls'[u].pc = "stopping" PROVE \A h \in Handle : ~Up(c'[h])
    <3>1. u = t
      BY <1>3, <2>1
    <3> QED BY <1>1, <1>6, <1>8, <2>1, <3>1
  <2> QED BY <1>4, <1>5, <2>1 DEF AskersInv
<1>10. Serving' <=> (Up(M') \/ Connecting(t)')
  BY <1>1, <1>3 DEF Serving
<1>11. M'.fd # 0 \/ M'.state # "none" => Up(M') \/ Connecting(t)'
  BY <1>1 DEF HasFailed, Succeeds, Up
<1>12. SocketInv'
  <2>1. \A h \in Handle : c'[h].fd # 0 => h = client' /\ Serving'
    BY <1>1, <1>6, <1>10, <1>11
  <2>2. /\ Serving' => M'.life = "live"
        /\ client' # 0 => M'.life # "none"
    BY <1>1
  <2>3. client' # 0 /\ M'.state # "none" => \E u \in Threads : Connecting(u)'
    BY <1>11 DEF Succeeds, HasFailed
  <2>4. \A h \in Handle : c'[h].life = "none" => net'[h] = NoNet
    BY <1>1 DEF FlowInv, SocketInv
  <2>5. Up(M') => \A a \in N'.asked : a.type \in Acks
    BY <1>8
  <2> QED BY <1>8, <2>1, <2>2, <2>3, <2>4, <2>5 DEF SocketInv
<1>13. /\ RunLoop.pc = "select" /\ RunLoop.pack = None
       /\ RunInv
  BY DEF RunLoop, FlowInv
<1>14. RunInv'
  <2>1. /\ run'.pc \in {"select", "chosen"} => run'.pack = None
        /\ run'.pc = "cycled" /\ run'.pack # None => run'.sock # 0
    BY <1>13 DEF RunInv
  <2>2. run'.pc = "callback" => c'[run'.h].life # "none" /\ run'.h # client'
    <3>1. run'.pc = "callback" => run' = run /\ run.h \in Handle
      BY <1>13 DEF SafeInv, ThreadInv
    <3> QED BY <1>1, <1>13, <3>1 DEF RunInv
  <2>3. run'.pc \in {"chosen", "cycled"} /\ run'.sock # 0 /\ ~tostop' => Serving'
    BY <1>13
  <2>4. ASSUME Connecting(t)', calls'[t].version = 4
        PROVE  /\ tostop' \/ ~running' => M'.pack = None
               /\ run'.pc \in {"chosen", "cycled"} /\ run'.sock # 0 /\ ~tostop' => run'.sock = M'.fd
               /\ run'.pc = "cycled" /\ run'.rc = "error" /\ run'.sock # 0 /\ ~tostop' =>
                    N'.tcp = "failed" /\ N'.in = <<>> /\ run'.pack = None
    <3>1. /\ tostop \/ ~running => M.pack = None
          /\ run.pc \in {"chosen", "cycled"} /\ run.sock # 0 /\ ~tostop => run.sock = M.fd
          /\ run.pc = "cycled" /\ run.rc = "error" /\ run.sock # 0 /\ ~tostop =>
               N.tcp = "failed" /\ N.in = <<>> /\ run.pack = None
      BY <1>13, <2>4 DEF RunInv
    <3>2. M'.pack = M.pack /\ (M.fd = 0 \/ (M'.fd = M.fd /\ N'.tcp = N.tcp /\ N'.in = N.in))
      BY <2>4
    <3> QED BY <1>13, <2>4, <3>1, <3>2
  <2> QED BY <1>3, <2>1, <2>2, <2>3, <2>4 DEF RunInv
<1>15. CallerInv'
  <2>1. ASSUME NEW u \in Threads, Connecting(u)' PROVE ConnectInv(calls'[u], N', M', Carried')
    BY <1>3, <2>1 DEF GoesOn
  <2> QED BY <1>4, <1>8, <2>1 DEF CallerInv
<1> QED BY <1>9, <1>12, <1>14, <1>15 DEF FlowInv

\* The second attempt begins with nothing under way.
LEMMA NextAttempt ==
  ASSUME NEW n, NEW m \in ClientType, NEW k, NEW k1 \in {k, None}, NEW v, NEW v1, ConnectInv(v, n, m, k),
         v.version = 4, v.pc \in {"attempt", "got"}, v.pc = "attempt" \/ v.for.type \in {"CONNECT", "CONNACK"},
         v.pc # "attempt" /\ v.for.type = "CONNACK" /\ v.got # None => ~v.got.ok,
         v1.pc = "attempt", v1.version = 3, v1.for = None, v1.expired = v.expired,
         NEW m1, m1.pack \in {m.pack, None}, m1.sems = m.sems, m1.state = "none", ~m1.queue
  PROVE  ConnectInv(v1, NoNet, m1, k1)
<1>2. NoNet.in = <<>> /\ NoNet.accepted = FALSE /\ v1.for.type = "none"
  BY NoNetFlow, NoneFacts
<1>3. ConnectFlow(v1, NoNet, m1, k1)
  <2>1. k1 \in Connacks \cup {None}
    BY DEF ConnectInv, ConnectFlow, Flow
  <2> QED BY <1>2, <2>1, NoNetFlow DEF ConnectInv, ConnectFlow
<1>4. ASSUME ~v.expired PROVE k = None /\ (m.pack = None \/ ~m.pack.ok)
  <2>1. CASE Early(v)
    BY <1>4, <2>1 DEF ConnectInv, ConnectEarly, Empty, Counted
  <2>2. CASE ~Early(v)
    <3>1. v.pc = "got" /\ v.for.type = "CONNACK"
      BY <2>2 DEF Early
    <3>2. Dead(n, m, k) \/ (v.got # None /\ ~v.got.ok /\ m.pack \in {None, v.got})
      BY <1>4, <3>1 DEF ConnectInv, ConnectFirst
    <3>3. v.got # None => Empty(n, k)
      BY <3>1 DEF ConnectInv, ConnectLate, Counted
    <3> QED BY <3>2, <3>3 DEF Dead, Empty
  <2> QED BY <2>1, <2>2
<1>5. ConnectEarly(v1, NoNet, m1, k1)
  BY <1>2, <1>4, NoNetFlow, NoneFacts DEF ConnectEarly, Counted, Empty
<1>6. ConnectLate(v1, NoNet, m1, k1) /\ ConnectFirst(v1, NoNet, m1, k1)
  BY <1>2 DEF ConnectLate, ConnectFirst
<1> QED BY <1>3, <1>5, <1>6 DEF ConnectInv

\* CONNECT is sent, or connect() is in progress.
LEMMA AttemptBegins ==
  ASSUME NEW n, NEW m \in ClientType, NEW k, NEW v, NEW v1, NEW n1, NEW m1, ConnectInv(v, n, m, k),
         v.pc = "attempt", ~v.expired, v1.version = v.version, v1.pc = "begin",
         m1.pack = m.pack, m1.sems = m.sems, m1.queue = m.queue, n1.in = <<>>, ~n1.accepted,
         \/ v1.for = Of("CONNECT") /\ m1.state = "tcp" /\ n1.asked = {}
         \/ v1.for = Of("CONNACK") /\ m1.state = "connack" /\ n1.asked = {Of("CONNACK")}
  PROVE  k = None /\ ConnectInv(v1, n1, m1, k)
<1>1. v1.for.type = "CONNECT" \/ v1.for.type = "CONNACK"
  BY DEF Of, None
<1>2. /\ Empty(n, k) /\ k = None /\ ~Counted(m.pack, v)
      /\ v.version = 4 => "CONNACK" \notin m.sems
  BY DEF ConnectInv, ConnectEarly, Early, Empty
<1>3. AnswersIn(n1) = {} /\ DOMAIN n1.in = {}
  BY DEF AnswersIn
<1>4. ConnectFlow(v1, n1, m1, k)
  BY <1>2, <1>3, NoneFacts DEF ConnectInv, ConnectFlow, Flow
<1>5. CASE v1.for = Of("CONNECT") /\ m1.state = "tcp" /\ n1.asked = {}
  <2>1. v1.for.type = "CONNECT"
    BY <1>5 DEF Of
  <2>2. ConnectEarly(v1, n1, m1, k)
    BY <1>2, <1>3, <1>5, <2>1 DEF ConnectEarly, Empty, Counted
  <2> QED BY <1>2, <1>4, <2>1, <2>2 DEF ConnectInv, ConnectLate, ConnectFirst
<1>6. CASE v1.for = Of("CONNACK") /\ m1.state = "connack" /\ n1.asked = {Of("CONNACK")}
  <2>1. v1.for.type = "CONNACK"
    BY <1>6 DEF Of
  <2>2. ConnectEarly(v1, n1, m1, k)
    BY <2>1 DEF ConnectEarly, Early
  <2>3. ConnectLate(v1, n1, m1, k)
    BY <1>2, <1>3, <1>6 DEF ConnectLate, Counted
  <2>4. ConnectFirst(v1, n1, m1, k)
    BY <1>2 DEF ConnectFirst
  <2> QED BY <1>2, <1>4, <2>2, <2>3, <2>4 DEF ConnectInv
<1> QED BY <1>5, <1>6

\* The connection is there and CONNECT is sent.
LEMMA ConnectSent ==
  ASSUME NEW n, NEW m \in ClientType, NEW k, NEW v, NEW v1, NEW n1, NEW m1, ConnectInv(v, n, m, k),
         v.pc = "got", v.for.type = "CONNECT", v1.version = v.version, v1.pc = "begin",
         v1.for = Of("CONNACK"),
         m1.pack = m.pack, m1.sems = m.sems, m1.queue = m.queue, m1.state = "connack",
         n1.in = n.in, n1.accepted = n.accepted, n1.asked = {Of("CONNACK")}
  PROVE  k = None /\ ConnectInv(v1, n1, m1, k)
<1>1. v1.for.type = "CONNACK"
  BY DEF Of
<1>2. /\ Empty(n, k) /\ k = None /\ ~Counted(m.pack, v) /\ ~n.accepted
      /\ v.version = 4 => "CONNACK" \notin m.sems
  BY DEF ConnectInv, ConnectEarly, Early, Empty
<1>3. AnswersIn(n1) = {} /\ DOMAIN n1.in = {}
  BY <1>2 DEF AnswersIn, Empty, ConnectInv, ConnectFlow
<1>4. ConnectFlow(v1, n1, m1, k)
  BY <1>2, <1>3, NoneFacts DEF ConnectInv, ConnectFlow, Flow
<1>5. ConnectEarly(v1, n1, m1, k)
  BY <1>1 DEF ConnectEarly, Early
<1>6. ConnectLate(v1, n1, m1, k)
  BY <1>2, <1>3 DEF ConnectLate, Counted
<1>7. ConnectFirst(v1, n1, m1, k)
  BY <1>2 DEF ConnectFirst
<1> QED BY <1>2, <1>4, <1>5, <1>6, <1>7 DEF ConnectInv

LEMMA FailThenFlow ==
  ASSUME SafeInv, Typed, PlaceInv, FlowInv, NEW t \in Threads, NEW left \in {M.pack, None},
         FailThen(t, left), Connecting(t),
         calls[t].pc \in {"attempt", "got"},
         calls[t].pc # "attempt" /\ calls[t].for.type = "CONNACK" /\ calls[t].got # None => ~calls[t].got.ok,
         UNCHANGED <<client, stray, late>>, running' \in BOOLEAN,
         UNCHANGED <<run, running>> \/ (run' = RunLoop /\ running')
  PROVE  FlowInv'
<1> DEFINE v == calls[t]
<1>1. /\ client \in Handle /\ client # 0 /\ v.h = client /\ M \in ClientType /\ N \in NetType
      /\ v \in CallType /\ calls \in [Threads -> CallType]
  BY ClientHandle DEF Connecting, SafeInv, CallsInv, Typed
<1>2. /\ N' = NoNet
      /\ \A h \in Handle : h # client => c'[h] = c[h] /\ net'[h] = net[h]
      /\ M'.fd = 0 /\ ~M'.connected /\ M'.state = "none" /\ M'.life = M.life
      /\ M'.pack = left /\ M'.sems = M.sems /\ ~M'.queue
  <2>1. CloseAttempt(client, left)
    BY <1>1 DEF FailThen
  <2>2. /\ M' = [Closed(M) EXCEPT !.pack = left] /\ N' = NoNet
        /\ \A h \in Handle : h # client => c'[h] = c[h] /\ net'[h] = net[h]
    BY <1>1, <2>1 DEF CloseAttempt, Typed, M, N
  <2> QED BY <1>1, <2>2 DEF Closed, ClientType
<1>3. ConnectInv(v, N, M, Carried)
  BY DEF FlowInv, CallerInv
<1>4. CASE v.version = 4
  <2>1. /\ tostop' = tostop /\ \A u \in Threads \ {t} : calls'[u] = calls[u]
        /\ calls'[t] = [NoCall EXCEPT !.pc = "attempt", !.h = v.h, !.version = 3, !.expired = v.expired]
    BY <1>1, <1>4 DEF FailThen
  <2>2. /\ calls'[t].pc = "attempt" /\ calls'[t].version = 3 /\ calls'[t].for = None
        /\ calls'[t].expired = v.expired
    BY <2>1 DEF NoCall
  <2>3. Carried' \in {Carried, None}
    BY <2>1 DEF Carried, Carrying, RunLoop
  <2>4. v.pc = "attempt" \/ v.for.type \in {"CONNECT", "CONNACK"}
    BY DEF Connecting, Opening
  <2>5. ConnectInv(calls'[t], NoNet, M', Carried')
    <3> HIDE DEF v
    <3>1. \/ v.pc = "attempt" \/ v.for.type \in {"CONNECT", "CONNACK"}
      BY <2>4
    <3>2. v.pc \in {"attempt", "got"} /\ (v.pc # "attempt" /\ v.for.type = "CONNACK" /\ v.got # None => ~v.got.ok)
      BY DEF v
    <3> QED BY <1>1, <1>2, <1>3, <1>4, <2>2, <2>3, <3>1, <3>2, NextAttempt
  <2>6. Connecting(t)' /\ GoesOn(calls'[t], N', M', Carried')
    BY <1>2, <2>2, <2>5 DEF Connecting, Opening, GoesOn, Up
  <2>7. calls'[t].for.type \notin Acks
    BY <2>2, AckTypes, NoneFacts
  <2>8. Serving'
    BY <1>1, <2>6 DEF Serving
  <2>9. (run' = run \/ run' = RunLoop) /\ (tostop => tostop') /\ (tostop' \/ ~running' => tostop \/ ~running)
    BY <2>1
  <2>10. calls'[t].version # 4
    BY <2>2
  <2> HIDE DEF v
  <2> QED BY <1>2, <2>1, <2>6, <2>7, <2>8, <2>9, <2>10, OpenerFlow
<1>5. CASE v.version # 4
  <2>1. Stop(t, "idle")
    BY <1>5 DEF FailThen
  <2>2. /\ \A u \in Threads \ {t} : calls'[u] = calls[u]
        /\ \/ calls'[t].pc = "stopping" /\ Last(running', c') /\ calls'[t].for = v.for
           \/ tostop' = tostop /\ ~Last(running', c') /\ calls'[t] = NoCall
    BY <2>1, StopFacts DEF SafeInv, Shape, Flags
  <2>3. tostop' = (tostop \/ Last(running', c')) /\ tostop \in BOOLEAN
    BY <2>1 DEF Stop, Typed
  <2>4. tostop' \/ ~running'
    <3>1. \A h \in Handle : ~InUse(c'[h])
      BY <1>1, <1>2 DEF SafeInv, HandlesInv, InUse, M
    <3> QED BY <2>3, <3>1 DEF Last
  <2>5. run' = run => tostop' \/ run.pc = "none"
    <3>1. running <=> run.pc # "none"
      BY DEF SafeInv, ThreadInv
    <3> QED BY <2>4, <3>1 DEF RunLoop
  <2>6. NoCall.pc = "idle" /\ NoCall.for.type = "none"
    BY IdleCall
  <2>7. calls'[t].for.type \notin Acks
    <3>1. v.for.type \notin Acks
      BY DEF Connecting, FlowInv, AskersInv, Alone, Asks
    <3> QED BY <2>2, <2>6, <3>1, AckTypes
  <2>8. ~Connecting(t)' /\ HasFailed(calls'[t], M')
    BY <1>2, <2>2, <2>6 DEF Connecting, Opening, HasFailed
  <2> QED BY <1>2, <2>2, <2>3, <2>5, <2>7, <2>8, OpenerFlow
<1> QED BY <1>4, <1>5

LEMMA ConnectFlowStep ==
  ASSUME SafeInv, Typed, PlaceInv, FlowInv, NEW t \in Threads,
         AttemptFails(t) \/ Attempt(t) \/ ConnectTcpDone(t) \/ ConnackDone(t)
  PROVE  FlowInv'
<1> DEFINE v == calls[t]
           h == calls[t].h
<1>1. /\ v.pc = "attempt" \/ (v.pc = "got" /\ v.for.type \in {"CONNECT", "CONNACK"})
      /\ UNCHANGED <<client, stray, late>>
  BY DEF AttemptFails, Attempt, ConnectTcpDone, ConnackDone, Attempting
<1>2. Connecting(t) /\ v.pc \in {"attempt", "got"}
  BY <1>1 DEF Connecting, Opening
<1>3. /\ client \in Handle /\ client # 0 /\ h = client /\ M \in ClientType /\ N \in NetType /\ ~Up(M)
      /\ v \in CallType /\ calls \in [Threads -> CallType] /\ running \in BOOLEAN /\ tostop \in BOOLEAN
      /\ c \in [Handle -> ClientType] /\ net \in [Handle -> NetType]
      /\ M = c[client] /\ N = net[client] /\ M' = c'[client] /\ N' = net'[client]
      /\ M.life = "live" /\ (running <=> run.pc # "none") /\ (tostop => running)
  <2>1. M.life = "live"
    BY <1>2, ClientHandle DEF Serving, FlowInv, SocketInv, Connecting
  <2>2. (running <=> run.pc # "none") /\ (tostop => running)
    BY DEF SafeInv, ThreadInv
  <2> QED BY <1>1, <1>2, <2>1, <2>2, ClientHandle DEF Connecting, SafeInv, CallsInv, Typed, M, N
<1>4. ConnectInv(v, N, M, Carried)
  BY <1>2 DEF FlowInv, CallerInv
<1>5. v.for.type \notin Acks
  BY <1>2 DEF Connecting, FlowInv, AskersInv, Alone, Asks
<1>6. NoCall.pc = "idle" /\ NoCall.for.type = "none" /\ "none" \notin Acks
  BY IdleCall, AckTypes
<1>7. CASE AttemptFails(t)
  <2>1. StartThread /\ v.pc = "attempt"
    BY <1>7 DEF AttemptFails, Attempting
  <2>2. (UNCHANGED <<run, running>> /\ running) \/ (run' = RunLoop /\ running' /\ ~running)
    BY <1>3, <2>1 DEF StartThread
  <2>3. CASE FailThen(t, M.pack)
    BY <1>1, <1>2, <1>3, <2>1, <2>2, <2>3, FailThenFlow
  <2>4. CASE /\ ~running /\ CloseSession(h)
             /\ calls' = [calls EXCEPT ![t] = NoCall] /\ tostop' = tostop
    <3>1. /\ M' = Closed(M) /\ N' = NoNet
          /\ \A g \in Handle : g # client => c'[g] = c[g] /\ net'[g] = net[g]
      BY <1>3, <2>4 DEF CloseSession
    <3>2. M'.fd = 0 /\ ~M'.connected /\ M'.state = "none" /\ M'.life = M.life
      BY <1>3, <3>1 DEF Closed, ClientType
    <3>3. calls'[t] = NoCall /\ \A u \in Threads \ {t} : calls'[u] = calls[u]
      BY <1>3, <2>4
    <3>4. ~Connecting(t)' /\ HasFailed(calls'[t], M') /\ calls'[t].for.type \notin Acks
      BY <1>6, <3>2, <3>3 DEF Connecting, Opening, HasFailed
    <3>5. run' = RunLoop /\ run.pc = "none"
      BY <1>3, <2>2, <2>4
    <3> QED BY <1>1, <1>2, <2>4, <3>1, <3>2, <3>3, <3>4, <3>5, OpenerFlow
  <2> QED BY <1>3, <1>7, <2>3, <2>4 DEF AttemptFails
<1>8. CASE Attempt(t)
  <2>1. StartThread /\ v.pc = "attempt" /\ ~v.expired /\ tostop' = tostop /\ M.fd = 0
    BY <1>8 DEF Attempt, Attempting, PlaceInv, M
  <2>2. (UNCHANGED <<run, running>> /\ running) \/ (run' = RunLoop /\ running' /\ ~running)
    BY <1>3, <2>1 DEF StartThread
  <2>3. PICK now \in BOOLEAN :
          /\ c' = [c EXCEPT ![h].fd = NewFd, ![h].state = IF now THEN "connack" ELSE "tcp"]
          /\ net' = [net EXCEPT ![h] = [NoNet EXCEPT
                      !.tcp = IF now THEN "up" ELSE "connecting",
                      !.asked = IF now THEN {Of("CONNACK")} ELSE {}]]
          /\ calls' = [calls EXCEPT ![t].pc = "begin",
                                   ![t].for = Of(IF now THEN "CONNACK" ELSE "CONNECT")]
    BY <1>8 DEF Attempt
  <2>4. /\ M'.pack = M.pack /\ M'.sems = M.sems /\ M'.queue = M.queue /\ M'.life = M.life
        /\ M'.connected = M.connected /\ M'.state = IF now THEN "connack" ELSE "tcp"
        /\ \A g \in Handle : g # client => c'[g] = c[g]
    BY <1>3, <2>3 DEF ClientType
  <2>5. /\ N'.in = <<>> /\ ~N'.accepted /\ N'.asked = IF now THEN {Of("CONNACK")} ELSE {}
        /\ \A g \in Handle : g # client => net'[g] = net[g]
    <3>1. /\ N' = [NoNet EXCEPT !.tcp = IF now THEN "up" ELSE "connecting",
                                !.asked = IF now THEN {Of("CONNACK")} ELSE {}]
          /\ \A g \in Handle : g # client => net'[g] = net[g]
      BY <1>3, <2>3
    <3> QED BY <3>1 DEF NoNet
  <2>6. /\ calls'[t].pc = "begin" /\ calls'[t].version = v.version
        /\ calls'[t].for = Of(IF now THEN "CONNACK" ELSE "CONNECT")
        /\ \A u \in Threads \ {t} : calls'[u] = calls[u]
    BY <1>3, <2>3 DEF CallType
  <2>7. Carried = None /\ ConnectInv(calls'[t], N', M', Carried)
    <3>1. \/ calls'[t].for = Of("CONNECT") /\ M'.state = "tcp" /\ N'.asked = {}
          \/ calls'[t].for = Of("CONNACK") /\ M'.state = "connack" /\ N'.asked = {Of("CONNACK")}
      BY <2>4, <2>5, <2>6
    <3> HIDE DEF v
    <3>2. /\ v.pc = "attempt" /\ ~v.expired /\ calls'[t].version = v.version /\ calls'[t].pc = "begin"
          /\ M \in ClientType /\ M'.pack = M.pack /\ M'.sems = M.sems /\ M'.queue = M.queue
          /\ N'.in = <<>> /\ ~N'.accepted
      BY <1>3, <2>1, <2>4, <2>5, <2>6
    <3> QED BY <1>4, <3>1, <3>2, AttemptBegins
  <2>8. Carried' = None
    BY <1>1, <2>1, <2>2, <2>7, NoneFacts DEF Carried, Carrying, RunLoop
  <2>9. calls'[t].for.type \in {"CONNECT", "CONNACK"}
    BY <2>6 DEF Of, None
  <2>10. Connecting(t)' /\ GoesOn(calls'[t], N', M', Carried') /\ calls'[t].for.type \notin Acks
    BY <1>3, <2>4, <2>6, <2>7, <2>8, <2>9, AckTypes DEF Connecting, Opening, GoesOn, Up
  <2>11. Serving'
    BY <1>1, <1>3, <2>10 DEF Serving
  <2>12. (run' = run \/ run' = RunLoop) /\ (tostop => tostop') /\ (tostop' \/ ~running' => tostop \/ ~running)
    BY <2>1, <2>2
  <2> QED BY <1>1, <1>2, <2>1, <2>4, <2>5, <2>6, <2>10, <2>11, <2>12, OpenerFlow
<1>9. CASE ConnectTcpDone(t)
  <2>1. UNCHANGED <<run, running>> /\ v.pc = "got" /\ v.for.type = "CONNECT"
    BY <1>9 DEF ConnectTcpDone
  <2>2. CASE FailThen(t, M.pack)
    BY <1>1, <1>2, <1>3, <2>1, <2>2, FailThenFlow
  <2>3. CASE /\ c' = [c EXCEPT ![h].state = "connack"]
             /\ net' = [net EXCEPT ![h].asked = {Of("CONNACK")}]
             /\ calls' = [calls EXCEPT ![t].pc = "begin", ![t].for = Of("CONNACK")]
             /\ tostop' = tostop
    <3>1. /\ M'.pack = M.pack /\ M'.sems = M.sems /\ M'.queue = M.queue /\ M'.life = M.life
          /\ M'.connected = M.connected /\ M'.state = "connack" /\ M'.fd = M.fd
          /\ \A g \in Handle : g # client => c'[g] = c[g]
      BY <1>3, <2>3 DEF ClientType
    <3>2. /\ N'.in = N.in /\ N'.accepted = N.accepted /\ N'.tcp = N.tcp /\ N'.asked = {Of("CONNACK")}
          /\ \A g \in Handle : g # client => net'[g] = net[g]
      BY <1>3, <2>3 DEF NetType
    <3>3. /\ calls'[t].pc = "begin" /\ calls'[t].version = v.version
          /\ calls'[t].for = Of("CONNACK")
          /\ \A u \in Threads \ {t} : calls'[u] = calls[u]
      BY <1>3, <2>3 DEF CallType
    <3>4. Carried = None /\ ConnectInv(calls'[t], N', M', Carried)
      <4> HIDE DEF v
      <4>1. /\ v.pc = "got" /\ v.for.type = "CONNECT" /\ calls'[t].version = v.version /\ M \in ClientType
            /\ calls'[t].pc = "begin" /\ calls'[t].for = Of("CONNACK")
        BY <1>3, <2>1, <3>3
      <4> QED BY <1>4, <3>1, <3>2, <4>1, ConnectSent
    <3>5. Carried' = Carried
      BY <1>1, <2>1, <2>3 DEF Carried, Carrying
    <3>6. calls'[t].for.type = "CONNACK"
      BY <3>3 DEF Of, None
    <3>7. Connecting(t)' /\ GoesOn(calls'[t], N', M', Carried') /\ calls'[t].for.type \notin Acks
      BY <1>3, <3>1, <3>3, <3>4, <3>5, <3>6, AckTypes DEF Connecting, Opening, GoesOn, Up
    <3>8. Serving'
      BY <1>1, <1>3, <3>7 DEF Serving
    <3> QED BY <1>1, <1>2, <2>1, <2>3, <3>1, <3>2, <3>3, <3>7, <3>8, OpenerFlow
  <2> QED BY <1>3, <1>9, <2>2, <2>3 DEF ConnectTcpDone
<1>10. CASE ConnackDone(t)
  <2>1. UNCHANGED <<run, running>> /\ v.pc = "got" /\ v.for.type = "CONNACK"
    BY <1>10 DEF ConnackDone
  <2>2. v.got \in Connacks \cup {None} /\ (v.got # None => v.got.type = "CONNACK" /\ v.got.ok \in BOOLEAN)
    BY <1>4, <2>1 DEF ConnectInv, ConnectFlow, Connacks, Packet
  <2>3. \E ok \in {v.got # None /\ v.got.ok} :
          IF ok
          THEN /\ c' = [c EXCEPT ![h] = [Closed(c[h]) EXCEPT !.connected = TRUE, !.fd = c[h].fd,
                                                             !.pack = None]]
               /\ calls' = [calls EXCEPT ![t] = NoCall]
               /\ UNCHANGED <<net, mutex, tostop>>
          ELSE FailThen(t, IF v.got = None THEN M.pack ELSE None)
    <3>1. v.got.type # "CONNACK" => v.got = None
      BY <2>2
    <3>2. PICK ok \in (IF v.got.type = "CONNACK" THEN {v.got.ok} ELSE IF v.got = None THEN {FALSE} ELSE BOOLEAN) :
             IF ok
             THEN /\ c' = [c EXCEPT ![h] = [Closed(c[h]) EXCEPT !.connected = TRUE, !.fd = c[h].fd,
                                                                !.pack = None]]
                  /\ calls' = [calls EXCEPT ![t] = NoCall]
                  /\ UNCHANGED <<net, mutex, tostop>>
             ELSE FailThen(t, IF v.got = None THEN M.pack ELSE None)
      BY <1>3, <1>10 DEF ConnackDone
    <3>3. ok = (v.got # None /\ v.got.ok)
      BY <2>2, <3>2, NoneFacts
    <3> QED BY <3>2, <3>3
  <2>4. CASE /\ FailThen(t, IF v.got = None THEN M.pack ELSE None)
             /\ ~(v.got # None /\ v.got.ok)
    BY <1>1, <1>2, <1>3, <2>1, <2>4, FailThenFlow
  <2>5. CASE /\ v.got # None /\ v.got.ok /\ net' = net /\ tostop' = tostop
             /\ c' = [c EXCEPT ![h] = [Closed(c[h]) EXCEPT !.connected = TRUE, !.fd = c[h].fd, !.pack = None]]
             /\ calls' = [calls EXCEPT ![t] = NoCall]
    <3>1. /\ M' = [Closed(M) EXCEPT !.connected = TRUE, !.fd = M.fd, !.pack = None] /\ N' = N
          /\ \A g \in Handle : g # client => c'[g] = c[g] /\ net'[g] = net[g]
      BY <1>3, <2>5
    <3>2. /\ M'.life = "live" /\ M'.connected /\ M'.state = "none" /\ M'.pack = None /\ M'.sems = M.sems
      BY <1>3, <3>1 DEF Closed, ClientType
    <3>3. calls'[t] = NoCall /\ \A u \in Threads \ {t} : calls'[u] = calls[u]
      BY <1>3, <2>5
    <3>4. N.accepted /\ Empty(N, Carried)
      BY <1>4, <2>1, <2>5 DEF ConnectInv, ConnectLate, Counted
    <3>5. Carried' = Carried
      BY <1>1, <2>1, <2>5 DEF Carried, Carrying
    <3>6. \A l \in BOOLEAN : IdleInv(N', M', Carried', l)
      BY <1>4, <3>1, <3>2, <3>4, <3>5 DEF IdleInv, ConnectInv, ConnectFlow
    <3>7. ~Connecting(t)' /\ calls'[t].for.type \notin Acks /\ calls'[t].pc = "idle"
      BY <1>6, <3>3 DEF Connecting, Opening
    <3>8. Succeeds(calls'[t], N', M', Carried')
      BY <3>1, <3>2, <3>4, <3>6, <3>7 DEF Succeeds, Empty
    <3>9. Serving'
      BY <1>1, <1>3, <3>2 DEF Serving, Up
    <3> QED BY <1>1, <1>2, <1>3, <2>1, <2>5, <3>1, <3>2, <3>3, <3>7, <3>8, <3>9, OpenerFlow
  <2> QED BY <2>3, <2>4, <2>5
<1> QED BY <1>7, <1>8, <1>9, <1>10

-----------------------------------------------------------------------------
(* Requests, and the end of a session *)

\* A session that is closed brings a caller nothing.
LEMMA AskCloses ==
  ASSUME NEW n, NEW m, NEW m1, NEW k, NEW k1 \in {k, None}, NEW l, NEW v, NEW v1, AskInv(v, n, m, k, l),
         m1.pack = m.pack, m1.sems = m.sems,
         v1 = v \/ (v1.pc = "stopping" /\ v1.for = v.for)
  PROVE  AskInv(v1, NoNet, m1, k1, l)
<1>1. v1.for = v.for /\ (v1 = v \/ v1.pc = "stopping")
  OBVIOUS
<1>2. k1 \in {v.for} \cup {None} /\ (Empty(n, k) => k1 = None)
  BY DEF AskInv, AskFlow, Flow, Empty
<1>3. Flow(NoNet, k1, {v.for}) /\ (Empty(n, k) => Empty(NoNet, k1))
  BY <1>2, NoNetFlow
<1>4. AskFlow(v1, NoNet, m1, k1)
  BY <1>1, <1>3 DEF AskInv, AskFlow
<1>5. AskPosted(v1, m1, l)
  BY <1>1 DEF AskInv, AskPosted, Untaken
<1> QED BY <1>4, <1>5 DEF AskInv

\* The session of the client is closed while nobody connects.
LEMMA ClosesFlow ==
  ASSUME SafeInv, Typed, FlowInv, NEW t \in Threads, client # 0, CloseSession(client),
         \A u \in Threads : ~Opening(u),
         tostop' = (tostop \/ Last(running', c')),
         UNCHANGED <<client, run, running, stray, late>>,
         \A u \in Threads \ {t} : calls'[u] = calls[u], ~Opening(t)',
         Asks(t)' => Asks(t) /\ calls'[t].pc = "stopping" /\ ~Leaving(t)' /\ calls'[t].for = calls[t].for
                       /\ calls'[t].h = calls[t].h
  PROVE  FlowInv'
<1>1. /\ client \in Handle /\ M \in ClientType /\ c \in [Handle -> ClientType] /\ net \in [Handle -> NetType]
      /\ M = c[client] /\ M' = c'[client] /\ N = net[client] /\ N' = net'[client] /\ tostop \in BOOLEAN
  BY ClientHandle DEF Typed, M, N
<1>2. /\ M' = Closed(M) /\ N' = NoNet
      /\ \A g \in Handle : g # client => c'[g] = c[g] /\ net'[g] = net[g]
  BY <1>1 DEF CloseSession
<1>3. /\ M'.fd = 0 /\ ~M'.connected /\ M'.state = "none" /\ M'.life = M.life
      /\ M'.pack = M.pack /\ M'.sems = M.sems
  BY <1>1, <1>2 DEF Closed, ClientType
<1>4. \A u \in Threads : ~Opening(u)' /\ ~Connecting(u)'
  BY DEF Opening, Connecting
<1>5. \A g \in Handle : ~InUse(c'[g]) /\ ~Up(c'[g])
  <2>1. \A g \in Handle : ~InUse(c'[g])
    BY <1>1, <1>2, <1>3 DEF SafeInv, HandlesInv, InUse
  <2> QED BY <2>1 DEF InUse, Up
<1>6. ~Serving' /\ ~Up(M')
  BY <1>1, <1>4, <1>5 DEF Serving
<1>7. tostop' \/ run'.pc = "none"
  <2>1. tostop' \/ ~running
    BY <1>5 DEF Last
  <2> QED BY <2>1 DEF SafeInv, ThreadInv
<1>8. AskersInv'
  <2>1. \A u \in Threads : Asks(u)' => Asks(u) /\ calls'[u].h = calls[u].h /\ calls'[u].pc # "idle" /\ ~Alone(u)'
    <3> SUFFICES ASSUME NEW u \in Threads, Asks(u)'
                 PROVE  Asks(u) /\ calls'[u].h = calls[u].h /\ calls'[u].pc # "idle" /\ ~Alone(u)'
      OBVIOUS
    <3>1. CASE u = t
      BY <1>4, <3>1 DEF Alone
    <3>2. CASE u # t
      <4>1. Asks(u) /\ calls'[u] = calls[u]
        BY <3>2 DEF Asks
      <4> QED BY <4>1 DEF FlowInv, AskersInv, Alone, Opening, Leaving
    <3> QED BY <3>1, <3>2
  <2>2. \A u \in Threads : Asks(u)' => calls'[u].h = client'
    BY <2>1 DEF FlowInv, AskersInv
  <2>3. ~stray' => \A u, w \in Threads : Asks(u)' /\ Asks(w)' => u = w
    BY <2>1 DEF FlowInv, AskersInv
  <2> QED BY <1>4, <1>5, <2>1, <2>2, <2>3 DEF AskersInv
<1>9. SocketInv'
  <2>1. \A g \in Handle : c'[g].fd = 0
    BY <1>1, <1>2, <1>3 DEF FlowInv, SocketInv
  <2>2. \A g \in Handle : c'[g].life = "none" => net'[g] = NoNet
    BY <1>1, <1>2, <1>3 DEF FlowInv, SocketInv
  <2>3. M'.life # "none"
    BY <1>3 DEF FlowInv, SocketInv
  <2> QED BY <1>3, <1>6, <2>1, <2>2, <2>3 DEF SocketInv
<1>10. RunInv'
  <2>1. /\ run'.pc \in {"select", "chosen"} => run'.pack = None
        /\ run'.pc = "cycled" /\ run'.pack # None => run'.sock # 0
    BY DEF FlowInv, RunInv
  <2>2. run'.pc = "callback" => c'[run'.h].life # "none"
    <3>1. run.pc = "callback" => run.h \in Handle /\ c[run.h].life # "none"
      BY DEF SafeInv, ThreadInv, FlowInv, RunInv
    <3> QED BY <1>1, <1>2, <1>3, <3>1
  <2>3. run'.pc \in {"chosen", "cycled"} => tostop'
    BY <1>7
  <2> QED BY <1>4, <2>1, <2>2, <2>3 DEF RunInv
<1>11. Carried' \in {Carried, None}
  BY <1>1 DEF Carried, Carrying
<1>12. ASSUME NEW u \in Threads, Asks(u)', ~stray' PROVE AskInv(calls'[u], N', M', Carried', late')
  <2>1. Asks(u)
    BY <1>12 DEF Asks
  <2>2. AskInv(calls[u], N, M, Carried, late)
    BY <1>12, <2>1 DEF FlowInv, CallerInv
  <2>3. calls'[u] = calls[u] \/ (calls'[u].pc = "stopping" /\ calls'[u].for = calls[u].for)
    BY <1>12
  <2>4. AskInv(calls'[u], NoNet, M', Carried', late)
    BY <1>3, <1>11, <2>2, <2>3, AskCloses
  <2> QED BY <1>2, <2>4
<1>13. CallerInv'
  BY <1>4, <1>6, <1>12 DEF CallerInv
<1> QED BY <1>8, <1>9, <1>10, <1>13 DEF FlowInv

\* A request is written to a session that waits for nothing.
LEMMA AskBegins ==
  ASSUME NEW n \in NetType, NEW n1, NEW m, NEW m1, NEW k, NEW l, NEW v1, NEW ask, IdleInv(n, m, k, l),
         n1.in = n.in, n1.asked = n.asked \cup {ask}, m1.pack = m.pack, m1.sems = m.sems,
         v1.pc = "begin", v1.for = ask
  PROVE  AskInv(v1, n1, m1, k, l)
<1>1. AnswersIn(n1) = {} /\ k = None /\ n1.asked = {ask} /\ m1.pack = None
  BY DEF IdleInv, Empty, AnswersIn
<1>2. AskFlow(v1, n1, m1, k)
  BY <1>1 DEF AskFlow, Flow
<1>3. AskPosted(v1, m1, l)
  BY DEF AskPosted, IdleInv
<1> QED BY <1>2, <1>3 DEF AskInv

LEMMA AskStep ==
  ASSUME SafeInv, Typed, FlowInv, NEW t \in Threads, NEW kind \in Acks, Ask(t, kind)
  PROVE  FlowInv'
<1> DEFINE ask == [type |-> kind, id |-> c[client].msgID + 1, ok |-> TRUE]
           call == [NoCall EXCEPT !.pc = "begin", !.h = client, !.for = ask]
<1>1. /\ client \in Handle /\ client # 0 /\ M \in ClientType /\ N \in NetType /\ Up(M)
      /\ c \in [Handle -> ClientType] /\ net \in [Handle -> NetType] /\ calls \in [Threads -> CallType]
      /\ M = c[client] /\ M' = c'[client] /\ N = net[client] /\ N' = net'[client]
      /\ calls[t].pc = "idle" /\ UNCHANGED <<client, run, running, late>> /\ tostop \in BOOLEAN
      /\ stray \in BOOLEAN
  <2>1. client \in Handle /\ client # 0
    BY Constants DEF Ask, Live, Handle
  <2> QED BY <2>1, ClientHandle DEF Ask, Live, Up, Typed, M, N
<1>2. /\ \A u \in Threads : ~Opening(u) /\ calls[u].pc # "stopping"
      /\ ~Asks(t)
  BY <1>1 DEF SafeInv, HandlesInv, FlowInv, AskersInv
<1>3. CASE CloseSession(client) /\ Stop(t, "idle") /\ stray' = stray
  <2>1. tostop' = (tostop \/ Last(running', c'))
    BY <1>3 DEF Stop
  <2>2. running' \in BOOLEAN /\ CallTable
    BY <1>1 DEF SafeInv, Shape, Flags
  <2>3. /\ \A u \in Threads \ {t} : calls'[u] = calls[u]
        /\ calls'[t] = NoCall \/ (calls'[t].for = calls[t].for /\ calls'[t].pc = "stopping")
    BY <1>1, <1>3, <2>2, StopFacts
  <2>4. ~Opening(t)' /\ ~Asks(t)'
    BY <1>2, <2>3, IdleCall, AckTypes DEF Opening, Asks
  <2> QED BY <1>1, <1>2, <1>3, <2>1, <2>3, <2>4, ClosesFlow
<1>4. CASE /\ c' = [c EXCEPT ![client].msgID = ask.id]
           /\ net' = [net EXCEPT ![client].asked = net[client].asked \cup {ask}]
           /\ tostop' = tostop
           /\ \/ /\ calls' = [calls EXCEPT ![t] = call]
                 /\ stray' = IF \E k \in Acks : Asking(client, k) THEN TRUE ELSE stray
              \/ calls' = calls /\ stray' = TRUE
  <2>0. ask.type = kind /\ "begin" # "stopping"
    OBVIOUS
  <2> HIDE DEF ask
  <2>1. call.for = ask /\ call.pc = "begin" /\ call.h = client
    BY DEF NoCall
  <2> HIDE DEF call
  <2>2. /\ \A u \in Threads \ {t} : calls'[u] = calls[u]
        /\ calls'[t] = call \/ (calls'[t] = calls[t] /\ stray')
    BY <1>1, <1>4
  <2>3. /\ M'.pack = M.pack /\ M'.sems = M.sems /\ M'.life = M.life /\ M'.fd = M.fd
        /\ M'.connected = M.connected /\ M'.state = M.state
        /\ \A g \in Handle : g # client => c'[g] = c[g] /\ net'[g] = net[g]
    BY <1>1, <1>4 DEF ClientType
  <2>4. /\ N'.in = N.in /\ N'.accepted = N.accepted /\ N'.asked = N.asked \cup {ask}
    BY <1>1, <1>4 DEF NetType
  <2>5. \A u \in Threads : ~Opening(u)' /\ ~Connecting(u)' /\ calls'[u].pc # "stopping"
    <3>1. call.pc # "attempt" /\ call.for.type \notin {"CONNECT", "CONNACK"}
      BY <2>0, <2>1, AckTypes
    <3> QED BY <1>2, <2>1, <2>2, <3>1 DEF Opening, Connecting
  <2>6. ~stray' => ~stray /\ \A u \in Threads : ~Asks(u)
    <3>1. \A u \in Threads : Asks(u) => Asking(client, calls[u].for.type) /\ calls[u].for.type \in Acks
      BY DEF Asks, Asking, FlowInv, AskersInv
    <3> QED BY <1>4, <3>1
  <2>7. \A u \in Threads \ {t} : Asks(u)' => Asks(u)
    BY <2>2 DEF Asks
  <2>8. Carried' = Carried
    BY <1>1, <1>4 DEF Carried, Carrying
  <2>9. AskersInv'
    <3>1. \A u \in Threads : Asks(u)' => calls'[u].h = client' /\ calls'[u].pc # "idle" /\ ~Alone(u)'
      <4>1. call.pc # "idle" /\ call.pc \notin {"destroy", "terminate", "stopping"}
        BY <2>1
      <4>2. ASSUME NEW u \in Threads, Asks(u)', calls'[u] = calls[u]
            PROVE  calls'[u].h = client' /\ calls'[u].pc # "idle" /\ ~Alone(u)'
        <5>1. Asks(u)
          BY <4>2 DEF Asks
        <5> QED BY <1>1, <4>2, <5>1 DEF FlowInv, AskersInv, Alone, Opening, Leaving
      <4>3. calls'[t] = call => calls'[t].h = client' /\ calls'[t].pc # "idle" /\ ~Alone(t)'
        BY <1>1, <2>1, <2>5, <4>1 DEF Alone, Leaving
      <4> QED BY <2>2, <4>2, <4>3
    <3>2. ~stray' => \A u, w \in Threads : Asks(u)' /\ Asks(w)' => u = w
      BY <2>6, <2>7
    <3> QED BY <1>1, <2>5, <3>1, <3>2 DEF AskersInv
  <2>10. Serving' /\ Serving /\ Up(M')
    BY <1>1, <2>3 DEF Serving, Up
  <2>11. SocketInv'
    <3>1. \A g \in Handle : c'[g].fd # 0 => g = client' /\ Serving'
      BY <1>1, <2>3, <2>10 DEF FlowInv, SocketInv
    <3>2. M'.life = "live"
      BY <2>10 DEF Up
    <3>3. \A g \in Handle : c'[g].life = "none" => net'[g] = NoNet
      BY <1>1, <2>3, <3>2 DEF FlowInv, SocketInv
    <3>4. M'.state = "none"
      BY <1>1, <1>2, <2>3 DEF FlowInv, SocketInv, Connecting
    <3>5. N'.accepted /\ \A a \in N'.asked : a.type \in Acks
      BY <1>1, <2>0, <2>4 DEF FlowInv, SocketInv
    <3> QED BY <3>1, <3>2, <3>3, <3>4, <3>5 DEF SocketInv
  <2>12. RunInv'
    <3>1. \A g \in Handle : c'[g].life = c[g].life
      BY <1>1, <2>3
    <3>2. run.pc = "callback" => run.h \in Handle
      BY DEF SafeInv, ThreadInv
    <3> QED BY <1>1, <2>5, <2>10, <3>1, <3>2 DEF FlowInv, RunInv
  <2>13. CallerInv'
    <3>1. ASSUME NEW u \in Threads, Asks(u)', ~stray' PROVE AskInv(calls'[u], N', M', Carried', late')
      <4>1. u = t /\ calls'[t] = call
        BY <1>2, <2>2, <2>6, <2>7, <3>1
      <4>2. IdleInv(N, M, Carried, late)
        BY <1>1, <2>6, <3>1 DEF FlowInv, CallerInv
      <4>3. AskInv(call, N', M', Carried, late)
        BY <1>1, <2>1, <2>3, <2>4, <4>2, AskBegins
      <4> QED BY <1>1, <2>8, <4>1, <4>3
    <3>2. ~stray' => Asks(t)'
      BY <2>0, <2>1, <2>2 DEF Asks
    <3> QED BY <2>5, <3>1, <3>2 DEF CallerInv
  <2> QED BY <2>9, <2>11, <2>12, <2>13 DEF FlowInv
<1> QED BY <1>3, <1>4 DEF Ask

LEMMA AskDoneFlow ==
  ASSUME SafeInv, Typed, FlowInv, NEW t \in Threads, AskDone(t)
  PROVE  FlowInv'
<1> DEFINE v == calls[t]
<1>1. /\ v.pc = "got" /\ Asks(t) /\ UNCHANGED <<client, run, running, stray, late>>
      /\ v \in CallType /\ calls \in [Threads -> CallType] /\ c \in [Handle -> ClientType]
      /\ tostop \in BOOLEAN /\ stray \in BOOLEAN /\ late \in BOOLEAN
  BY DEF AskDone, Asks, Typed
<1>2. /\ v.h = client /\ client # 0 /\ client \in Handle /\ ~Alone(t)
      /\ M = c[client] /\ M' = c'[client] /\ N = net[client] /\ M \in ClientType
  BY <1>1, ClientHandle DEF FlowInv, AskersInv, M, N
<1>3. \A u \in Threads : ~Opening(u) /\ ~Connecting(u)
  <2> SUFFICES ASSUME NEW u \in Threads, Opening(u) PROVE FALSE
    BY DEF Connecting
  <2> QED BY <1>1, <1>2 DEF SafeInv, CallsInv, Alone
<1>4. NoCall.pc = "idle" /\ NoCall.for.type = "none"
  BY IdleCall
<1>5. CASE /\ v.got # None
           /\ c' = [c EXCEPT ![client].pack = None] /\ calls' = [calls EXCEPT ![t] = NoCall]
           /\ UNCHANGED <<net, tostop>>
  <2>1. /\ calls'[t] = NoCall /\ \A u \in Threads \ {t} : calls'[u] = calls[u]
        /\ N' = N
    BY <1>1, <1>5 DEF N
  <2>2. \A g \in Handle : /\ c'[g].life = c[g].life /\ c'[g].fd = c[g].fd /\ c'[g].pack \in {c[g].pack, None}
                          /\ c'[g].connected = c[g].connected /\ c'[g].state = c[g].state
    <3>1. \A g \in Handle : c'[g] = IF g = client THEN [c[client] EXCEPT !.pack = None] ELSE c[g]
      BY <1>1, <1>5
    <3> QED BY <1>1, <1>2, <3>1 DEF ClientType
  <2>3. M'.pack = None /\ M'.sems = M.sems /\ Up(M') = Up(M)
    BY <1>1, <1>2, <1>5 DEF ClientType, Up
  <2>4. \A u \in Threads : ~Opening(u)' /\ ~Connecting(u)' /\ (Asks(u)' => u # t /\ Asks(u))
    BY <1>3, <1>4, <2>1, AckTypes DEF Opening, Connecting, Asks
  <2>5. SocketInv' /\ RunInv' /\ Carried' = Carried
    BY <1>1, <1>3, <1>5, <2>2, <2>4, SameSockets
  <2>6. AskersInv'
    <3>1. \A u \in Threads : Asks(u)' => calls'[u].h = client' /\ client' # 0 /\ calls'[u].pc # "idle" /\ ~Alone(u)'
      <4> SUFFICES ASSUME NEW u \in Threads, Asks(u)'
                   PROVE  calls'[u].h = client' /\ client' # 0 /\ calls'[u].pc # "idle" /\ ~Alone(u)'
        OBVIOUS
      <4>1. Asks(u) /\ calls'[u] = calls[u]
        BY <2>1, <2>4
      <4> QED BY <1>1, <4>1 DEF FlowInv, AskersInv, Alone, Opening, Leaving
    <3>2. ~stray' => \A u, w \in Threads : Asks(u)' /\ Asks(w)' => u = w
      BY <1>1, <2>4 DEF FlowInv, AskersInv
    <3>3. \A u \in Threads : calls'[u].pc = "stopping" => \A g \in Handle : ~Up(c'[g])
      <4>1. \A u \in Threads : calls'[u].pc = "stopping" => calls[u].pc = "stopping"
        BY <1>4, <2>1
      <4> QED BY <2>2, <4>1 DEF FlowInv, AskersInv, Up
    <3> QED BY <2>4, <3>1, <3>2, <3>3 DEF AskersInv
  <2>7. CallerInv'
    <3>1. ~stray' => \A u \in Threads : ~Asks(u)'
      BY <1>1, <2>4 DEF FlowInv, AskersInv
    <3>2. ASSUME ~stray' PROVE IdleInv(N', M', Carried', late')
      <4>1. AskInv(v, N, M, Carried, late)
        BY <1>1, <3>2 DEF FlowInv, CallerInv
      <4>2. Empty(N, Carried)
        BY <1>1, <1>5, <4>1 DEF AskInv, AskFlow
      <4>3. ~late => M.sems \cap Acks = {}
        BY <1>1, <1>5, <4>1 DEF AskInv, AskPosted, Untaken
      <4> QED BY <1>1, <2>1, <2>3, <2>5, <4>2, <4>3 DEF IdleInv
    <3> QED BY <2>4, <3>1, <3>2 DEF CallerInv
  <2> QED BY <2>5, <2>6, <2>7 DEF FlowInv
<1>6. CASE v.got = None /\ CloseSession(client) /\ Stop(t, "idle")
  <2>1. tostop' = (tostop \/ Last(running', c'))
    BY <1>6 DEF Stop
  <2>2. running' \in BOOLEAN /\ CallTable
    BY <1>1 DEF SafeInv, Shape, Flags
  <2>3. /\ \A u \in Threads \ {t} : calls'[u] = calls[u]
        /\ \/ calls'[t] = NoCall
           \/ /\ calls'[t].for = v.for /\ calls'[t].pc = "stopping" /\ calls'[t].next = "idle"
              /\ calls'[t].h = v.h
    BY <1>1, <1>6, <2>2, StopFacts
  <2>4. ~Opening(t)'
    BY <1>1, <1>4, <2>3, AckTypes DEF Opening, Asks
  <2>5. Asks(t)' => Asks(t) /\ calls'[t].pc = "stopping" /\ ~Leaving(t)' /\ calls'[t].for = calls[t].for
                       /\ calls'[t].h = calls[t].h
    BY <1>1, <1>4, <2>3, AckTypes DEF Asks, Leaving
  <2> QED BY <1>1, <1>2, <1>3, <1>6, <2>1, <2>3, <2>4, <2>5, ClosesFlow
<1> QED BY <1>2, <1>5, <1>6 DEF AskDone

LEMMA DisconnectFlow ==
  ASSUME SafeInv, Typed, FlowInv, NEW t \in Threads, Disconnect(t)
  PROVE  FlowInv'
<1>1. /\ client # 0 /\ CloseSession(client) /\ tostop' = (tostop \/ Last(running', c'))
      /\ UNCHANGED <<client, run, running, stray, late>>
      /\ \A u \in Threads : calls[u].pc = "idle"
  BY DEF Disconnect, Quiet
<1>2. \A u \in Threads : ~Opening(u)
  BY <1>1 DEF SafeInv, CallsInv
<1>3. /\ \A u \in Threads \ {t} : calls'[u] = calls[u]
      /\ calls'[t] = [NoCall EXCEPT !.pc = IF Last(running', c') THEN "stopping" ELSE "destroy",
                                    !.h = client, !.next = "destroy"]
  BY DEF Disconnect, Typed
<1>4. calls'[t].pc \in {"stopping", "destroy"} /\ calls'[t].for = None
  BY <1>3 DEF NoCall
<1>5. ~Opening(t)' /\ ~Asks(t)'
  BY <1>4, AckTypes, NoneFacts DEF Opening, Asks
<1> QED BY <1>1, <1>2, <1>3, <1>5, ClosesFlow

\* A thread that takes the connection down: nothing is under way.
LEMMA LeavingFlow ==
  ASSUME SafeInv, Typed, FlowInv, NEW t \in Threads, Leaving(t)
  PROVE  /\ \A u \in Threads : ~Opening(u) /\ ~Connecting(u) /\ ~Asks(u)
         /\ \A u \in Threads \ {t} : calls[u].pc = "idle"
         /\ \A g \in Handle : ~Up(c[g]) /\ c[g].fd = 0
         /\ ~Serving
<1>1. \A u \in Threads \ {t} : calls[u].pc = "idle"
  BY DEF SafeInv, CallsInv, Alone
<1>2. \A u \in Threads : ~Opening(u) /\ ~Connecting(u)
  BY <1>1 DEF SafeInv, CallsInv, Connecting, IsConnect, Opening
<1>3. \A u \in Threads : ~Asks(u)
  BY <1>1 DEF FlowInv, AskersInv, Alone
<1>4. \A g \in Handle : ~Up(c[g])
  BY DEF SafeInv, HandlesInv, InUse, Up
<1>5. ~Serving
  BY <1>2, <1>4, ClientHandle DEF Serving, M
<1>6. \A g \in Handle : c[g].fd = 0
  BY <1>5 DEF FlowInv, SocketInv
<1> QED BY <1>1, <1>2, <1>3, <1>4, <1>5, <1>6

LEMMA DestroyFlow ==
  ASSUME SafeInv, Typed, FlowInv, NEW t \in Threads, Destroy(t)
  PROVE  FlowInv'
<1>1. /\ calls[t].pc = "destroy" /\ client' = 0 /\ UNCHANGED <<net, run, running, stray, late>>
      /\ c' = [c EXCEPT ![calls[t].h] = [Fresh EXCEPT !.life = "freed"]]
      /\ Stop(t, "terminate") \/ (calls' = [calls EXCEPT ![t] = NoCall] /\ tostop' = tostop)
      /\ tostop \in BOOLEAN /\ calls \in [Threads -> CallType]
  BY DEF Destroy, Typed
<1>2. Leaving(t)
  BY <1>1 DEF Leaving
<1>3. /\ \A u \in Threads : ~Opening(u) /\ ~Connecting(u) /\ ~Asks(u)
      /\ \A u \in Threads \ {t} : calls[u].pc = "idle"
      /\ \A g \in Handle : ~Up(c[g]) /\ c[g].fd = 0
      /\ ~Serving
  BY <1>2, LeavingFlow
<1>4. \A g \in Handle : /\ c'[g].fd = 0 /\ ~Up(c'[g])
                        /\ c'[g].life = c[g].life \/ c'[g].life = "freed"
  <2>1. \A g \in Handle : c'[g] = c[g] \/ c'[g] = [Fresh EXCEPT !.life = "freed"]
    BY <1>1 DEF Typed
  <2>2. [Fresh EXCEPT !.life = "freed"].fd = 0 /\ [Fresh EXCEPT !.life = "freed"].life = "freed"
    BY DEF Fresh
  <2> QED BY <1>3, <2>1, <2>2 DEF Up
<1>5. /\ \A u \in Threads \ {t} : calls'[u] = calls[u]
      /\ calls'[t] = NoCall \/ (calls'[t].for = calls[t].for /\ calls'[t].pc # "attempt")
      /\ tostop => tostop'
  <2>1. CASE Stop(t, "terminate")
    <3>1. running' \in BOOLEAN /\ CallTable
      BY <1>1 DEF SafeInv, Shape, Flags
    <3>2. tostop' = (tostop \/ Last(running', c'))
      BY <2>1 DEF Stop
    <3>3. /\ \A u \in Threads \ {t} : calls'[u] = calls[u]
          /\ calls'[t].for = calls[t].for /\ calls'[t].pc \in {"stopping", "terminate"}
      BY <1>1, <2>1, <3>1, StopFacts
    <3> QED BY <3>2, <3>3
  <2>2. CASE calls' = [calls EXCEPT ![t] = NoCall] /\ tostop' = tostop
    BY <1>1, <2>2
  <2> QED BY <1>1, <2>1, <2>2
<1>6. \A u \in Threads : ~Opening(u)' /\ ~Connecting(u)' /\ ~Asks(u)'
  <2>1. ~Opening(t)' /\ ~Asks(t)'
    BY <1>1, <1>3, <1>5, IdleCall, AckTypes DEF Opening, Asks
  <2> QED BY <1>3, <1>5, <2>1 DEF Opening, Connecting, Asks
<1>7. AskersInv'
  BY <1>4, <1>6 DEF AskersInv
<1>8. SocketInv'
  BY <1>1, <1>4, <1>6 DEF SocketInv, Serving, FlowInv
<1>9. RunInv'
  <2>1. run.pc = "callback" => run.h \in Handle
    BY DEF SafeInv, ThreadInv
  <2>2. run'.pc = "callback" => c'[run'.h].life # "none"
    BY <1>1, <1>4, <2>1 DEF FlowInv, RunInv
  <2> QED BY <1>1, <1>3, <1>5, <1>6, <2>2 DEF FlowInv, RunInv
<1>10. CallerInv'
  BY <1>1, <1>6 DEF CallerInv
<1> QED BY <1>7, <1>8, <1>9, <1>10 DEF FlowInv

\* The wait for the thread ends, or the lists are freed: nothing of a connection changes.
LEMMA LeavesFlow ==
  ASSUME SafeInv, Typed, FlowInv, NEW t \in Threads, Terminate(t) \/ StopWaited(t)
  PROVE  FlowInv'
<1>1. /\ UNCHANGED <<client, c, net, run, running, tostop, stray, late>>
      /\ calls[t].pc \in {"terminate", "stopping"} /\ calls \in [Threads -> CallType]
  BY DEF Terminate, StopWaited, library, Typed
<1>2. /\ \A u \in Threads \ {t} : calls'[u] = calls[u]
      /\ \/ calls'[t] = NoCall
         \/ Leaving(t) /\ calls'[t].for = calls[t].for /\ calls'[t].pc \in {"destroy", "terminate"}
  <2>1. CASE Terminate(t)
    BY <1>1, <2>1 DEF Terminate
  <2>2. CASE StopWaited(t)
    <3>1. calls[t].pc = "stopping" /\ calls[t].next \in {"idle", "destroy", "terminate"}
      BY <2>2 DEF StopWaited, SafeInv, CallsInv
    <3>2. calls' = [calls EXCEPT ![t] = IF calls[t].next = "idle" THEN NoCall ELSE [calls[t] EXCEPT !.pc = calls[t].next]]
      BY <2>2 DEF StopWaited
    <3>3. calls'[t] = NoCall \/ (calls[t].next # "idle" /\ calls'[t].for = calls[t].for /\ calls'[t].pc = calls[t].next)
      BY <1>1, <3>2 DEF CallType
    <3> QED BY <1>1, <3>1, <3>2, <3>3 DEF Leaving
  <2> QED BY <2>1, <2>2
<1>3. Leaving(t) => ~Asks(t) /\ ~Opening(t) /\ ~IsConnect(t)
  <2>1. \A u \in Threads : Leaving(u) => ~IsConnect(u)
    BY DEF SafeInv, CallsInv
  <2> QED BY <2>1, LeavingFlow
<1>4. /\ ~Opening(t)' /\ ~Asks(t)' /\ ~Connecting(t)' /\ calls'[t].pc # "stopping"
      /\ ~Connecting(t)
  <2>1. NoCall.pc = "idle" /\ NoCall.for.type = "none"
    BY IdleCall
  <2>2. ~Opening(t)' /\ ~Asks(t)' /\ calls'[t].pc # "stopping"
    BY <1>2, <1>3, <2>1, AckTypes DEF Opening, IsConnect, Asks
  <2>3. ~Connecting(t)
    BY <1>1, <1>3 DEF Connecting, Leaving
  <2> QED BY <2>2, <2>3 DEF Connecting
<1>5. \A g \in Handle : ~Up(c[g])
  BY <1>1, LeavingFlow DEF Leaving, FlowInv, AskersInv
<1>6. \A u \in Threads : /\ Connecting(u)' <=> Connecting(u)
                         /\ Connecting(u) => calls'[u] = calls[u]
                         /\ Asks(u)' => Asks(u) /\ u # t
                         /\ Opening(u)' => Opening(u)
  BY <1>2, <1>4 DEF Connecting, Opening, Asks
<1>7. SocketInv' /\ RunInv' /\ Carried' = Carried
  BY <1>1, <1>6, SameSockets
<1>8. AskersInv'
  <2>1. \A u \in Threads : Asks(u)' => calls'[u].h = client' /\ client' # 0 /\ calls'[u].pc # "idle" /\ ~Alone(u)'
    <3> SUFFICES ASSUME NEW u \in Threads, Asks(u)'
                 PROVE  calls'[u].h = client' /\ client' # 0 /\ calls'[u].pc # "idle" /\ ~Alone(u)'
      OBVIOUS
    <3>1. Asks(u) /\ calls'[u] = calls[u]
      BY <1>2, <1>6
    <3> QED BY <1>1, <3>1 DEF FlowInv, AskersInv, Alone, Opening, Leaving
  <2>2. ~stray' => \A u, w \in Threads : Asks(u)' /\ Asks(w)' => u = w
    BY <1>1, <1>6 DEF FlowInv, AskersInv
  <2>3. (\E u \in Threads : Opening(u)') => ~stray'
    BY <1>1, <1>6 DEF FlowInv, AskersInv
  <2> QED BY <1>1, <1>5, <2>1, <2>2, <2>3 DEF AskersInv
<1>9. CallerInv'
  <2>1. N' = N /\ M' = M /\ client' = client /\ late' = late /\ stray' = stray
    BY <1>1 DEF N, M
  <2>2. ~(client' # 0 /\ Up(M'))
    BY <1>5, <2>1, ClientHandle DEF M
  <2>3. \A u \in Threads : Asks(u)' => Asks(u) /\ calls'[u] = calls[u]
    BY <1>2, <1>6
  <2> QED BY <1>6, <1>7, <2>1, <2>2, <2>3 DEF FlowInv, CallerInv
<1> QED BY <1>7, <1>8, <1>9 DEF FlowInv

LEMMA OpenFlow ==
  ASSUME SafeInv, Typed, FlowInv, NEW t \in Threads, Open(t)
  PROVE  FlowInv'
<1>1. PICK h \in Handle :
        /\ c[h].life = "none"
        /\ c' = [g \in Handle |-> IF g = h THEN Fresh
                                  ELSE [c[g] EXCEPT !.pack = None, !.sems = {}, !.rc = "ok"]]
        /\ client' = h
        /\ calls' = [calls EXCEPT ![t] = [NoCall EXCEPT !.pc = "attempt", !.h = h]]
  BY DEF Open
<1>2. /\ \A u \in Threads : calls[u].pc = "idle"
      /\ \A g \in Handle : ~InUse(c[g])
      /\ stray' = FALSE /\ late' = FALSE /\ UNCHANGED <<net, run, running, tostop>>
  BY DEF Open, Quiet
<1>3. \A u \in Threads : ~Opening(u) /\ ~Connecting(u) /\ ~Asks(u)
  BY <1>2 DEF SafeInv, CallsInv, FlowInv, AskersInv, Connecting
<1>4. ~Serving
  BY <1>2, <1>3, ClientHandle DEF Serving, M, InUse, Up
<1>5. \A g \in Handle : c[g].fd = 0
  BY <1>4 DEF FlowInv, SocketInv
<1>6. /\ \A g \in Handle : c'[g].fd = 0 /\ ~Up(c'[g]) /\ (g # h => c'[g].life = c[g].life)
      /\ c'[h].life = "live" /\ c'[h].state = "none" /\ c'[h].pack = None /\ c'[h].sems = {}
      /\ ~c'[h].queue /\ ~c'[h].connected
  <2>1. /\ Fresh.fd = 0 /\ Fresh.life = "live" /\ ~Fresh.connected /\ Fresh.state = "none"
        /\ Fresh.pack = None /\ Fresh.sems = {} /\ ~Fresh.queue
    BY DEF Fresh
  <2>2. \A g \in Handle : g # h =>
           c'[g].fd = 0 /\ c'[g].life = c[g].life /\ c'[g].connected = c[g].connected
    BY <1>1, <1>5 DEF Typed, ClientType
  <2> QED BY <1>1, <1>2, <2>1, <2>2 DEF Up, InUse
<1>7. /\ \A u \in Threads \ {t} : calls'[u] = calls[u]
      /\ calls'[t].pc = "attempt" /\ calls'[t].for = None /\ ~calls'[t].expired
  BY <1>1 DEF Typed, NoCall
<1>8. /\ client' # 0 /\ client' \in Handle /\ M' = c'[h] /\ N' = net[h] /\ net[h] = NoNet
      /\ RunInv /\ client' = h
  <2>1. client' = h /\ client' \in Handle
    BY <1>1
  <2>2. client' # 0
    BY <2>1, Constants DEF Handle
  <2>3. M' = c'[h]
    BY <2>1 DEF M
  <2>4. N' = net[h]
    BY <1>2, <2>1 DEF N
  <2>5. net[h] = NoNet
    BY <1>1 DEF FlowInv, SocketInv
  <2>6. RunInv
    BY DEF FlowInv
  <2> QED BY <2>1, <2>2, <2>3, <2>4, <2>5, <2>6
<1>9. /\ \A u \in Threads : ~Asks(u)' /\ (Connecting(u)' => u = t) /\ calls'[u].pc # "stopping"
      /\ Connecting(t)'
  BY <1>2, <1>3, <1>7, AckTypes, NoneFacts DEF Asks, Connecting, Opening
<1>10. run.pc \in {"chosen", "cycled"} => run.sock = 0 \/ tostop
  BY <1>4, <1>8 DEF RunInv
<1>11. run.pc = "callback" => run.h \in Handle /\ run.h # h /\ c[run.h].life # "none"
  BY <1>1, <1>8 DEF SafeInv, ThreadInv, RunInv
<1>12. Carried' = None
  BY <1>2, <1>8, <1>10, <1>11 DEF Carried, Carrying, RunInv
<1>13. ConnectInv(calls'[t], N', M', Carried')
  <2>1. NoNet.in = <<>> /\ ~NoNet.accepted /\ Empty(NoNet, None) /\ Flow(NoNet, None, Connacks)
    BY NoNetFlow
  <2>2. calls'[t].for.type = "none"
    BY <1>7, NoneFacts
  <2>3. ConnectFlow(calls'[t], NoNet, c'[h], None)
    BY <1>6, <1>7, <2>1 DEF ConnectFlow
  <2>4. ConnectEarly(calls'[t], NoNet, c'[h], None)
    BY <1>6, <1>7, <2>1 DEF ConnectEarly, Counted
  <2>5. ConnectLate(calls'[t], NoNet, c'[h], None) /\ ConnectFirst(calls'[t], NoNet, c'[h], None)
    BY <2>2 DEF ConnectLate, ConnectFirst
  <2> QED BY <1>8, <1>12, <2>3, <2>4, <2>5 DEF ConnectInv
<1>14. AskersInv'
  BY <1>2, <1>9 DEF AskersInv
<1>15. SocketInv'
  <2>1. \A g \in Handle : c'[g].life = "none" => net'[g] = NoNet
    BY <1>2, <1>6 DEF FlowInv, SocketInv
  <2> QED BY <1>6, <1>8, <2>1 DEF SocketInv
<1>16. RunInv'
  <2>1. /\ run'.pc \in {"select", "chosen"} => run'.pack = None
        /\ run'.pc = "cycled" /\ run'.pack # None => run'.sock # 0
    BY <1>2, <1>8 DEF RunInv
  <2>2. run'.pc = "callback" => c'[run'.h].life # "none" /\ run'.h # client'
    BY <1>2, <1>6, <1>8, <1>11
  <2>3. M'.pack = None
    BY <1>6, <1>8
  <2> QED BY <1>2, <1>10, <2>1, <2>2, <2>3 DEF RunInv
<1>17. CallerInv'
  BY <1>6, <1>8, <1>9, <1>13 DEF CallerInv
<1> QED BY <1>14, <1>15, <1>16, <1>17 DEF FlowInv

LEMMA FlowInit == Init => FlowInv
<1> SUFFICES ASSUME Init PROVE FlowInv
  OBVIOUS
<1>1. /\ client = 0 /\ run = NoRun /\ calls = [t \in Threads |-> NoCall]
      /\ \A h \in Handle : c[h] = [Fresh EXCEPT !.life = "none"] /\ net[h] = NoNet
  BY DEF Init
<1>2. \A h \in Handle : c[h].fd = 0 /\ c[h].life = "none"
  <2>1. [Fresh EXCEPT !.life = "none"].fd = 0 /\ [Fresh EXCEPT !.life = "none"].life = "none"
    BY DEF Fresh
  <2> QED BY <1>1, <2>1
<1>3. \A t \in Threads : calls[t].pc = "idle" /\ ~Opening(t) /\ ~Connecting(t) /\ ~Asks(t)
  BY <1>1, IdleCall, AckTypes DEF Opening, Connecting, Asks
<1>4. run.pc = "none"
  BY <1>1 DEF NoRun, RunLoop
<1>5. AskersInv
  BY <1>3 DEF AskersInv
<1>6. SocketInv
  BY <1>1, <1>2 DEF SocketInv, Serving
<1>7. RunInv
  BY <1>3, <1>4 DEF RunInv
<1>8. CallerInv
  BY <1>1, <1>3 DEF CallerInv
<1> QED BY <1>5, <1>6, <1>7, <1>8 DEF FlowInv

LEMMA FlowStep == SafeInv /\ Typed /\ PlaceInv /\ FlowInv /\ [Next]_vars => FlowInv'
<1>1. ASSUME SafeInv, Typed, PlaceInv, FlowInv, Next PROVE FlowInv'
  <2>1. CASE Run \/ Broker
    BY <1>1, <2>1, RunFlow
  <2>2. ASSUME NEW t \in Threads, Call(t) PROVE FlowInv'
    <3>1. CASE Open(t)
      BY <1>1, <3>1, OpenFlow
    <3>2. CASE AttemptFails(t) \/ Attempt(t) \/ ConnectTcpDone(t) \/ ConnackDone(t)
      BY <1>1, <3>2, ConnectFlowStep
    <3>3. CASE Waitfor(t) \/ WaitEnds(t) \/ ReadPack(t)
      BY <1>1, <3>3, WaitFlow
    <3>4. CASE Poll(t)
      BY <1>1, <3>4, PollFlow
    <3>5. CASE (\E kind \in Acks : Ask(t, kind)) \/ AskDone(t)
      BY <1>1, <3>5, AskStep, AskDoneFlow
    <3>6. CASE Disconnect(t) \/ Destroy(t) \/ Terminate(t) \/ StopWaited(t)
      BY <1>1, <3>6, DisconnectFlow, DestroyFlow, LeavesFlow
    <3> QED BY <2>2, <3>1, <3>2, <3>3, <3>4, <3>5, <3>6 DEF Call
  <2> QED BY <1>1, <2>1, <2>2 DEF Next
<1>2. ASSUME Typed, FlowInv, UNCHANGED vars PROVE FlowInv'
  <2>1. UNCHANGED <<client, c, net, run, calls, running, tostop, stray, late>>
    BY <1>2 DEF vars, library, history
  <2>2. /\ M' = M /\ N' = N /\ Carried' = Carried /\ (Serving' <=> Serving)
        /\ \A t \in Threads : /\ (Opening(t)' <=> Opening(t)) /\ (Asks(t)' <=> Asks(t))
                              /\ (Alone(t)' <=> Alone(t)) /\ (Connecting(t)' <=> Connecting(t))
    BY <2>1 DEF M, N, Carried, Carrying, Serving, Opening, Asks, Alone, Leaving, Connecting
  <2>3. AskersInv'
    BY <1>2, <2>1, <2>2 DEF FlowInv, AskersInv
  <2>4. SocketInv'
    BY <1>2, <2>1, <2>2 DEF FlowInv, SocketInv
  <2>5. RunInv'
    BY <1>2, <2>1, <2>2 DEF FlowInv, RunInv
  <2>6. CallerInv'
    BY <1>2, <2>1, <2>2 DEF FlowInv, CallerInv
  <2> QED BY <2>3, <2>4, <2>5, <2>6 DEF FlowInv
<1> QED BY <1>1, <1>2

LEMMA FlowAlways == Spec => [](SafeInv /\ Typed /\ PlaceInv /\ FlowInv)
<1>1. Init => PlaceInv
  BY DEF Init, PlaceInv, Waiting, NoCall, NoRun, RunLoop, None
<1> QED
  BY SafeInit, SafeStep, TypedInit, TypedStep, FlowInit, FlowStep, <1>1, PTL DEF Spec

\* Whoever waits for the answer to a subscribe or unsubscribe and finds one in m->pack finds
\* its own, as long as calls of the two kinds do not overlap, none has failed with its packet
\* half written and no polling caller has read an acknowledgement (stray).
THEOREM AckIsOwn == Spec => []OwnAck
<1>1. FlowInv => OwnAck
  BY DEF FlowInv, CallerInv, AskInv, AskFlow, Asks, OwnAck
<1> QED
  BY FlowAlways, <1>1, PTL

\* Whoever takes the semaphore of its acknowledgement finds a packet, so that no healthy
\* session is closed by a caller woken for nothing - while subscribes and unsubscribes take
\* turns, none has failed with its packet half written and no polling caller has read an
\* acknowledgement (stray), and no packet came in the moment of a timeout (late).
THEOREM WokenFindsPacket == Spec => []PostedIsThere
<1>1. Typed /\ FlowInv => PostedIsThere
  BY DEF Typed, FlowInv, CallerInv, AskInv, AskPosted, Asks, PostedIsThere
<1> QED
  BY FlowAlways, <1>1, PTL

\* A session is connected only by a CONNACK that the broker has sent on this connection,
\* never by one that a second attempt has found of the first.
THEOREM ConnackOfThisConnection == Spec => []ConnackIsOwn
<1>1. SafeInv /\ Typed /\ FlowInv => ConnackIsOwn
  <2> SUFFICES ASSUME SafeInv, Typed, FlowInv, NEW h \in Live, c[h].connected PROVE net[h].accepted
    BY DEF ConnackIsOwn
  <2>1. h \in Handle /\ Up(c[h]) /\ InUse(c[h])
    BY DEF Live, Up, InUse
  <2>2. h = client /\ client # 0
    BY <2>1, Constants DEF SafeInv, HandlesInv, Handle
  <2> QED BY <2>1, <2>2 DEF FlowInv, SocketInv, M, N
<1> QED
  BY FlowAlways, <1>1, PTL

=============================================================================
