------------------------- MODULE LinkedQueue_proofs -------------------------
(* queue.c implements a first-in first-out queue, for every heap and every  *)
(* set of values.                                                           *)
EXTENDS LinkedQueue, TLAPS

\* The three invariants are inductive together: what dequeue reads at head and
\* what enqueue writes at tail is right because the list is the path.
ListInv == TypeOK /\ ListIsPath /\ NothingLeaks

LEMMA ListInit == Init => ListInv
<1> SUFFICES ASSUME Init PROVE ListInv
  OBVIOUS
<1>1. TypeOK
  BY DEF Init, TypeOK, Pointer
<1>2. ListIsPath /\ NothingLeaks
  BY DEF Init, ListIsPath, NothingLeaks
<1> QED
  BY <1>1, <1>2 DEF ListInv

\* A node is appended: it is new, so no other node of the list is disturbed.
LEMMA EnqueueKeeps ==
  ASSUME ListInv, NEW v \in Value, enqueue(v)
  PROVE  ListInv'
<1> USE DEF ListInv
<1>1. PICK n \in Node \ allocated :
         /\ allocated' = allocated \cup {n}
         /\ value' = [value EXCEPT ![n] = v]
         /\ Link(n)
         /\ tail' = n /\ size' = size + 1
         /\ path' = Append(path, n)
         /\ UNCHANGED result
  BY DEF enqueue
<1>2. /\ path \in Seq(Node) /\ Len(path) \in Nat /\ size = Len(path)
      /\ path' \in Seq(Node) /\ Len(path') = Len(path) + 1
      /\ \A i \in 1..Len(path) : path'[i] = path[i] /\ path[i] \in allocated
      /\ path'[Len(path) + 1] = n
  BY <1>1 DEF TypeOK, ListIsPath, NothingLeaks
<1>3. TypeOK'
  <2>1. next' \in [Node -> Pointer] /\ head' \in Pointer
    BY <1>1 DEF TypeOK, Link, Pointer
  <2>2. value' \in [Node -> Value] /\ tail' \in Pointer /\ allocated' \subseteq Node
    BY <1>1 DEF TypeOK, Pointer
  <2>3. size' \in Nat /\ result' \in Value \cup {QUEUE_EMPTY}
    BY <1>1, <1>2 DEF TypeOK
  <2> QED
    BY <1>2, <2>1, <2>2, <2>3 DEF TypeOK, Pointer
<1>4. NothingLeaks'
  <2>1. \A i \in 1..Len(path') : i \in 1..Len(path) \/ i = Len(path) + 1
    BY <1>2
  <2>2. allocated' = {path'[i] : i \in 1..Len(path')}
    BY <1>1, <1>2, <2>1 DEF NothingLeaks
  <2>3. \A i, j \in 1..Len(path') : path'[i] = path'[j] => i = j
    <3>1. \A i \in 1..Len(path) : path'[i] # n
      BY <1>1, <1>2
    <3>2. \A i, j \in 1..Len(path) : path'[i] = path'[j] => i = j
      BY <1>2 DEF NothingLeaks
    <3> QED
      BY <1>2, <2>1, <3>1, <3>2
  <2> QED
    BY <2>2, <2>3 DEF NothingLeaks
<1>5. ListIsPath'
  <2>1. CASE path = <<>>
    <3>0. Len(path) = 0
      BY <2>1
    <3>1. size = 0 /\ Len(path') = 1 /\ path'[1] = n /\ path' # <<>>
      <4>1. size = 0 /\ Len(path') = 1
        BY <1>2, <3>0
      <4>2. path' # <<>>
        BY <4>1
      <4> QED
        BY <1>2, <3>0, <4>1, <4>2
    <3>2. next'[n] = NULL /\ head' = n
      BY <1>1, <3>1 DEF Link, TypeOK
    <3> QED
      BY <1>1, <1>2, <3>1, <3>2 DEF ListIsPath
  <2>2. CASE path # <<>>
    <3>1. size > 0 /\ tail = path[Len(path)] /\ tail \in Node /\ tail # n
      BY <1>1, <1>2, <2>2 DEF ListIsPath, TypeOK
    <3>2. next' = [next EXCEPT ![n] = NULL, ![tail] = n] /\ head' = head
      BY <1>1, <3>1 DEF Link
    <3>3. next'[n] = NULL /\ next'[tail] = n
      BY <1>1, <3>1, <3>2 DEF TypeOK
    <3>4. \A i \in 1..Len(path) : i # Len(path) => next'[path[i]] = path[i + 1]
      <4>1. SUFFICES ASSUME NEW i \in 1..Len(path), i # Len(path) PROVE next'[path[i]] = path[i + 1]
        OBVIOUS
      <4>2. path[i] \in Node /\ path[i] # n /\ path[i] # tail
        BY <1>1, <1>2, <3>1, <4>1 DEF NothingLeaks
      <4>3. next[path[i]] = path[i + 1]
        BY <4>1 DEF ListIsPath
      <4> QED
        BY <3>2, <4>2, <4>3 DEF TypeOK
    <3>5. \A i \in 1..Len(path') :
             next'[path'[i]] = IF i = Len(path') THEN NULL ELSE path'[i + 1]
      <4>1. SUFFICES ASSUME NEW i \in 1..Len(path')
                     PROVE  next'[path'[i]] = IF i = Len(path') THEN NULL ELSE path'[i + 1]
        OBVIOUS
      <4>2. CASE i = Len(path) + 1
        BY <1>2, <3>3, <4>2
      <4>3. CASE i = Len(path)
        BY <1>2, <3>1, <3>3, <4>3
      <4>4. CASE i < Len(path)
        <5>1. i \in 1..Len(path) /\ i + 1 \in 1..Len(path) /\ i # Len(path) /\ i # Len(path')
          BY <1>2, <4>4
        <5> QED
          BY <1>2, <3>4, <5>1
      <4> QED
        BY <1>2, <4>2, <4>3, <4>4
    <3>6. head' = path'[1] /\ path' # <<>>
      <4>1. 1 \in 1..Len(path)
        BY <1>2, <2>2
      <4> QED
        BY <1>2, <2>2, <3>2, <4>1 DEF ListIsPath
    <3> QED
      BY <1>1, <1>2, <3>5, <3>6 DEF ListIsPath
  <2> QED
    BY <2>1, <2>2
<1> QED
  BY <1>3, <1>4, <1>5

\* The first node leaves: head was the first of the path, next[head] the second.
LEMMA DequeueKeeps ==
  ASSUME ListInv, dequeue
  PROVE  ListInv'
<1> USE DEF ListInv
<1>1. /\ path \in Seq(Node) /\ size = Len(path) /\ Len(path) \in Nat /\ Len(path) > 0
      /\ path # <<>> /\ head = path[1]
  BY DEF TypeOK, ListIsPath, dequeue
<1>2. /\ path' \in Seq(Node) /\ Len(path') = Len(path) - 1
      /\ \A i \in 1..Len(path') : path'[i] = path[i + 1]
  BY <1>1 DEF dequeue
<1>3. head \in Node /\ next[head] = IF Len(path) = 1 THEN NULL ELSE path[2]
  <2>1. 1 \in 1..Len(path)
    BY <1>1
  <2> QED
    BY <1>1, <2>1 DEF ListIsPath
<1>4. TypeOK'
  BY <1>1, <1>2, <1>3 DEF TypeOK, dequeue, Pointer
<1>5. NothingLeaks'
  <2>1. \A i \in 1..Len(path') : i + 1 \in 1..Len(path) /\ i + 1 # 1
    BY <1>1, <1>2
  <2>2. \A i, j \in 1..Len(path') : path'[i] = path'[j] => i = j
    BY <1>1, <1>2, <2>1 DEF NothingLeaks
  <2>3. \A i \in 1..Len(path) : i = 1 \/ (i - 1 \in 1..Len(path') /\ path[i] = path'[i - 1])
    BY <1>1, <1>2
  <2>4. \A i \in 1..Len(path') : path'[i] # head
    BY <1>1, <1>2, <2>1 DEF NothingLeaks
  <2>5. allocated' = {path'[i] : i \in 1..Len(path')}
    <3>1. allocated' = {path[i] : i \in 1..Len(path)} \ {head}
      BY DEF NothingLeaks, dequeue
    <3>2. \A x \in allocated' : \E i \in 1..Len(path') : x = path'[i]
      BY <1>1, <2>3, <3>1
    <3>3. \A i \in 1..Len(path') : path'[i] \in allocated'
      BY <1>2, <2>1, <2>4, <3>1
    <3> QED
      BY <3>2, <3>3
  <2> QED
    BY <2>2, <2>5 DEF NothingLeaks
<1>6. ListIsPath'
  <2>1. \A i \in 1..Len(path') :
           next'[path'[i]] = IF i = Len(path') THEN NULL ELSE path'[i + 1]
    <3>1. SUFFICES ASSUME NEW i \in 1..Len(path')
                   PROVE  next[path[i + 1]] = IF i = Len(path') THEN NULL ELSE path'[i + 1]
      BY <1>2 DEF dequeue
    <3>2. i + 1 \in 1..Len(path) /\ (i = Len(path') <=> i + 1 = Len(path))
      BY <1>1, <1>2
    <3>3. i # Len(path') => path'[i + 1] = path[(i + 1) + 1]
      BY <1>1, <1>2
    <3> QED
      BY <3>2, <3>3 DEF ListIsPath
  <2>2. head' = IF path' = <<>> THEN NULL ELSE path'[1]
    <3>1. CASE Len(path) = 1
      BY <1>1, <1>2, <1>3, <3>1 DEF dequeue
    <3>2. CASE Len(path) # 1
      <4>1. path' # <<>> /\ 1 \in 1..Len(path')
        BY <1>1, <1>2, <3>2
      <4> QED
        BY <1>2, <1>3, <3>2, <4>1 DEF dequeue
    <3> QED
      BY <3>1, <3>2
  <2>3. path' # <<>> => tail' = path'[Len(path')]
    <3>1. SUFFICES ASSUME path' # <<>> PROVE tail' = path'[Len(path')]
      OBVIOUS
    <3>2. Len(path') \in 1..Len(path')
      BY <1>1, <1>2, <3>1
    <3> QED
      BY <1>1, <1>2, <3>2 DEF ListIsPath, dequeue
  <2> QED
    BY <1>1, <1>2, <2>1, <2>2, <2>3 DEF ListIsPath, dequeue
<1> QED
  BY <1>4, <1>5, <1>6

LEMMA ListStep == ListInv /\ [Next]_vars => ListInv'
<1> SUFFICES ASSUME ListInv, [Next]_vars PROVE ListInv'
  OBVIOUS
<1>1. ASSUME NEW v \in Value, enqueue(v) PROVE ListInv'
  BY <1>1, EnqueueKeeps
<1>2. CASE dequeue
  BY <1>2, DequeueKeeps
<1>3. CASE dequeueEmpty
  <2>1. UNCHANGED <<size, head, tail, value, next, allocated, path>> /\ result' = QUEUE_EMPTY
    BY <1>3 DEF dequeueEmpty, queueVars
  <2>2. TypeOK'
    BY <2>1 DEF ListInv, TypeOK
  <2> QED
    BY <2>1, <2>2 DEF ListInv, ListIsPath, NothingLeaks
<1>4. CASE UNCHANGED vars
  BY <1>4 DEF ListInv, TypeOK, ListIsPath, NothingLeaks, vars, queueVars
<1> QED
  BY <1>1, <1>2, <1>3, <1>4 DEF Next

LEMMA ListInvariant == Spec => []ListInv
<1>1. Init => ListInv
  BY ListInit
<1>2. ListInv /\ [Next]_vars => ListInv'
  BY ListStep
<1> QED
  BY <1>1, <1>2, PTL DEF Spec

\* Every pointer is NULL or an address of the heap, and size never goes below zero,
\* also where dequeue leaves tail on a node it has freed.
THEOREM TypeCorrect == Spec => []TypeOK
<1>1. ListInv => TypeOK
  BY DEF ListInv
<1> QED
  BY <1>1, ListInvariant, PTL

\* The list always meets the nodes in the order they were enqueued and ends at
\* the tail, whatever address malloc returns.
THEOREM ListIsRight == Spec => []ListIsPath
<1>1. ListInv => ListIsPath
  BY DEF ListInv
<1> QED
  BY <1>1, ListInvariant, PTL

\* The memory in use is exactly that of the nodes in the list.
THEOREM NoLeak == Spec => []NothingLeaks
<1>1. ListInv => NothingLeaks
  BY DEF ListInv
<1> QED
  BY <1>1, ListInvariant, PTL

-----------------------------------------------------------------------------
(* The list implements the queue *)

LEMMA FifoInit == Init => Fifo!Init
  BY DEF Init, Fifo!Init, contentsBar

LEMMA FifoStep == ListInv /\ [Next]_vars => [Fifo!Next]_(Fifo!vars)
<1> SUFFICES ASSUME ListInv, [Next]_vars PROVE [Fifo!Next]_(Fifo!vars)
  OBVIOUS
<1> USE DEF ListInv
<1>0. path \in Seq(Node) /\ Len(path) \in Nat /\ size = Len(path)
  BY DEF TypeOK, ListIsPath
<1>1. ASSUME NEW v \in Value, enqueue(v) PROVE Fifo!Put(v)
  <2>1. PICK n \in Node \ allocated :
           value' = [value EXCEPT ![n] = v] /\ path' = Append(path, n) /\ UNCHANGED result
    BY <1>1 DEF enqueue
  <2>2. \A i \in 1..Len(path) : path[i] \in Node /\ path[i] # n
    BY <1>0, <2>1 DEF NothingLeaks
  <2>3. /\ Len(path') = Len(path) + 1
        /\ \A i \in 1..Len(path) : path'[i] = path[i] /\ value'[path'[i]] = value[path[i]]
        /\ value'[path'[Len(path) + 1]] = v
    BY <1>0, <2>1, <2>2 DEF TypeOK
  <2>4. contentsBar \in Seq(Value) /\ Len(contentsBar) = Len(path)
    BY <1>0 DEF contentsBar, TypeOK
  <2>5. contentsBar' = Append(contentsBar, v)
    BY <1>0, <2>3, <2>4 DEF contentsBar
  <2> QED
    BY <2>1, <2>5 DEF Fifo!Put
<1>2. CASE dequeue
  <2>1. Len(path) > 0 /\ head = path[1] /\ path # <<>>
    BY <1>0, <1>2 DEF dequeue, ListIsPath
  <2>2. contentsBar \in Seq(Value) /\ Len(contentsBar) = Len(path) /\ contentsBar # <<>>
    BY <1>0, <2>1 DEF contentsBar, TypeOK
  <2>3. result' = Head(contentsBar)
    BY <1>0, <1>2, <2>1, <2>2 DEF dequeue, contentsBar
  <2>4. /\ Len(path') = Len(path) - 1 /\ value' = value
        /\ \A i \in 1..Len(path') : path'[i] = path[i + 1]
    BY <1>0, <1>2, <2>1 DEF dequeue
  <2>5. contentsBar' = Tail(contentsBar)
    BY <1>0, <2>1, <2>2, <2>4 DEF contentsBar
  <2> QED
    BY <2>2, <2>3, <2>5 DEF Fifo!Next, Fifo!Take
<1>3. CASE dequeueEmpty
  <2>1. path = <<>> /\ result' = QUEUE_EMPTY /\ UNCHANGED <<path, value>>
    <3>1. Len(path) = 0 /\ result' = QUEUE_EMPTY /\ UNCHANGED <<path, value>>
      BY <1>0, <1>3 DEF dequeueEmpty
    <3> QED
      BY <1>0, <3>1
  <2>2. contentsBar = <<>> /\ UNCHANGED contentsBar
    BY <2>1 DEF contentsBar
  <2> QED
    BY <2>1, <2>2 DEF Fifo!Next, Fifo!TakeNothing
<1>4. CASE UNCHANGED vars
  BY <1>4 DEF vars, queueVars, Fifo!vars, contentsBar
<1> QED
  BY <1>1, <1>2, <1>3, <1>4 DEF Next, Fifo!Next

\* queue.c is a first-in first-out queue: every step of the list is a step of
\* the queue or changes nothing of it.
THEOREM Implements == Spec => IsFifo
<1>1. Init => Fifo!Init
  BY FifoInit
<1>2. ListInv /\ [Next]_vars => [Fifo!Next]_(Fifo!vars)
  BY FifoStep
<1> QED
  BY <1>1, <1>2, ListInvariant, PTL DEF Spec, IsFifo, Fifo!Spec
=============================================================================
