----------------------------- MODULE LinkedQueue ----------------------------
(***************************************************************************)
(* queue.c: a queue as a singly linked list on the heap.  malloc may hand  *)
(* out any address that is not in use, in particular one that dequeue has  *)
(* just freed and that q->tail may still hold.                             *)
(***************************************************************************)
EXTENDS Naturals, Sequences

CONSTANTS
    Node,         \* the addresses malloc may return: the size of the heap
    NULL,
    Value,        \* the values the callers enqueue
    QUEUE_EMPTY   \* what dequeue answers when the queue is empty

ASSUME QueueAssumption == NULL \notin Node /\ QUEUE_EMPTY \notin Value

VARIABLES
    size, head, tail,  \* the Queue structure
    value, next,       \* the fields of the nodes, freed ones included
    allocated,         \* the addresses in use
    result,            \* what the last dequeue returned
    path               \* history: the nodes in the order they were enqueued

queueVars == <<size, head, tail>>
vars == <<queueVars, value, next, allocated, result, path>>

Pointer == Node \cup {NULL}

\* queue_init leaves tail and head NULL; the heap holds anything.
Init ==
    /\ size = 0 /\ head = NULL /\ tail = NULL
    /\ value \in [Node -> Value] /\ next \in [Node -> Pointer]
    /\ allocated = {} /\ result = QUEUE_EMPTY /\ path = <<>>

\* Mutant: the new node is linked by looking at the tail, which dequeue leaves
\* behind when it empties the queue, and not at the size.
LinkByTail(n) ==
    IF tail # NULL
    THEN next' = [next EXCEPT ![n] = NULL, ![tail] = n] /\ UNCHANGED head
    ELSE next' = [next EXCEPT ![n] = NULL] /\ head' = n

\* Mutant: the new node is linked at the wrong end.
LinkAtHead(n) == next' = [next EXCEPT ![n] = head] /\ head' = n

\* The new node n becomes the last one.
Link(n) ==
    IF size > 0
    THEN next' = [next EXCEPT ![n] = NULL, ![tail] = n] /\ UNCHANGED head
    ELSE next' = [next EXCEPT ![n] = NULL] /\ head' = n

\* The heap is large enough: enqueue does not test what malloc returns.
enqueue(v) ==
    \E n \in Node \ allocated :
        /\ allocated' = allocated \cup {n}
        /\ value' = [value EXCEPT ![n] = v]
        /\ Link(n)
        /\ tail' = n /\ size' = size + 1
        /\ path' = Append(path, n)
        /\ UNCHANGED result

\* Mutant: the node that is freed is the one head moves to.
dequeueFreesNext ==
    /\ size > 0
    /\ result' = value[head]
    /\ head' = next[head]
    /\ allocated' = allocated \ {next[head]}
    /\ size' = size - 1
    /\ path' = Tail(path)
    /\ UNCHANGED <<tail, value, next>>

dequeue ==
    /\ size > 0
    /\ result' = value[head]
    /\ head' = next[head]
    /\ allocated' = allocated \ {head}
    /\ size' = size - 1
    /\ path' = Tail(path)
    /\ UNCHANGED <<tail, value, next>>

\* Mutant: the size is counted down whether or not there is a node.
dequeueEmptyCounts ==
    /\ size = 0 /\ size' = size - 1
    /\ result' = QUEUE_EMPTY
    /\ UNCHANGED <<head, tail, value, next, allocated, path>>

dequeueEmpty ==
    /\ size = 0
    /\ result' = QUEUE_EMPTY
    /\ UNCHANGED <<queueVars, value, next, allocated, path>>

Next == (\E v \in Value : enqueue(v)) \/ dequeue \/ dequeueEmpty

Spec == Init /\ [][Next]_vars

-----------------------------------------------------------------------------
TypeOK ==
    /\ size \in Nat /\ head \in Pointer /\ tail \in Pointer
    /\ value \in [Node -> Value] /\ next \in [Node -> Pointer]
    /\ allocated \subseteq Node /\ result \in Value \cup {QUEUE_EMPTY}
    /\ path \in Seq(Node)

\* Following the list from head, as run.c does to print it, meets the nodes in
\* the order they were enqueued and ends with NULL at the tail: no node is lost,
\* revisited or reached after it was freed, although tail is left dangling when
\* the queue becomes empty and the next malloc may return that very address.
ListIsPath ==
    /\ size = Len(path)
    /\ head = IF path = <<>> THEN NULL ELSE path[1]
    /\ path # <<>> => tail = path[Len(path)]
    /\ \A i \in 1..Len(path) :
          next[path[i]] = IF i = Len(path) THEN NULL ELSE path[i + 1]

\* The memory in use is the memory of the nodes in the list, each of them once:
\* nothing leaks and nothing in the list has been freed.
NothingLeaks ==
    /\ allocated = {path[i] : i \in 1..Len(path)}
    /\ \A i, j \in 1..Len(path) : path[i] = path[j] => i = j

\* The values in the list, oldest first.
contentsBar == [i \in 1..Len(path) |-> value[path[i]]]

Fifo == INSTANCE FifoQueue WITH contents <- contentsBar

\* The list implements a first-in first-out queue: see FifoQueue.
IsFifo == Fifo!Spec
=============================================================================
