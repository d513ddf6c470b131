------------------------------ MODULE FifoQueue -----------------------------
(***************************************************************************)
(* What queue.h promises: a first-in first-out queue of values, whose      *)
(* dequeue answers QUEUE_EMPTY when there is nothing to take.              *)
(***************************************************************************)
EXTENDS Sequences

CONSTANTS Value, QUEUE_EMPTY

VARIABLES
    contents,  \* the values in the queue, oldest first
    result     \* what the last call returned

vars == <<contents, result>>

Init == contents = <<>> /\ result = QUEUE_EMPTY

Put(v) == contents' = Append(contents, v) /\ UNCHANGED result

Take == contents # <<>> /\ result' = Head(contents) /\ contents' = Tail(contents)

TakeNothing == contents = <<>> /\ result' = QUEUE_EMPTY /\ UNCHANGED contents

Next == (\E v \in Value : Put(v)) \/ Take \/ TakeNothing

Spec == Init /\ [][Next]_vars
=============================================================================
