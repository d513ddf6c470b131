---------------------------- MODULE MCLinkedQueue ---------------------------
(* Model values for LinkedQueue. *)
EXTENDS LinkedQueue, TLC

\* Addresses and values are interchangeable.
Symmetry == Permutations(Node) \cup Permutations(Value)
=============================================================================
