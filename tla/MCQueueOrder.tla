---------------------------- MODULE MCQueueOrder ----------------------------
(* A small instance of QueueOrder: how often a waiter may be passed over. *)
EXTENDS QueueOrder

Symmetry == Permutations(Requests)
=============================================================================
