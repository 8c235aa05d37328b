------------------------------ MODULE MCQueue ------------------------------
(* A small instance of Queue for its liveness property, without symmetry. *)
EXTENDS Queue
=============================================================================
