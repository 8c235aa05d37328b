-------------------------------- MODULE Pool --------------------------------
(***************************************************************************)
(* What internal/queue promises its callers, with no ranks, lists, clocks  *)
(* or counters: at most Capacity requests run upstream at once, requests   *)
(* park only while the pool is full, and a slot that is given back while   *)
(* somebody is parked is handed over in the same step.                     *)
(***************************************************************************)
EXTENDS Naturals, FiniteSets

CONSTANTS Requests, Capacity

VARIABLES
  running,   \* requests that own a slot, told so or not
  parked     \* requests blocked in Acquire

pvars == <<running, parked>>

Init == running = {} /\ parked = {}

Enter(r) ==
  /\ r \notin running \cup parked
  /\ parked = {}
  /\ Cardinality(running) < Capacity
  /\ running' = running \cup {r}
  /\ UNCHANGED parked

Park(r) ==
  /\ r \notin running \cup parked
  /\ Cardinality(running) = Capacity
  /\ parked' = parked \cup {r}
  /\ UNCHANGED running

\* A slot comes back: from a finished request, or from one that was granted
\* the slot as its client hung up.
Leave(r) ==
  /\ r \in running
  /\ \/ parked = {} /\ running' = running \ {r} /\ UNCHANGED parked
     \/ \E w \in parked : /\ running' = (running \ {r}) \cup {w}
                          /\ parked' = parked \ {w}

GiveUp(r) ==
  /\ r \in parked
  /\ parked' = parked \ {r}
  /\ UNCHANGED running

Next == \E r \in Requests : Enter(r) \/ Park(r) \/ Leave(r) \/ GiveUp(r)

Spec == Init /\ [][Next]_pvars
=============================================================================
