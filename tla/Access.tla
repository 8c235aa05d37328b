------------------------------- MODULE Access -------------------------------
(***************************************************************************)
(* What the gateway and its operators promise about a key, with no rows,   *)
(* limits, processes or restarts: it is issued at most once, revoked for   *)
(* good, and only an active key gets a request past authentication.        *)
(* Revoking a key cuts nobody off: requests that are inside leave by       *)
(* themselves, alone or all at once when the process ends.                 *)
(***************************************************************************)
CONSTANTS Keys, Requests

VARIABLES
  status,   \* each key: "absent", "active" or "revoked"
  inside    \* each key's requests that are past authentication

avars == <<status, inside>>

Init ==
  /\ status \in [Keys -> {"absent", "active"}]
  /\ inside = [k \in Keys |-> {}]

Issue(k) ==
  /\ status[k] = "absent"
  /\ status' = [status EXCEPT ![k] = "active"]
  /\ UNCHANGED inside

Revoke(k) ==
  /\ status[k] = "active"
  /\ status' = [status EXCEPT ![k] = "revoked"]
  /\ UNCHANGED inside

Admit(k, r) ==
  /\ status[k] = "active"
  /\ \A j \in Keys : r \notin inside[j]
  /\ inside' = [inside EXCEPT ![k] = @ \cup {r}]
  /\ UNCHANGED status

Leave(S) ==
  /\ inside' = [k \in Keys |-> inside[k] \ S]
  /\ UNCHANGED status

Next ==
  \/ \E k \in Keys : Issue(k) \/ Revoke(k) \/ \E r \in Requests : Admit(k, r)
  \/ \E S \in SUBSET Requests : Leave(S)

Spec == Init /\ [][Next]_avars
=============================================================================
