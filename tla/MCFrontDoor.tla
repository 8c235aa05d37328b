---------------------------- MODULE MCFrontDoor ----------------------------
(* A small instance of FrontDoor: every array of up to two tokens and some *)
(* longer ones, and environments with one setting out of bounds, or two    *)
(* that meet.                                                              *)
EXTENDS FrontDoor, TLC

UpTo2 == UNION {[1..n -> Tokens] : n \in 0..2}
Closed(b) == /\ \A i \in 1..Len(b) : Depth(b, i) >= 0
             /\ Depth(b, Len(b)) = 0
MCBodies ==
  {b \in UpTo2 : Closed(b)} \cup
  { << "open", "open", "close", "close", "number" >>,
    << "number", "number", "number", "number" >>,
    << "atom", "open", "number", "close", "number" >> }

MCKeyRows == {[batch |-> 1, rate |-> 3], [batch |-> 2, rate |-> 1]}

\* What is set in the environment, over nothing; and what .env holds.
Real(settings) == [real |-> settings @@ NoFile, file |-> NoFile]
Both(settings, lines) == [real |-> settings @@ NoFile, file |-> lines @@ NoFile]

\* Values that are out of bounds, one beyond where there is a next one.
Refused(s) ==
  CASE s \in {"batch", "rate", "slots", "promote", "price"} -> {0}
    [] s = "budget"   -> {-2, 0}
    [] s = "priority" -> {-1, 10}
    [] s = "vat"      -> {-1, 101}
    [] s = "period"   -> {"weekly"}
    [] s = "upstream" -> {"//caddy"}
    [] OTHER          -> {}

MCEnvironments ==
  UNION {{Real(s :> v) : v \in Refused(s)} : s \in Settings} \cup
  { Real("user" :> " " @@ "password" :> "hunter2"),
    [real |-> NoFile, file |-> BadFile],
    Real("batch" :> Garbage @@ "priority" :> 9),
    Real("user" :> " "),
    Both("user" :> Empty, "password" :> "hunter2"),
    Both("password" :> Empty, "password" :> "hunter2"),
    Both("password" :> "other", "password" :> "hunter2") }
MCURLs == {"http://localhost:11435"}
=============================================================================
