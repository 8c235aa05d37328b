----------------------------- MODULE QueueOrder -----------------------------
(***************************************************************************)
(* The scheduling promises of internal/queue/doc.go, stated over two       *)
(* history variables that count how often a waiter is passed over.         *)
(***************************************************************************)
EXTENDS Queue

VARIABLES
  passedTop,   \* grants to others while the request was first by rank
  passedAged   \* grants to others since the request outwaited the window

orderVars == <<vars, passedTop, passedAged>>

\* The request the strict rule would serve next.
IsTopHead(r) == \E p \in InPlay : IsTop(p) /\ Head(classes[p]) = r

\* The step hands a slot to somebody parked.
HandsOver == \E w \in Requests : stage[w] = "waiting" /\ stage'[w] = "granted"

HistoryInit ==
  /\ passedTop = [r \in Requests |-> 0]
  /\ passedAged = [r \in Requests |-> 0]

HistoryNext ==
  /\ passedTop' = [r \in Requests |->
       IF ~IsTopHead(r)' THEN 0
       ELSE IF IsTopHead(r) /\ HandsOver THEN passedTop[r] + 1
       ELSE passedTop[r]]
  /\ passedAged' = [r \in Requests |->
       IF stage'[r] # "waiting" THEN 0
       ELSE IF age[r] >= PromoteAfter /\ HandsOver THEN passedAged[r] + 1
       ELSE passedAged[r]]

OrderInit == Init /\ HistoryInit
OrderNext == Next /\ HistoryNext
OrderSpec == OrderInit /\ [][OrderNext]_orderVars

\* "A priority request therefore waits for at most one extra admission, however
\* deep the backlog behind it": while a request is first by rank, at most one
\* slot goes to somebody else.
OneExtraAdmission == \A r \in Requests : passedTop[r] <= 1

\* "Aged traffic takes every other slot": once a request has outwaited the
\* window, every second slot goes to a request at least as old, so it is passed
\* at most twice for each request that can be queued ahead of it, plus once.
AgedDrain ==
  \A r \in Waiting :
    passedAged[r] <= 2 * (Cardinality(Requests) - Capacity - 1) + 1
=============================================================================
