------------------------------ MODULE Gateway ------------------------------
(***************************************************************************)
(* One gateway process serving POST /v1/embeddings: bearer authentication, *)
(* the checks of Handler.Embeddings, admission, the upstream call,         *)
(* accounting and the reply, for concurrent requests, over the key table   *)
(* that operators change (KeyStore) and the admission contract (Pool) that *)
(* Queue implements.  A request's handler is cut where it waits: for the   *)
(* store, the pool, the upstream or the client.                            *)
(*                                                                         *)
(* Abstracted: the body is the number of inputs it holds; the rate         *)
(* limiter (RateLimit) may deny any request; a month's end may come at any *)
(* time; the store may fail any query, and fails one whose client is gone, *)
(* because every query runs under the request's context.  Which error an   *)
(* early return writes is left to the comments.                            *)
(***************************************************************************)
EXTENDS KeyStore

CONSTANTS
  Requests, Capacity,
  InputCounts,  \* what countInputs may return
  BudgetCap,    \* no finite budget of this instance exceeds it
  MaxTokens,    \* tokens of one call, at most
  MaxSpent      \* bound of the model: no call succeeds for a key that spent this

ASSUME GatewayAssumption ==
  /\ IsFiniteSet(Requests)
  /\ Capacity \in Nat \ {0}
  /\ InputCounts \subseteq Nat
  /\ BudgetCap \in Nat \ {0} /\ \A b \in ValuesOf("budget") : b <= BudgetCap
  /\ MaxTokens \in Nat
  /\ MaxSpent \in Nat

VARIABLES
  phase,     \* "serving", "draining" (Shutdown was called) or "stopped"
  req,       \* each request's handler: see Handlers
  running, parked,   \* Pool
  used,      \* tokens recorded for each key, this month and ever
  cohort,    \* history: requests past the budget check when `used` reached
             \* BudgetCap
  metered    \* history: no request of the key has passed the check except under
             \* a finite budget of this period

poolVars == <<running, parked>>
usageVars == <<used, cohort, metered>>
gvars == <<storeVars, phase, req, poolVars, usageVars>>

A == INSTANCE Pool

Stages == {"idle", "auth", "decode", "budget", "admit", "parked", "forward",
           "returned", "record", "relay"}

(***************************************************************************)
(* pc         where the handler waits, "idle" when there is no request     *)
(* key, row   the key presented; the row authentication read, kept while a *)
(*            check still looks at it                                      *)
(* gone       the request's context is cancelled: the client hung up       *)
(* reply      what the upstream returned, with the tokens it reported      *)
(* lastMonth  the usage event carries a month that has ended since         *)
(***************************************************************************)
Handlers ==
  [pc : Stages, key : Keys, row : Rows, gone : BOOLEAN,
   reply : {"none", "ok", "refused", "error"}, tokens : 0..MaxTokens,
   lastMonth : BOOLEAN]

\* Every variable has its type.
GatewayTypeOK ==
  /\ StoreTypeOK
  /\ phase \in {"serving", "draining", "stopped"}
  /\ req \in [Requests -> Handlers]
  /\ running \subseteq Requests
  /\ parked \subseteq Requests
  /\ used \in [Keys -> [Periods -> Nat]]
  /\ cohort \in [Keys -> [Periods -> Nat]]
  /\ metered \in [Keys -> [Periods -> BOOLEAN]]

NoRow == [limits |-> Defaults, revoked |-> FALSE]

\* A handler that is not running, for key k.
Fresh(k) ==
  [pc |-> "idle", key |-> k, row |-> NoRow, gone |-> FALSE, reply |-> "none",
   tokens |-> 0, lastMonth |-> FALSE]

GatewayInit ==
  /\ StoreInit
  /\ phase = "stopped"
  /\ req \in [Requests -> {Fresh(k) : k \in Keys}]
  /\ A!Init
  /\ used = [k \in Keys |-> [p \in Periods |-> 0]]
  /\ cohort = [k \in Keys |-> [p \in Periods |-> 0]]
  /\ metered = [k \in Keys |-> [p \in Periods |-> TRUE]]

-----------------------------------------------------------------------------
(***************************************************************************)
(* The handler's moves: on to the next stage, or out with an answer.       *)
(***************************************************************************)
At(r, stage) == req[r].pc = stage
Goto(r, stage) == req' = [req EXCEPT ![r].pc = stage]
Return(r) == req' = [req EXCEPT ![r] = Fresh(req[r].key)]

\* A client sends a request with key k, while the listener is open.
Arrive(r, k) ==
  /\ phase = "serving"
  /\ At(r, "idle")
  /\ req' = [req EXCEPT ![r] = [Fresh(k) EXCEPT !.pc = "auth"]]
  /\ UNCHANGED <<storeVars, phase, poolVars, usageVars>>

\* The client hangs up: net/http cancels the request's context.
HangUp(r) ==
  /\ ~At(r, "idle") /\ ~req[r].gone
  /\ req' = [req EXCEPT ![r].gone = TRUE]
  /\ UNCHANGED <<storeVars, phase, poolVars, usageVars>>

\* BearerAuth: 500 when the query fails, 401 for an unknown and for a revoked key;
\* otherwise the row that was read goes with the request.
\* (Variant: revocation is not looked at.)
AuthenticateRevoked(r) ==
  /\ At(r, "auth")
  /\ \/ Return(r)
     \/ /\ ~req[r].gone
        /\ IF req[r].key \notin issued
           THEN Return(r)
           ELSE req' = [req EXCEPT ![r].pc = "decode", ![r].row = rows[req[r].key]]
  /\ UNCHANGED <<storeVars, phase, poolVars, usageVars>>
Authenticate(r) ==
  /\ At(r, "auth")
  /\ \/ Return(r)
     \/ /\ ~req[r].gone
        /\ IF req[r].key \notin issued \/ rows[req[r].key].revoked
           THEN Return(r)
           ELSE req' = [req EXCEPT ![r].pc = "decode", ![r].row = rows[req[r].key]]
  /\ UNCHANGED <<storeVars, phase, poolVars, usageVars>>

\* The body is read and counted, and the limiter asked: 413 for a body that
\* cannot be read, 400 for one that is not JSON or not a permitted batch, 429 when
\* the limiter denies it.
CheckLocally(r, n) ==
  /\ At(r, "decode")
  /\ \/ Return(r)
     \/ AllowsBatch(req[r].row.limits, n) /\ Goto(r, "budget")
  /\ UNCHANGED <<storeVars, phase, poolVars, usageVars>>

\* APIKey.BudgetExhausted of the sum for the key's period.  (Variant: off by one.)
ExhaustedLate(l, u) == l.budget # Unlimited /\ u[l.period] > l.budget
BudgetExhausted(l, u) == l.budget # Unlimited /\ u[l.period] >= l.budget

\* Checker.Status and the handler's use of it: 500 when the query fails, 402 when
\* the budget is exhausted; an unlimited key costs no query.
CheckBudget(r) ==
  LET k == req[r].key
      l == req[r].row.limits
      passes == /\ req' = [req EXCEPT ![r].pc = "admit", ![r].row = NoRow]
                /\ metered' = [metered EXCEPT ![k] =
                     [p \in Periods |-> @[p] /\ l.budget # Unlimited /\ l.period = p]]
  IN  /\ At(r, "budget")
      /\ \/ l.budget = Unlimited /\ passes
         \/ l.budget # Unlimited /\ Return(r) /\ UNCHANGED metered
         \/ /\ l.budget # Unlimited /\ ~req[r].gone
            /\ IF BudgetExhausted(l, used[k])
               THEN Return(r) /\ UNCHANGED metered
               ELSE passes
      /\ UNCHANGED <<storeVars, phase, poolVars, used, cohort>>

\* pool.Acquire, which does not look at the context unless it has to wait.
Acquire(r) ==
  /\ At(r, "admit")
  /\ \/ A!Enter(r) /\ Goto(r, "forward")
     \/ A!Park(r) /\ Goto(r, "parked")
  /\ UNCHANGED <<storeVars, phase, usageVars>>

\* Acquire returns the slot it was handed.
Resume(r) ==
  /\ At(r, "parked") /\ r \in running
  /\ Goto(r, "forward")
  /\ UNCHANGED <<storeVars, phase, poolVars, usageVars>>

\* Acquire returns ctx.Err(): 503.
Abandon(r) ==
  /\ At(r, "parked") /\ req[r].gone
  /\ A!GiveUp(r) \/ A!Leave(r)
  /\ Return(r)
  /\ UNCHANGED <<storeVars, phase, usageVars>>

\* Forward returns: a 200 with its tokens, another status, or an error (the
\* backend is down, the timeout passed, the client is gone).
UpstreamReturns(r, outcome, t) ==
  /\ At(r, "forward")
  /\ outcome = "ok" => used[req[r].key]["lifetime"] < MaxSpent
  /\ outcome # "ok" => t = 0
  /\ req' = [req EXCEPT ![r].pc = "returned", ![r].reply = outcome, ![r].tokens = t]
  /\ UNCHANGED <<storeVars, phase, poolVars, usageVars>>

\* release(), then the branch on what came back: 502, straight to the reply, or
\* to accounting with an event stamped now.
\* (Variant: the error is handled before the slot is given back.)
ReleaseAfterError(r) ==
  /\ At(r, "returned")
  /\ \/ req[r].reply = "error"   /\ Return(r) /\ UNCHANGED poolVars
     \/ req[r].reply = "refused" /\ Goto(r, "relay") /\ A!Leave(r)
     \/ req[r].reply = "ok"      /\ Goto(r, "record") /\ A!Leave(r)
  /\ UNCHANGED <<storeVars, phase, usageVars>>
ReleaseSlot(r) ==
  /\ At(r, "returned")
  /\ A!Leave(r)
  /\ \/ req[r].reply = "error"   /\ Return(r)
     \/ req[r].reply = "refused" /\ Goto(r, "relay")
     \/ req[r].reply = "ok"      /\ Goto(r, "record")
  /\ UNCHANGED <<storeVars, phase, usageVars>>

\* A panic below Forward unwinds the handler: the deferred release() runs and
\* net/http drops the connection.  (Variant: no deferred release.)
PanicLeaks(r) ==
  /\ At(r, "forward")
  /\ Return(r)
  /\ UNCHANGED <<storeVars, phase, poolVars, usageVars>>
Panic(r) ==
  /\ At(r, "forward")
  /\ A!Leave(r)
  /\ Return(r)
  /\ UNCHANGED <<storeVars, phase, usageVars>>

\* Requests that may still be charged to key k in the running period p.
Chargeable(k, p) ==
  {r \in Requests : /\ req[r].key = k
                    /\ req[r].pc \in {"admit", "parked", "forward", "returned", "record"}
                    /\ p = "monthly" => ~req[r].lastMonth}

\* The sums after r's event is stored, under the month it is stamped with.
Charged(r) ==
  [used EXCEPT ![req[r].key] =
     [p \in Periods |-> IF p = "monthly" /\ req[r].lastMonth THEN @[p]
                        ELSE @[p] + req[r].tokens]]

\* usage.Record is best-effort, under the request's context.
Record(r) ==
  LET k == req[r].key
  IN  /\ At(r, "record")
      /\ \/ /\ ~req[r].gone
            /\ used' = Charged(r)
            /\ cohort' = [cohort EXCEPT ![k] = [p \in Periods |->
                 IF used[k][p] < BudgetCap /\ Charged(r)[k][p] >= BudgetCap
                 THEN Cardinality(Chargeable(k, p)) ELSE @[p]]]
         \/ UNCHANGED <<used, cohort>>
      /\ Goto(r, "relay")
      /\ UNCHANGED <<storeVars, phase, poolVars, metered>>

\* The upstream's status and body are written, whatever they are; the reply is lost
\* when the client is gone or the server's write timeout has passed.
Relay(r) ==
  /\ At(r, "relay")
  /\ Return(r)
  /\ UNCHANGED <<storeVars, phase, poolVars, usageVars>>

-----------------------------------------------------------------------------
\* A month ends: the monthly sums start over; an event already stamped keeps its
\* month.
NextMonth ==
  /\ used' = [k \in Keys |-> [used[k] EXCEPT !["monthly"] = 0]]
  /\ cohort' = [k \in Keys |-> [cohort[k] EXCEPT !["monthly"] = 0]]
  /\ req' = [r \in Requests |-> [req[r] EXCEPT !.lastMonth = @ \/ At(r, "record")]]
  /\ UNCHANGED <<storeVars, phase, poolVars, metered>>

Start ==
  /\ phase = "stopped"
  /\ phase' = "serving"
  /\ UNCHANGED <<storeVars, req, poolVars, usageVars>>

\* SIGTERM: Shutdown closes the listener.  It does not cancel request contexts.
Signal ==
  /\ phase = "serving"
  /\ phase' = "draining"
  /\ UNCHANGED <<storeVars, req, poolVars, usageVars>>

\* Shutdown returns, with every request answered or after 20 seconds; the process
\* ends and takes the handlers that are left with it.
Exit ==
  /\ phase = "draining"
  /\ phase' = "stopped"
  /\ req' = [r \in Requests |-> Fresh(req[r].key)]
  /\ running' = {} /\ parked' = {}
  /\ UNCHANGED <<storeVars, usageVars>>

HandlerStep(r) ==
  \/ Authenticate(r) \/ CheckBudget(r) \/ Acquire(r) \/ Resume(r) \/ Abandon(r)
  \/ ReleaseSlot(r) \/ Record(r) \/ Relay(r)
  \/ \E n \in InputCounts : CheckLocally(r, n)
  \/ \E outcome \in {"ok", "refused", "error"}, t \in 0..MaxTokens :
       UpstreamReturns(r, outcome, t)

GatewayNext ==
  \/ \E r \in Requests : \/ HandlerStep(r) \/ HangUp(r) \/ Panic(r)
                         \/ \E k \in Keys : Arrive(r, k)
  \/ OperatorStep /\ UNCHANGED <<phase, req, poolVars, usageVars>>
  \/ NextMonth \/ Start \/ Signal \/ Exit

GatewaySpec == GatewayInit /\ [][GatewayNext]_gvars

(***************************************************************************)
(* Fairness.  A handler is scheduled, the store answers or fails, and the  *)
(* upstream call returns because of its timeout.  A parked request is      *)
(* handed a slot if slots keep being handed over: Queue's NoStarvation.    *)
(* Nothing is assumed of clients, operators, signals or the calendar.      *)
(***************************************************************************)
HandOver(w) == w \in parked /\ \E r \in Requests : HandlerStep(r) /\ w \in running'

GatewayFairness ==
  \A r \in Requests : WF_gvars(HandlerStep(r)) /\ SF_gvars(HandOver(r))

FairGatewaySpec == GatewaySpec /\ GatewayFairness

-----------------------------------------------------------------------------
\* "a key can overshoot its budget by the tokens of whatever requests are already
\* in flight when the allowance is crossed": the recorded sum never reaches the
\* budget plus one call's tokens for each request that was past the check at that
\* moment, whatever operators do to the key, over months and restarts.
OvershootBounded ==
  \A k \in Keys, p \in Periods :
    metered[k][p] /\ used[k][p] >= BudgetCap
      => used[k][p] < BudgetCap + MaxTokens * cohort[k][p]

\* "The slot covers the upstream call only": a call upstream holds a slot, and a
\* slot is held only from its hand-over to the return of the call, on the error,
\* panic and hang-up paths too.
SlotsCoverCalls ==
  /\ Cardinality(running) <= Capacity
  /\ \A r \in Requests : req[r].pc \in {"forward", "returned"} => r \in running
  /\ \A r \in running : req[r].pc \in {"parked", "forward", "returned"}

LetIn(k) == {r \in Requests : req[r].key = k /\ req[r].pc \notin {"idle", "auth"}}

StatusOf(k) ==
  IF k \notin issued THEN "absent" ELSE IF rows[k].revoked THEN "revoked" ELSE "active"

K == INSTANCE Access WITH status <- [k \in Keys |-> StatusOf(k)],
                          inside <- [k \in Keys |-> LetIn(k)]

\* The gateway, its operators and its restarts implement the contract of Access: a
\* key is issued once and revoked for good, whoever is about to write its row back,
\* a request gets in one at a time and only by the row of an active key, and it
\* stays with the key it came in by.
ImplementsAccess == K!Spec

\* Revocation needs no restart and outlives every one: from the moment a key is
\* revoked only the requests that BearerAuth had let in by then can be past it,
\* although an operator was about to write the row back and a request to read it.
RevokedShutOut ==
  \A k \in Keys, S \in SUBSET Requests :
    [](rows[k].revoked /\ LetIn(k) \subseteq S => [](LetIn(k) \subseteq S))

\* Once a key is revoked, the requests that were let in before come to an end and
\* no other gets past authentication.
RevokedKeyDrains ==
  \A k \in Keys :
    (k \in issued /\ rows[k].revoked)
      ~> [](\A r \in Requests : req[r].key = k => req[r].pc \in {"idle", "auth"})

\* No request is left without an end, also when it is queued behind others or its
\* client is gone.
RequestsEnd == \A r \in Requests : ~At(r, "idle") ~> At(r, "idle")
=============================================================================
