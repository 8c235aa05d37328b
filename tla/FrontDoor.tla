----------------------------- MODULE FrontDoor -----------------------------
(***************************************************************************)
(* What happens to a request before it costs a query: a process that has   *)
(* come up (Startup), and the requests of one key up to the budget check   *)
(* (where Gateway goes on): the body, its inputs (InputCount), the key's   *)
(* batch limit and its rate limit (RateLimit).                             *)
(*                                                                         *)
(* One request is looked at at a time: before the budget check requests    *)
(* share nothing but the limiter, which takes them one by one.  Each       *)
(* carries the row it was authenticated with, so limits vary between them. *)
(***************************************************************************)
EXTENDS Startup, InputCount, RateLimit

CONSTANT KeyRows   \* limits the key carries over time: [batch, rate]

ASSUME FrontDoorAssumption ==
  \A row \in KeyRows : row.batch \in Nat \ {0} /\ row.rate \in Limits

VARIABLE call      \* the request's handler: [pc, row]

frontVars == <<startupVars, countVars, vars, call>>

NoCall == [pc |-> "idle"]
Calls == {NoCall} \cup [pc : {"decode", "count", "limit"}, row : KeyRows]

FrontDoorInit == StartupInit /\ NothingCounted /\ Init /\ call = NoCall

-----------------------------------------------------------------------------
\* A request with the key comes through the door of the API.
Arrive(row) ==
  /\ phase = "serving" /\ call = NoCall
  /\ call' = [pc |-> "decode", row |-> row]
  /\ UNCHANGED <<startupVars, countVars, vars>>

\* 413 or 400: the body is too large, cannot be read or is not JSON.
RefuseBody ==
  /\ call.pc = "decode"
  /\ call' = NoCall
  /\ UNCHANGED <<startupVars, countVars, vars>>

\* The body is there and countInputs starts.
ReadBody ==
  /\ call.pc = "decode"
  /\ \/ \E b \in Bodies : BeginArray(b, call.row.batch)
     \/ \E isString \in BOOLEAN : CountOther(isString, call.row.batch)
  /\ call' = [call EXCEPT !.pc = "count"]
  /\ UNCHANGED <<startupVars, vars>>

Count == call.pc = "count" /\ CountStep /\ UNCHANGED <<startupVars, vars, call>>

\* 400 for an input that cannot be counted or is no batch the key may send.
Judge ==
  /\ call.pc = "count" /\ verdict # "scanning"
  /\ IF verdict = "counted" /\ AllowsBatch(call.row, counted)
     THEN call' = [call EXCEPT !.pc = "limit"] /\ UNCHANGED countVars
     ELSE call' = NoCall /\ ForgetCount
  /\ UNCHANGED <<startupVars, vars>>

\* Limiter.Allow: 429, or on to the budget check.
AskLimiter ==
  /\ call.pc = "limit"
  /\ Allow(call.row.rate)
  /\ call' = NoCall /\ ForgetCount
  /\ UNCHANGED startupVars

\* The process goes, and everything it held in memory with it.
StopServing ==
  /\ Stop
  /\ age' = Window /\ count' = 0 /\ recent' = [k \in 0..(Window - 1) |-> 0] /\ told' = -1
  /\ body' = << >> /\ limit' = 0 /\ pos' = 0 /\ depth' = 0 /\ counted' = 0
  /\ allNumbers' = TRUE /\ verdict' = "none"
  /\ call' = NoCall

FrontDoorNext ==
  \/ ComeUp /\ UNCHANGED <<countVars, vars, call>>
  \/ StopServing
  \/ RefuseBody \/ ReadBody \/ Count \/ Judge \/ AskLimiter
  \/ \E row \in KeyRows : Arrive(row)
  \/ Tick /\ UNCHANGED <<startupVars, countVars, call>>

FrontDoorSpec == FrontDoorInit /\ [][FrontDoorNext]_frontVars

-----------------------------------------------------------------------------
\* Every variable has its type; in particular a window never holds more requests
\* than the highest limit the key has carried.
FrontDoorTypeOK == TypeOK /\ CountTypeOK /\ call \in Calls

\* "so malformed or abusive traffic is rejected before it can cost an upstream
\* call": a request is held against the key's rate only after its body has been
\* found to be a batch that its own row permits, by the definition of an input and
\* not by the count.
OnlyBatchesAreMetered ==
  [][(recent'[0] > recent[0] \/ told' > told)
       => /\ limit = call.row.batch
          /\ body # << >> => Permitted
          /\ body = << >> => counted = 1]_frontVars
=============================================================================
