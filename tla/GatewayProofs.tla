--------------------------- MODULE GatewayProofs ---------------------------
(***************************************************************************)
(* Proofs about Gateway and KeyStore for every set of keys, operators and  *)
(* requests, every capacity, budget and call size.  The invariant has two  *)
(* independent parts: StoreInv, about the key table and the commands on    *)
(* it, and RInv, about handlers, slots and sums.  Handler steps are all    *)
(* instances of Move, of which three lemmas (LocalMove, LeavingMove and    *)
(* AcquireKeepsSlots) say what they keep; only the budget check and        *)
(* accounting need more.                                                   *)
(***************************************************************************)
EXTENDS Gateway, TLAPS, FiniteSetTheorems

\* Laying flags over limits gives limits: applyFlags invents no field and no value.
LEMMA ApplyFlagsType ==
  ASSUME NEW flags \in FlagSets, NEW l \in Limits
  PROVE  ApplyFlags(flags, l) \in Limits
<1> DEFINE g == ApplyFlags(flags, l)
<1>1. \A f \in Fields : g[f] \in ValuesOf(f)
  <2> SUFFICES ASSUME NEW f \in Fields PROVE g[f] \in ValuesOf(f)
    OBVIOUS
  <2>1. CASE f \in DOMAIN flags
    BY <2>1 DEF ApplyFlags, ValuesOf
  <2>2. CASE f \notin DOMAIN flags
    <3>1. l[f] \in ValuesOf(f)
      BY DEF Limits, Fields
    <3> QED BY <2>2, <3>1 DEF ApplyFlags
  <2> QED BY <2>1, <2>2
<1>2. g = [batch |-> g["batch"], rate |-> g["rate"], budget |-> g["budget"],
           period |-> g["period"], priority |-> g["priority"]]
  BY DEF ApplyFlags, Fields
<1> QED BY <1>1, <1>2 DEF Limits, Fields

\* A row's limits, and hence a copy of it, have a numeric budget of at most
\* BudgetCap and one of the two periods.
LEMMA BudgetFacts ==
  ASSUME NEW l \in Limits
  PROVE  l.budget \in Int /\ l.budget <= BudgetCap
<1>1. l.budget \in ValuesOf("budget")
  BY DEF Limits
<1> QED BY <1>1, KeyStoreAssumption, GatewayAssumption DEF Fields

\* A handler that carries no row carries the defaults.
LEMMA NoRowType == NoRow \in Rows
  BY KeyStoreAssumption DEF NoRow, Rows

\* A handler that is not running is well-formed.
LEMMA FreshType == \A k \in Keys : Fresh(k) \in Handlers
  BY NoRowType, GatewayAssumption DEF Fresh, Handlers, Stages

-----------------------------------------------------------------------------
\* What Limits.Validate lets through refuses nobody everything.
LEMMA ValidIsSound ==
  ASSUME NEW l \in Limits, Validate(l)
  PROVE  l.budget # 0 /\ l.batch > 0 /\ l.rate > 0
<1>1. /\ l.budget \in ValuesOf("budget") /\ l.batch \in ValuesOf("batch")
      /\ l.rate \in ValuesOf("rate")
  BY DEF Limits
<1>2. l.budget \in Int /\ l.batch \in Int /\ l.rate \in Int
  BY <1>1, KeyStoreAssumption DEF Fields
<1> QED BY <1>2 DEF Validate, Unlimited

\* Between update's read and its write the command holds sound limits.
OpsSound ==
  \A o \in Operators : op[o] # Idle => Validate(ApplyFlags(op[o].flags, op[o].row.limits))

\* Only a row that exists can be revoked.
UnissuedActive == \A k \in Keys \ issued : ~rows[k].revoked

\* An update in progress is of a row that exists.
OpsOnRows == \A o \in Operators : op[o] # Idle => op[o].key \in issued

StoreInv == StoreTypeOK /\ OpsSound /\ OpsOnRows /\ UnissuedActive

RevokedStays == \A k \in Keys : rows[k].revoked => rows'[k].revoked

\* A create inserts sound limits, of a key that has no row yet.
LEMMA CreateStep ==
  ASSUME StoreInv, NEW o \in Operators, NEW k \in Keys, NEW flags \in FlagSets,
         Create(o, k, flags)
  PROVE  StoreInv' /\ RevokedStays
<1> DEFINE l == ApplyFlags(flags, Defaults)
<1>1. l \in Limits /\ Validate(l)
  BY ApplyFlagsType, KeyStoreAssumption DEF Create
<1> HIDE DEF l
<1>2. [limits |-> l, revoked |-> FALSE] \in Rows
  BY <1>1 DEF Rows
<1>3. /\ issued' = issued \cup {k} /\ k \notin issued /\ op' = op
      /\ rows' = [rows EXCEPT ![k] = [limits |-> l, revoked |-> FALSE]]
  BY DEF Create, l
<1>4. rows' \in [Keys -> Rows]
  BY <1>2, <1>3 DEF StoreInv, StoreTypeOK
<1>5. \A q \in issued' : /\ rows'[q].limits.budget # 0 /\ rows'[q].limits.batch > 0
                         /\ rows'[q].limits.rate > 0
  BY <1>1, <1>3, ValidIsSound DEF StoreInv, StoreTypeOK
<1>6. OpsSound' /\ OpsOnRows'
  BY <1>3 DEF StoreInv, OpsSound, OpsOnRows
<1>7. RevokedStays /\ UnissuedActive'
  BY <1>3 DEF StoreInv, StoreTypeOK, RevokedStays, UnissuedActive
<1> QED BY <1>3, <1>4, <1>5, <1>6, <1>7 DEF StoreInv, StoreTypeOK

\* The first half of an update changes no row.
LEMMA BeginUpdateStep ==
  ASSUME StoreInv, NEW o \in Operators, NEW k \in Keys, NEW flags \in FlagSets,
         BeginUpdate(o, k, flags)
  PROVE  StoreInv' /\ RevokedStays
<1> DEFINE u == [busy |-> TRUE, key |-> k, flags |-> flags, row |-> rows[k]]
<1>1. /\ k \in issued /\ op' = [op EXCEPT ![o] = u]
      /\ issued' = issued /\ rows' = rows
      /\ Validate(ApplyFlags(u.flags, u.row.limits))
  BY DEF BeginUpdate
<1>2. u \in Updating
  BY DEF StoreInv, StoreTypeOK, Updating
<1>3. u.key = k
  OBVIOUS
<1> HIDE DEF u
<1>4. op' \in [Operators -> {Idle} \cup Updating]
  BY <1>1, <1>2 DEF StoreInv, StoreTypeOK
<1>5. OpsSound' /\ OpsOnRows'
  BY <1>1, <1>3 DEF StoreInv, StoreTypeOK, OpsSound, OpsOnRows
<1> QED BY <1>1, <1>4, <1>5 DEF StoreInv, StoreTypeOK, RevokedStays, UnissuedActive

\* The second half writes sound limits and leaves revoked_at alone, whatever has
\* happened to the row since it was read.
LEMMA FinishUpdateStep ==
  ASSUME StoreInv, NEW o \in Operators, FinishUpdate(o)
  PROVE  StoreInv' /\ RevokedStays
<1> DEFINE u == op[o]
           l == ApplyFlags(u.flags, u.row.limits)
<1>1. u \in Updating /\ u # Idle
  BY DEF FinishUpdate, StoreInv, StoreTypeOK
<1>2. u.key \in issued /\ u.key \in Keys /\ Validate(l)
  BY <1>1 DEF StoreInv, StoreTypeOK, OpsSound, OpsOnRows
<1>3. l \in Limits
  BY <1>1, ApplyFlagsType DEF Updating, Rows
<1>4. /\ rows' = [rows EXCEPT ![u.key] = [limits |-> l, revoked |-> rows[u.key].revoked]]
      /\ op' = [op EXCEPT ![o] = Idle] /\ issued' = issued
  BY DEF FinishUpdate, UpdatedLimits
<1>5. l.budget # 0 /\ l.batch > 0 /\ l.rate > 0
  BY <1>2, <1>3, ValidIsSound
<1> HIDE DEF u, l
<1>6. [limits |-> l, revoked |-> rows[u.key].revoked] \in Rows
  BY <1>2, <1>3 DEF StoreInv, StoreTypeOK, Rows
<1>7. rows' \in [Keys -> Rows]
  BY <1>2, <1>4, <1>6 DEF StoreInv, StoreTypeOK
<1>8. \A q \in issued' : /\ rows'[q].limits.budget # 0 /\ rows'[q].limits.batch > 0
                         /\ rows'[q].limits.rate > 0
  BY <1>2, <1>4, <1>5 DEF StoreInv, StoreTypeOK
<1>9. op' \in [Operators -> {Idle} \cup Updating] /\ OpsSound' /\ OpsOnRows'
  BY <1>4 DEF StoreInv, StoreTypeOK, OpsSound, OpsOnRows
<1>10. RevokedStays /\ UnissuedActive'
  BY <1>2, <1>4 DEF StoreInv, StoreTypeOK, RevokedStays, UnissuedActive
<1> QED BY <1>4, <1>7, <1>8, <1>9, <1>10 DEF StoreInv, StoreTypeOK

\* Revoking keeps the limits.
LEMMA RevokeStep ==
  ASSUME StoreInv, NEW o \in Operators, NEW k \in Keys, Revoke(o, k)
  PROVE  StoreInv' /\ RevokedStays
<1>1. CASE k \notin issued
  BY <1>1 DEF Revoke, StoreInv, StoreTypeOK, OpsSound, OpsOnRows, UnissuedActive,
              RevokedStays
<1>2. CASE k \in issued
  <2>1. /\ rows' = [rows EXCEPT ![k] = [rows[k] EXCEPT !.revoked = TRUE]]
        /\ issued' = issued /\ op' = op
    BY <1>2 DEF Revoke
  <2>2. [rows[k] EXCEPT !.revoked = TRUE] \in Rows
    BY DEF StoreInv, StoreTypeOK, Rows
  <2>3. rows[k].limits = [rows[k] EXCEPT !.revoked = TRUE].limits
    BY DEF StoreInv, StoreTypeOK, Rows
  <2>4. [rows[k] EXCEPT !.revoked = TRUE].revoked
    BY DEF StoreInv, StoreTypeOK, Rows
  <2>5. rows' \in [Keys -> Rows]
    BY <2>1, <2>2 DEF StoreInv, StoreTypeOK
  <2>6. \A q \in issued' : /\ rows'[q].limits.budget # 0 /\ rows'[q].limits.batch > 0
                           /\ rows'[q].limits.rate > 0
    BY <2>1, <2>3 DEF StoreInv, StoreTypeOK
  <2>7. RevokedStays /\ UnissuedActive'
    BY <1>2, <2>1, <2>4 DEF StoreInv, StoreTypeOK, RevokedStays, UnissuedActive
  <2> QED BY <2>1, <2>5, <2>6, <2>7 DEF StoreInv, StoreTypeOK, OpsSound, OpsOnRows
<1> QED BY <1>1, <1>2

\* Every command keeps the store's invariant and every revocation.
LEMMA OperatorStepKeeps ==
  ASSUME StoreInv, OperatorStep
  PROVE  StoreInv' /\ RevokedStays
  BY CreateStep, BeginUpdateStep, FinishUpdateStep, RevokeStep DEF OperatorStep
-----------------------------------------------------------------------------
(***************************************************************************)
(* The handlers.                                                           *)
(***************************************************************************)
Owing == {"admit", "parked", "forward", "returned", "record"}

\* Request r moves to stage s and nobody else moves.
Move(r, s) ==
  /\ req' \in [Requests -> Handlers]
  /\ \A q \in Requests \ {r} : req'[q] = req[q]
  /\ req'[r].pc = s
  /\ s \in Owing => req'[r].key = req[r].key /\ req'[r].lastMonth = req[r].lastMonth

ReqType == req \in [Requests -> Handlers]

\* Goto is a move.
LEMMA GotoMoves ==
  ASSUME ReqType, NEW r \in Requests, NEW s \in Stages, Goto(r, s)
  PROVE  Move(r, s)
<1> DEFINE h == [req[r] EXCEPT !.pc = s]
<1>1. req' = [req EXCEPT ![r] = h]
  BY DEF Goto
<1>2. h \in Handlers /\ h.pc = s /\ h.key = req[r].key /\ h.lastMonth = req[r].lastMonth
  BY DEF ReqType, Handlers
<1> HIDE DEF h
<1> QED BY <1>1, <1>2 DEF ReqType, Move

\* Return is a move out.
LEMMA ReturnMoves ==
  ASSUME ReqType, NEW r \in Requests, Return(r)
  PROVE  Move(r, "idle")
<1>1. req[r].key \in Keys
  BY DEF ReqType, Handlers
<1>2. Fresh(req[r].key) \in Handlers /\ Fresh(req[r].key).pc = "idle"
  BY <1>1, FreshType DEF Fresh
<1> QED BY <1>2 DEF ReqType, Return, Move, Owing

\* The stages and copies an arrival, a hang-up, authentication, the budget check,
\* the upstream's return and accounting set are moves too.
LEMMA ArriveMoves ==
  ASSUME ReqType, NEW r \in Requests, NEW k \in Keys, Arrive(r, k)
  PROVE  Move(r, "auth")
<1> DEFINE h == [Fresh(k) EXCEPT !.pc = "auth"]
<1>1. h \in Handlers /\ h.pc = "auth"
  BY FreshType DEF Fresh, Handlers, Stages
<1>2. req' = [req EXCEPT ![r] = h]
  BY DEF Arrive
<1> HIDE DEF h
<1> QED BY <1>1, <1>2 DEF ReqType, Move, Owing

\* A hang-up leaves the handler where it is.
LEMMA HangUpMoves ==
  ASSUME ReqType, NEW r \in Requests, HangUp(r)
  PROVE  Move(r, req[r].pc)
<1> DEFINE h == [req[r] EXCEPT !.gone = TRUE]
<1>1. /\ h \in Handlers /\ h.pc = req[r].pc /\ h.key = req[r].key
      /\ h.lastMonth = req[r].lastMonth
  BY DEF ReqType, Handlers
<1>2. req' = [req EXCEPT ![r] = h]
  BY DEF HangUp
<1> HIDE DEF h
<1> QED BY <1>1, <1>2 DEF ReqType, Move

\* Taking or dropping a copy of the key's row is part of a move.
LEMMA CopyMoves ==
  ASSUME ReqType, NEW r \in Requests, NEW s \in Stages, NEW w \in Rows,
         req' = [req EXCEPT ![r].pc = s, ![r].row = w]
  PROVE  Move(r, s)
<1> DEFINE h == [[req[r] EXCEPT !.pc = s] EXCEPT !.row = w]
<1>1. /\ h \in Handlers /\ h.pc = s /\ h.key = req[r].key
      /\ h.lastMonth = req[r].lastMonth
  BY DEF ReqType, Handlers
<1>2. req' = [req EXCEPT ![r] = h]
  BY DEF ReqType
<1> HIDE DEF h
<1> QED BY <1>1, <1>2 DEF ReqType, Move

\* The upstream's answer is kept in the handler that waited for it.
LEMMA ReplyMoves ==
  ASSUME ReqType, NEW r \in Requests, NEW outcome \in {"ok", "refused", "error"},
         NEW t \in 0..MaxTokens, UpstreamReturns(r, outcome, t)
  PROVE  Move(r, "returned")
<1> DEFINE h == [req[r] EXCEPT !.pc = "returned", !.reply = outcome, !.tokens = t]
<1>1. /\ h \in Handlers /\ h.pc = "returned" /\ h.key = req[r].key
      /\ h.lastMonth = req[r].lastMonth
  BY DEF ReqType, Handlers, Stages
<1>2. req' = [req EXCEPT ![r] = h]
  BY DEF ReqType, UpstreamReturns
<1> HIDE DEF h
<1> QED BY <1>1, <1>2 DEF ReqType, Move
-----------------------------------------------------------------------------
(***************************************************************************)
(* Slots.                                                                  *)
(***************************************************************************)
PoolType == running \subseteq Requests /\ parked \subseteq Requests

SlotInv ==
  /\ SlotsCoverCalls
  /\ \A r \in parked : req[r].pc = "parked"
  /\ running \cap parked = {}

\* Pool counts with the same operator.
LEMMA PoolCounts == \A S : A!Cardinality(S) = Cardinality(S)
  BY Zenon DEF A!Cardinality, Cardinality

\* Slots in use can be counted one by one.
LEMMA RunningFinite ==
  ASSUME PoolType
  PROVE  /\ IsFiniteSet(running) /\ Cardinality(running) \in Nat
         /\ \A r \in running : Cardinality(running \ {r}) = Cardinality(running) - 1
         /\ \A S, w : S \subseteq running /\ w \notin S =>
              Cardinality(S \cup {w}) = Cardinality(S) + 1 /\ Cardinality(S) \in Nat
<1>1. IsFiniteSet(running)
  BY GatewayAssumption, FS_Subset DEF PoolType
<1> QED BY <1>1, FS_CardinalityType, FS_RemoveElement, FS_AddElement, FS_Subset

\* A move that leaves the pool alone keeps SlotInv, provided the stage fits what
\* the request holds.
LEMMA MoveKeepsSlots ==
  ASSUME ReqType, PoolType, SlotInv, NEW r \in Requests, NEW s \in Stages, Move(r, s),
         UNCHANGED poolVars,
         s \in {"forward", "returned"} => r \in running,
         r \in running => s \in {"parked", "forward", "returned"},
         r \in parked => s = "parked"
  PROVE  SlotInv'
  BY DEF ReqType, PoolType, SlotInv, SlotsCoverCalls, Move, poolVars

\* A request that holds a slot gives it up, to a parked one if there is any, and
\* leaves for a stage without a slot.
LEMMA LeaveKeepsSlots ==
  ASSUME ReqType, PoolType, SlotInv, NEW r \in Requests, NEW s \in Stages, Move(r, s),
         A!Leave(r), s \notin {"parked", "forward", "returned"}
  PROVE  SlotInv' /\ PoolType'
<1>1. r \in running
  BY DEF A!Leave
<1>2. CASE running' = running \ {r} /\ parked' = parked
  <2>1. Cardinality(running') <= Capacity
    BY <1>1, <1>2, RunningFinite, GatewayAssumption DEF SlotInv, SlotsCoverCalls
  <2> QED BY <1>1, <1>2, <2>1 DEF ReqType, PoolType, SlotInv, SlotsCoverCalls, Move
<1>3. ASSUME NEW w \in parked, running' = (running \ {r}) \cup {w}, parked' = parked \ {w}
      PROVE  SlotInv' /\ PoolType'
  <2>1. w \notin running /\ w # r /\ req[w].pc = "parked"
    BY <1>1 DEF SlotInv
  <2>2. Cardinality(running') = Cardinality(running)
    <3>1. Cardinality(running \ {r}) = Cardinality(running) - 1 /\ Cardinality(running) \in Nat
      BY <1>1, RunningFinite
    <3>2. Cardinality((running \ {r}) \cup {w}) = Cardinality(running \ {r}) + 1
      BY <2>1, running \ {r} \subseteq running, w \notin running \ {r}, RunningFinite
    <3> QED BY <1>3, <3>1, <3>2
  <2>3. req'[w].pc = "parked"
    BY <2>1 DEF Move, PoolType
  <2> QED BY <1>1, <1>3, <2>1, <2>2, <2>3
          DEF ReqType, PoolType, SlotInv, SlotsCoverCalls, Move
<1> QED BY <1>2, <1>3 DEF A!Leave

\* Acquire: the slot is taken where there is one, or the request parks.
LEMMA AcquireKeepsSlots ==
  ASSUME ReqType, PoolType, SlotInv, NEW r \in Requests, Acquire(r)
  PROVE  SlotInv' /\ PoolType'
<1>1. CASE A!Enter(r) /\ Goto(r, "forward")
  <2>1. Move(r, "forward")
    BY <1>1, GotoMoves DEF Stages
  <2>2. r \notin running /\ r \notin parked /\ running' = running \cup {r} /\ parked' = parked
    BY <1>1 DEF A!Enter
  <2>3. Cardinality(running) < Capacity
    BY <1>1, PoolCounts DEF A!Enter
  <2>4. Cardinality(running') <= Capacity
    BY <2>2, <2>3, RunningFinite, GatewayAssumption
  <2> QED BY <2>1, <2>2, <2>4 DEF ReqType, PoolType, SlotInv, SlotsCoverCalls, Move
<1>2. CASE A!Park(r) /\ Goto(r, "parked")
  <2>1. Move(r, "parked")
    BY <1>2, GotoMoves DEF Stages
  <2>2. r \notin running /\ parked' = parked \cup {r} /\ running' = running
    BY <1>2 DEF A!Park
  <2> QED BY <2>1, <2>2 DEF ReqType, PoolType, SlotInv, SlotsCoverCalls, Move
<1> QED BY <1>1, <1>2 DEF Acquire
-----------------------------------------------------------------------------
(***************************************************************************)
(* The overshoot.  OvershootBounded is not inductive: it says nothing of   *)
(* the requests that are still to be charged.  OverInv sets one call's     *)
(* tokens aside for each of them, and is kept because nobody joins them    *)
(* once the sum has reached the budget.                                    *)
(***************************************************************************)
UsageType ==
  /\ used \in [Keys -> [Periods -> Nat]]
  /\ cohort \in [Keys -> [Periods -> Nat]]
  /\ metered \in [Keys -> [Periods -> BOOLEAN]]

Owed(k, p) == MaxTokens * Cardinality(Chargeable(k, p))

OverInv ==
  \A k \in Keys, p \in Periods :
    metered[k][p] /\ used[k][p] >= BudgetCap
      => used[k][p] + Owed(k, p) < BudgetCap + MaxTokens * cohort[k][p]

\* Multiplication by one call's tokens.
LEMMA Times ==
  /\ \A t, a, b \in Nat : a <= b => t * a <= t * b
  /\ \A t, a \in Nat : a >= 1 => t * (a - 1) = t * a - t
  /\ \A t, a \in Nat : t * a \in Nat
  OBVIOUS

\* Chargeable requests can be counted, and fewer of them owe less.
LEMMA ChargeableCounts ==
  /\ \A k, p : IsFiniteSet(Chargeable(k, p)) /\ Cardinality(Chargeable(k, p)) \in Nat
  /\ \A k, p : Owed(k, p) \in Nat
<1>1. \A k, p : Chargeable(k, p) \subseteq Requests
  BY DEF Chargeable
<1>2. \A k, p : IsFiniteSet(Chargeable(k, p))
  BY <1>1, FS_Subset, GatewayAssumption
<1>3. \A k, p : Cardinality(Chargeable(k, p)) \in Nat
  BY <1>2, FS_CardinalityType
<1> QED BY <1>2, <1>3, Times, GatewayAssumption DEF Owed

\* A move does not make a request chargeable that was not.
LEMMA MoveShrinks ==
  ASSUME ReqType, NEW r \in Requests, NEW s \in Stages, Move(r, s),
         s \in Owing => req[r].pc \in Owing,
         NEW k \in Keys, NEW p \in Periods
  PROVE  Chargeable(k, p)' \subseteq Chargeable(k, p)
  BY DEF ReqType, Move, Chargeable, Owing

\* With the sums unchanged, fewer chargeable requests keep OverInv.
LEMMA ShrinkKeepsOver ==
  ASSUME UsageType, OverInv, used' = used, cohort' = cohort,
         \A k \in Keys, p \in Periods : metered'[k][p] => metered[k][p],
         \A k \in Keys, p \in Periods :
           metered'[k][p] /\ used[k][p] >= BudgetCap
             => Chargeable(k, p)' \subseteq Chargeable(k, p)
  PROVE  OverInv'
<1> SUFFICES ASSUME NEW k \in Keys, NEW p \in Periods,
                    metered'[k][p], used[k][p] >= BudgetCap
             PROVE  used[k][p] + Owed(k, p)' < BudgetCap + MaxTokens * cohort[k][p]
  BY DEF OverInv
<1>1. used[k][p] + Owed(k, p) < BudgetCap + MaxTokens * cohort[k][p]
  BY DEF OverInv
<1>2. /\ Cardinality(Chargeable(k, p)') <= Cardinality(Chargeable(k, p))
      /\ Cardinality(Chargeable(k, p)') \in Nat
  BY ChargeableCounts, FS_Subset, FS_CardinalityType
<1>3. Owed(k, p)' <= Owed(k, p) /\ Owed(k, p)' \in Nat /\ Owed(k, p) \in Nat
  BY <1>2, ChargeableCounts, Times, GatewayAssumption DEF Owed
<1>4. /\ used[k][p] \in Nat /\ MaxTokens * cohort[k][p] \in Nat /\ BudgetCap \in Nat
  BY Times, GatewayAssumption DEF UsageType
<1> QED BY <1>1, <1>3, <1>4
RInv == ReqType /\ PoolType /\ UsageType /\ SlotInv /\ OverInv

\* A step of one request that touches neither the pool nor the sums.
LEMMA LocalMove ==
  ASSUME RInv, NEW r \in Requests, NEW s \in Stages, Move(r, s),
         UNCHANGED <<poolVars, usageVars>>,
         s \in Owing => req[r].pc \in Owing,
         s \in {"forward", "returned"} => r \in running,
         r \in running => s \in {"parked", "forward", "returned"},
         r \in parked => s = "parked"
  PROVE  RInv'
<1>1. SlotInv'
  BY MoveKeepsSlots DEF RInv
<1>2. used' = used /\ cohort' = cohort /\ metered' = metered
  BY DEF usageVars
<1>3. OverInv'
  BY <1>2, MoveShrinks, ShrinkKeepsOver DEF RInv
<1> QED BY <1>1, <1>2, <1>3 DEF RInv, ReqType, PoolType, UsageType, Move, poolVars

\* A step of one request that gives its slot up.
LEMMA LeavingMove ==
  ASSUME RInv, NEW r \in Requests, NEW s \in Stages, Move(r, s),
         A!Leave(r), UNCHANGED usageVars,
         s \in Owing => req[r].pc \in Owing,
         s \notin {"parked", "forward", "returned"}
  PROVE  RInv'
<1>1. SlotInv' /\ PoolType'
  BY LeaveKeepsSlots DEF RInv
<1>2. used' = used /\ cohort' = cohort /\ metered' = metered
  BY DEF usageVars
<1>3. OverInv'
  BY <1>2, MoveShrinks, ShrinkKeepsOver DEF RInv
<1> QED BY <1>1, <1>2, <1>3 DEF RInv, ReqType, UsageType, Move

\* A stage that holds no slot says the request is neither running nor parked.
LEMMA NoSlot ==
  ASSUME RInv, NEW r \in Requests, req[r].pc \notin {"parked", "forward", "returned"}
  PROVE  r \notin running /\ r \notin parked
  BY DEF RInv, SlotInv, SlotsCoverCalls

-----------------------------------------------------------------------------
\* A new request holds no slot and owes nothing.
LEMMA ArriveStep ==
  ASSUME RInv, NEW r \in Requests, NEW k \in Keys, Arrive(r, k)
  PROVE  RInv'
<1>1. Move(r, "auth") /\ req[r].pc = "idle" /\ UNCHANGED <<poolVars, usageVars>>
  BY ArriveMoves DEF RInv, Arrive, At
<1> QED BY <1>1, LocalMove, NoSlot DEF Stages, Owing

\* A hang-up by itself frees no slot: the handler has to notice it.
LEMMA HangUpStep ==
  ASSUME RInv, NEW r \in Requests, HangUp(r)
  PROVE  RInv'
<1>1. Move(r, req[r].pc) /\ UNCHANGED <<poolVars, usageVars>> /\ req[r].pc \in Stages
  BY HangUpMoves DEF RInv, ReqType, Handlers, HangUp
<1>2. /\ req[r].pc \in {"forward", "returned"} => r \in running
      /\ r \in running => req[r].pc \in {"parked", "forward", "returned"}
      /\ r \in parked => req[r].pc = "parked"
  BY DEF RInv, SlotInv, SlotsCoverCalls
<1> QED BY <1>1, <1>2, LocalMove

\* Authentication comes before the slot and before the budget.
LEMMA AuthenticateStep ==
  ASSUME RInv, rows \in [Keys -> Rows], NEW r \in Requests, Authenticate(r)
  PROVE  RInv'
<1>1. req[r].pc = "auth" /\ UNCHANGED <<poolVars, usageVars>>
  BY DEF Authenticate, At
<1>2. r \notin running /\ r \notin parked
  BY <1>1, NoSlot
<1>3. CASE Return(r)
  <2>1. Move(r, "idle")
    BY <1>3, ReturnMoves DEF RInv
  <2> QED BY <1>1, <1>2, <2>1, LocalMove DEF Stages, Owing
<1>4. CASE req' = [req EXCEPT ![r].pc = "decode", ![r].row = rows[req[r].key]]
  <2>1. rows[req[r].key] \in Rows
    BY DEF RInv, ReqType, Handlers
  <2>2. Move(r, "decode")
    BY <1>4, <2>1, CopyMoves DEF RInv, Stages
  <2> QED BY <1>1, <1>2, <2>2, LocalMove DEF Stages, Owing
<1> QED BY <1>3, <1>4 DEF Authenticate

\* So do the checks that need no store.
LEMMA CheckLocallyStep ==
  ASSUME RInv, NEW r \in Requests, NEW n \in InputCounts, CheckLocally(r, n)
  PROVE  RInv'
<1>1. req[r].pc = "decode" /\ UNCHANGED <<poolVars, usageVars>>
  BY DEF CheckLocally, At
<1>2. r \notin running /\ r \notin parked
  BY <1>1, NoSlot
<1>3. CASE Return(r)
  <2>1. Move(r, "idle")
    BY <1>3, ReturnMoves DEF RInv
  <2> QED BY <1>1, <1>2, <2>1, LocalMove DEF Stages, Owing
<1>4. CASE Goto(r, "budget")
  <2>1. Move(r, "budget")
    BY <1>4, GotoMoves DEF RInv, Stages
  <2> QED BY <1>1, <1>2, <2>1, LocalMove DEF Stages, Owing
<1> QED BY <1>3, <1>4 DEF CheckLocally

\* The budget check lets a request through only below the budget: for a metered
\* key whose sum has reached BudgetCap nobody joins the chargeable requests.
LEMMA CheckBudgetStep ==
  ASSUME RInv, NEW r \in Requests, CheckBudget(r)
  PROVE  RInv'
<1> DEFINE k == req[r].key
           l == req[r].row.limits
<1>1. /\ req[r].pc = "budget" /\ UNCHANGED poolVars
      /\ used' = used /\ cohort' = cohort
  BY DEF CheckBudget, At
<1>2. k \in Keys /\ l \in Limits
  BY DEF RInv, ReqType, Handlers, Rows
<1>3. r \notin running /\ r \notin parked
  BY <1>1, NoSlot
<1>4. CASE Return(r) /\ UNCHANGED metered
  <2>1. Move(r, "idle") /\ UNCHANGED <<poolVars, usageVars>>
    BY <1>1, <1>4, ReturnMoves DEF RInv, usageVars
  <2> QED BY <1>1, <1>3, <2>1, LocalMove DEF Stages, Owing
<1>5. CASE /\ req' = [req EXCEPT ![r].pc = "admit", ![r].row = NoRow]
           /\ metered' = [metered EXCEPT ![k] =
                [p \in Periods |-> metered[k][p] /\ l.budget # Unlimited /\ l.period = p]]
           /\ l.budget # Unlimited => ~BudgetExhausted(l, used[k])
  <2>1. Move(r, "admit")
    BY <1>5, CopyMoves, NoRowType DEF RInv, Stages
  <2>2. \A q \in Keys, p \in Periods : metered'[q][p] =>
          metered[q][p] /\ (q = k => l.budget # Unlimited /\ l.period = p)
    BY <1>2, <1>5 DEF RInv, UsageType
  <2>3. metered' \in [Keys -> [Periods -> BOOLEAN]]
    BY <1>2, <1>5 DEF RInv, UsageType
  <2>4. \A q \in Keys, p \in Periods :
          metered'[q][p] /\ used[q][p] >= BudgetCap
            => Chargeable(q, p)' \subseteq Chargeable(q, p)
    <3> SUFFICES ASSUME NEW q \in Keys, NEW p \in Periods,
                        metered'[q][p], used[q][p] >= BudgetCap
                 PROVE  Chargeable(q, p)' \subseteq Chargeable(q, p)
      OBVIOUS
    <3>1. CASE q = k
      <4>1. ~(used[k][p] >= l.budget)
        BY <1>5, <2>2, <3>1 DEF BudgetExhausted
      <4>2. /\ l.budget \in Int /\ l.budget <= BudgetCap
            /\ used[k][p] \in Nat /\ BudgetCap \in Nat
        BY <1>2, BudgetFacts, GatewayAssumption DEF RInv, UsageType
      <4> QED BY <3>1, <4>1, <4>2
    <3>2. CASE q # k
      BY <2>1, <3>2 DEF Move, Chargeable, Owing
    <3> QED BY <3>1, <3>2
  <2>5. OverInv'
    BY <1>1, <2>2, <2>4, ShrinkKeepsOver DEF RInv
  <2>6. SlotInv'
    BY <1>1, <1>3, <2>1, MoveKeepsSlots DEF RInv, Stages
  <2> QED BY <1>1, <2>1, <2>3, <2>5, <2>6
          DEF RInv, ReqType, PoolType, UsageType, Move, poolVars
<1> QED BY <1>4, <1>5 DEF CheckBudget

\* A request that got past the budget check owes one call from there on, parked or not.
LEMMA AcquireStep ==
  ASSUME RInv, NEW r \in Requests, Acquire(r)
  PROVE  RInv'
<1>1. SlotInv' /\ PoolType'
  BY AcquireKeepsSlots DEF RInv
<1>2. req[r].pc = "admit" /\ used' = used /\ cohort' = cohort /\ metered' = metered
  BY DEF Acquire, At, usageVars
<1>3. PICK s \in {"forward", "parked"} : Goto(r, s)
  BY DEF Acquire
<1>4. Move(r, s) /\ s \in Stages
  BY <1>3, GotoMoves DEF RInv, Stages
<1>5. OverInv'
  BY <1>2, <1>4, MoveShrinks, ShrinkKeepsOver DEF RInv, Owing
<1> QED BY <1>1, <1>2, <1>4, <1>5 DEF RInv, ReqType, UsageType, Move

\* A request that was handed a slot while parked calls upstream with it.
LEMMA ResumeStep ==
  ASSUME RInv, NEW r \in Requests, Resume(r)
  PROVE  RInv'
<1>1. /\ req[r].pc = "parked" /\ r \in running /\ r \notin parked
      /\ UNCHANGED <<poolVars, usageVars>>
  BY DEF RInv, SlotInv, Resume, At
<1>2. Move(r, "forward")
  BY GotoMoves DEF RInv, Resume, Stages
<1> QED BY <1>1, <1>2, LocalMove DEF Stages, Owing

\* A parked request whose client is gone leaves the pool, with or without a slot.
LEMMA AbandonStep ==
  ASSUME RInv, NEW r \in Requests, Abandon(r)
  PROVE  RInv'
<1>1. Move(r, "idle") /\ UNCHANGED usageVars
  BY ReturnMoves DEF RInv, Abandon
<1>2. CASE A!Leave(r)
  BY <1>1, <1>2, LeavingMove DEF Stages, Owing
<1>3. CASE A!GiveUp(r)
  <2>1. r \in parked /\ parked' = parked \ {r} /\ running' = running /\ r \notin running
    BY <1>3 DEF A!GiveUp, RInv, SlotInv
  <2>2. SlotInv' /\ PoolType'
    BY <1>1, <2>1 DEF RInv, ReqType, PoolType, SlotInv, SlotsCoverCalls, Move
  <2>3. used' = used /\ cohort' = cohort /\ metered' = metered
    BY <1>1 DEF usageVars
  <2>4. OverInv'
    BY <1>1, <2>3, MoveShrinks, ShrinkKeepsOver DEF RInv, Owing, Stages
  <2> QED BY <1>1, <2>2, <2>3, <2>4 DEF RInv, ReqType, UsageType, Move
<1> QED BY <1>2, <1>3 DEF Abandon

\* The call returns to a handler that still holds its slot.
LEMMA UpstreamStep ==
  ASSUME RInv, NEW r \in Requests, NEW outcome \in {"ok", "refused", "error"},
         NEW t \in 0..MaxTokens, UpstreamReturns(r, outcome, t)
  PROVE  RInv'
<1>1. /\ req[r].pc = "forward" /\ r \in running /\ r \notin parked
      /\ UNCHANGED <<poolVars, usageVars>>
  BY DEF RInv, SlotInv, SlotsCoverCalls, UpstreamReturns, At
<1>2. Move(r, "returned")
  BY ReplyMoves DEF RInv
<1> QED BY <1>1, <1>2, LocalMove DEF Stages, Owing

\* The slot is given back before the answer is looked at.
LEMMA ReleaseSlotStep ==
  ASSUME RInv, NEW r \in Requests, ReleaseSlot(r)
  PROVE  RInv'
<1>1. req[r].pc = "returned" /\ A!Leave(r) /\ UNCHANGED usageVars
  BY DEF ReleaseSlot, At
<1>2. CASE Return(r)
  <2>1. Move(r, "idle")
    BY <1>2, ReturnMoves DEF RInv
  <2> QED BY <1>1, <2>1, LeavingMove DEF Stages, Owing
<1>3. ASSUME NEW s \in {"relay", "record"}, Goto(r, s)
      PROVE  RInv'
  <2>1. Move(r, s) /\ s \in Stages
    BY <1>3, GotoMoves DEF RInv, Stages
  <2> QED BY <1>1, <2>1, LeavingMove DEF Owing
<1> QED BY <1>2, <1>3 DEF ReleaseSlot

\* A panic gives the slot back on its way out.
LEMMA PanicStep ==
  ASSUME RInv, NEW r \in Requests, Panic(r)
  PROVE  RInv'
<1>1. Move(r, "idle") /\ A!Leave(r) /\ UNCHANGED usageVars
  BY ReturnMoves DEF RInv, Panic
<1> QED BY <1>1, LeavingMove DEF Stages, Owing

\* The reply is written without a slot.
LEMMA RelayStep ==
  ASSUME RInv, NEW r \in Requests, Relay(r)
  PROVE  RInv'
<1>1. Move(r, "idle") /\ req[r].pc = "relay" /\ UNCHANGED <<poolVars, usageVars>>
  BY ReturnMoves DEF RInv, Relay, At
<1> QED BY <1>1, LocalMove, NoSlot DEF Stages, Owing

\* Accounting: what is charged was set aside, and if the charge makes the sum reach
\* BudgetCap, the requests counted then are the ones that may follow.
LEMMA RecordStep ==
  ASSUME RInv, NEW r \in Requests, Record(r)
  PROVE  RInv'
<1> DEFINE k == req[r].key
           t == req[r].tokens
<1>1. req[r].pc = "record" /\ UNCHANGED poolVars /\ metered' = metered
  BY DEF Record, At
<1>2. k \in Keys /\ t \in 0..MaxTokens /\ req[r].lastMonth \in BOOLEAN
  BY DEF RInv, ReqType, Handlers
<1>3. r \notin running /\ r \notin parked
  BY <1>1, NoSlot
<1>4. CASE Goto(r, "relay") /\ UNCHANGED <<used, cohort>>
  <2>1. Move(r, "relay") /\ UNCHANGED <<poolVars, usageVars>>
    BY <1>1, <1>4, GotoMoves DEF RInv, Stages, usageVars
  <2> QED BY <1>1, <1>3, <2>1, LocalMove DEF Stages, Owing
<1>5. CASE /\ used' = Charged(r)
           /\ cohort' = [cohort EXCEPT ![k] = [p \in Periods |->
                IF used[k][p] < BudgetCap /\ Charged(r)[k][p] >= BudgetCap
                THEN Cardinality(Chargeable(k, p)) ELSE cohort[k][p]]]
           /\ Goto(r, "relay")
  <2>1. Move(r, "relay")
    BY <1>5, GotoMoves DEF RInv, Stages
  <2>2. used' \in [Keys -> [Periods -> Nat]]
    BY <1>2, <1>5, GatewayAssumption DEF RInv, UsageType, Charged
  <2>3. cohort' \in [Keys -> [Periods -> Nat]]
    BY <1>2, <1>5, ChargeableCounts DEF RInv, UsageType
  <2>4. \A q \in Keys \ {k} : used'[q] = used[q] /\ cohort'[q] = cohort[q]
    BY <1>2, <1>5 DEF RInv, UsageType, Charged
  <2>5. \A p \in Periods :
          /\ used'[k][p] = IF p = "monthly" /\ req[r].lastMonth THEN used[k][p]
                           ELSE used[k][p] + t
          /\ cohort'[k][p] = IF used[k][p] < BudgetCap /\ used'[k][p] >= BudgetCap
                             THEN Cardinality(Chargeable(k, p)) ELSE cohort[k][p]
    BY <1>2, <1>5 DEF RInv, UsageType, Charged
  <2>6. OverInv'
    <3> SUFFICES ASSUME NEW q \in Keys, NEW p \in Periods,
                        metered[q][p], used'[q][p] >= BudgetCap
                 PROVE  used'[q][p] + Owed(q, p)' < BudgetCap + MaxTokens * cohort'[q][p]
      BY <1>1 DEF OverInv
    <3> DEFINE C == Cardinality(Chargeable(q, p))
               D == Cardinality(Chargeable(q, p)')
    <3>1. Chargeable(q, p)' \subseteq Chargeable(q, p)
      BY <2>1, MoveShrinks DEF RInv, Stages, Owing
    <3>2. C \in Nat /\ D \in Nat /\ D <= C
      BY <3>1, ChargeableCounts, FS_Subset, FS_CardinalityType
    <3>3. Owed(q, p) = MaxTokens * C /\ Owed(q, p)' = MaxTokens * D
      BY DEF Owed
    <3>4. /\ used[q][p] \in Nat /\ used'[q][p] \in Nat
          /\ cohort[q][p] \in Nat /\ cohort'[q][p] \in Nat
          /\ MaxTokens \in Nat /\ BudgetCap \in Nat /\ t \in Nat /\ t <= MaxTokens
      BY <1>2, <2>2, <2>3, GatewayAssumption DEF RInv, UsageType
    <3>5. /\ MaxTokens * D <= MaxTokens * C /\ MaxTokens * C \in Nat
          /\ MaxTokens * D \in Nat /\ MaxTokens * cohort[q][p] \in Nat
      BY <3>2, <3>4, Times
    <3>6. used[q][p] >= BudgetCap =>
            used[q][p] + MaxTokens * C < BudgetCap + MaxTokens * cohort[q][p]
      BY <3>3 DEF RInv, OverInv
    <3> HIDE DEF C, D
    <3>7. CASE used'[q][p] = used[q][p] /\ cohort'[q][p] = cohort[q][p]
      BY <3>3, <3>4, <3>5, <3>6, <3>7
    <3>8. CASE q = k /\ ~(p = "monthly" /\ req[r].lastMonth)
      <4>1. used'[q][p] = used[q][p] + t
        BY <2>5, <3>8
      <4>2. r \in Chargeable(q, p) /\ r \notin Chargeable(q, p)'
        BY <1>1, <2>1, <3>8 DEF Chargeable, Move
      <4>3. D <= C - 1 /\ C >= 1
        <5>1. /\ Cardinality(Chargeable(q, p) \ {r}) = C - 1
              /\ IsFiniteSet(Chargeable(q, p) \ {r})
          BY <4>2, ChargeableCounts, FS_RemoveElement DEF C
        <5>2. Chargeable(q, p)' \subseteq Chargeable(q, p) \ {r}
          BY <3>1, <4>2
        <5>3. D <= C - 1
          BY <5>1, <5>2, FS_Subset DEF D
        <5> QED BY <3>2, <5>3
      <4>4. MaxTokens * D <= MaxTokens * C - MaxTokens
        <5>1. C - 1 \in Nat /\ MaxTokens * (C - 1) = MaxTokens * C - MaxTokens
          BY <3>2, <3>4, <4>3, Times
        <5>2. MaxTokens * D <= MaxTokens * (C - 1)
          BY <3>2, <3>4, <4>3, <5>1, Times
        <5> QED BY <5>1, <5>2
      <4>5. used'[q][p] + MaxTokens * D <= used[q][p] + MaxTokens * C
        BY <3>4, <3>5, <4>1, <4>4
      <4>6. CASE used[q][p] >= BudgetCap
        <5>1. cohort'[q][p] = cohort[q][p]
          BY <2>5, <3>4, <3>8, <4>6
        <5> QED BY <3>3, <3>4, <3>5, <3>6, <4>5, <4>6, <5>1
      <4>7. CASE used[q][p] < BudgetCap
        <5>1. cohort'[q][p] = C
          BY <2>5, <3>8, <4>7 DEF C
        <5> QED BY <3>3, <3>4, <3>5, <4>5, <4>7, <5>1
      <4> QED BY <3>4, <4>6, <4>7
    <3>9. CASE q # k \/ (p = "monthly" /\ req[r].lastMonth)
      <4>1. used'[q][p] = used[q][p] /\ cohort'[q][p] = cohort[q][p]
        BY <2>4, <2>5, <3>4, <3>9
      <4> QED BY <3>7, <4>1
    <3> QED BY <3>8, <3>9
  <2>7. SlotInv'
    BY <1>1, <1>3, <2>1, MoveKeepsSlots DEF RInv, Stages
  <2> QED BY <1>1, <2>1, <2>2, <2>3, <2>6, <2>7
          DEF RInv, ReqType, PoolType, UsageType, Move, poolVars
<1> QED BY <1>4, <1>5 DEF Record

-----------------------------------------------------------------------------
(***************************************************************************)
(* The calendar, the process and the operators.                            *)
(***************************************************************************)
\* A month's end resets the monthly sums and takes the events that are stamped
\* already out of the new month; it concerns nobody's lifetime sum.
LEMMA NextMonthStep ==
  ASSUME RInv, NextMonth
  PROVE  RInv'
<1> DEFINE h(r) == [req[r] EXCEPT !.lastMonth = @ \/ req[r].pc = "record"]
<1>1. /\ req' = [r \in Requests |-> h(r)]
      /\ used' = [k \in Keys |-> [used[k] EXCEPT !["monthly"] = 0]]
      /\ cohort' = [k \in Keys |-> [cohort[k] EXCEPT !["monthly"] = 0]]
      /\ metered' = metered /\ UNCHANGED poolVars
  BY DEF NextMonth, At
<1>2. \A r \in Requests : /\ h(r) \in Handlers /\ h(r).pc = req[r].pc
                          /\ h(r).key = req[r].key
                          /\ req[r].lastMonth => h(r).lastMonth
  BY DEF RInv, ReqType, Handlers
<1> HIDE DEF h
<1>3. ReqType' /\ \A r \in Requests : /\ req'[r].pc = req[r].pc /\ req'[r].key = req[r].key
                                      /\ req[r].lastMonth => req'[r].lastMonth
  BY <1>1, <1>2 DEF ReqType
<1>4. PoolType' /\ SlotInv'
  BY <1>1, <1>3 DEF RInv, PoolType, SlotInv, SlotsCoverCalls, poolVars
<1>5. \A k \in Keys : /\ used'[k]["monthly"] = 0
                      /\ used'[k]["lifetime"] = used[k]["lifetime"]
                      /\ cohort'[k]["monthly"] = 0
                      /\ cohort'[k]["lifetime"] = cohort[k]["lifetime"]
  BY <1>1 DEF RInv, UsageType, Periods
<1>6. UsageType'
  BY <1>1 DEF RInv, UsageType, Periods
<1>7. OverInv'
  <2> SUFFICES ASSUME NEW k \in Keys, NEW p \in Periods,
                      metered[k][p], used'[k][p] >= BudgetCap
               PROVE  used'[k][p] + Owed(k, p)' < BudgetCap + MaxTokens * cohort'[k][p]
    BY <1>1 DEF OverInv
  <2>1. p = "lifetime"
    BY <1>5, GatewayAssumption DEF Periods
  <2>2. Chargeable(k, p)' = Chargeable(k, p)
    BY <1>3, <2>1 DEF Chargeable
  <2>3. Owed(k, p)' = Owed(k, p)
    BY <2>2 DEF Owed
  <2> QED BY <1>5, <2>1, <2>3 DEF RInv, OverInv
<1> QED BY <1>3, <1>4, <1>6, <1>7 DEF RInv

\* The end of the process takes every handler and every slot with it.
LEMMA ExitStep ==
  ASSUME RInv, Exit
  PROVE  RInv'
<1>1. /\ req' = [r \in Requests |-> Fresh(req[r].key)] /\ running' = {} /\ parked' = {}
      /\ used' = used /\ cohort' = cohort /\ metered' = metered
  BY DEF Exit, usageVars
<1>2. \A r \in Requests : req[r].key \in Keys
  BY DEF RInv, ReqType, Handlers
<1>3. ReqType' /\ \A r \in Requests : req'[r].pc = "idle"
  BY <1>1, <1>2, FreshType DEF ReqType, Fresh
<1>4. PoolType' /\ SlotInv'
  BY <1>1, <1>3, FS_EmptySet, GatewayAssumption
     DEF PoolType, SlotInv, SlotsCoverCalls
<1>5. \A k \in Keys, p \in Periods : Chargeable(k, p)' \subseteq Chargeable(k, p)
  BY <1>3 DEF Chargeable
<1>6. OverInv'
  BY <1>1, <1>5, ShrinkKeepsOver DEF RInv
<1> QED BY <1>1, <1>3, <1>4, <1>6 DEF RInv, UsageType

\* What changes neither handlers, pool nor sums keeps RInv.
LEMMA StutterKeeps ==
  ASSUME RInv, UNCHANGED <<req, poolVars, usageVars>>
  PROVE  RInv'
  BY DEF RInv, ReqType, PoolType, UsageType, SlotInv, SlotsCoverCalls, OverInv, Owed,
         Chargeable, poolVars, usageVars

\* No step of a request touches the key table.
LEMMA HandlersLeaveStore ==
  ASSUME NEW r \in Requests,
         HandlerStep(r) \/ HangUp(r) \/ Panic(r) \/ \E k \in Keys : Arrive(r, k)
  PROVE  UNCHANGED <<storeVars, phase>>
  BY DEF HandlerStep, Authenticate, CheckBudget, Acquire, Resume, Abandon, ReleaseSlot,
         Record, Relay, CheckLocally, UpstreamReturns, HangUp, Panic, Arrive

\* Every step of a request keeps RInv.
LEMMA HandlersKeep ==
  ASSUME RInv, rows \in [Keys -> Rows], NEW r \in Requests,
         HandlerStep(r) \/ HangUp(r) \/ Panic(r) \/ \E k \in Keys : Arrive(r, k)
  PROVE  RInv'
  BY ArriveStep, HangUpStep, AuthenticateStep, CheckLocallyStep, CheckBudgetStep,
     AcquireStep, ResumeStep, AbandonStep, UpstreamStep, ReleaseSlotStep, PanicStep,
     RelayStep, RecordStep
  DEF HandlerStep

-----------------------------------------------------------------------------
(***************************************************************************)
(* The theorems.                                                           *)
(***************************************************************************)
GInv == phase \in {"serving", "draining", "stopped"} /\ StoreInv /\ RInv

\* A fresh database and no process.
LEMMA GatewayInitHolds ==
  ASSUME GatewayInit
  PROVE  GInv
<1>1. StoreInv
  <2>1. rows \in [Keys -> Rows] /\ \A k \in Keys : rows[k] = NoRow
    BY NoRowType DEF GatewayInit, StoreInit, NoRow
  <2>2. Defaults.budget # 0 /\ Defaults.batch > 0 /\ Defaults.rate > 0
    BY ValidIsSound, KeyStoreAssumption
  <2>3. op \in [Operators -> {Idle} \cup Updating] /\ \A o \in Operators : op[o] = Idle
    BY DEF GatewayInit, StoreInit
  <2> QED BY <2>1, <2>2, <2>3 DEF GatewayInit, StoreInit, StoreInv, StoreTypeOK, OpsSound,
                                  OpsOnRows, UnissuedActive, NoRow
<1>2. ReqType /\ \A r \in Requests : req[r].pc = "idle"
  BY FreshType DEF GatewayInit, ReqType, Fresh
<1>3. running = {} /\ parked = {}
  BY DEF GatewayInit, A!Init
<1>4. PoolType /\ SlotInv
  BY <1>2, <1>3, FS_EmptySet, GatewayAssumption DEF PoolType, SlotInv, SlotsCoverCalls
<1>5. UsageType
  BY DEF GatewayInit, UsageType
<1>6. OverInv
  BY GatewayAssumption DEF GatewayInit, OverInv
<1> QED BY <1>1, <1>2, <1>4, <1>5, <1>6 DEF GatewayInit, GInv, RInv

\* Every step of the gateway, its operators and the calendar keeps the invariant, and
\* no step takes a revocation back.
LEMMA GatewayStepHolds ==
  ASSUME GInv, [GatewayNext]_gvars
  PROVE  GInv' /\ (UNCHANGED storeVars \/ RevokedStays)
<1>0. rows \in [Keys -> Rows]
  BY DEF GInv, StoreInv, StoreTypeOK
<1>1. ASSUME UNCHANGED storeVars
      PROVE  StoreInv'
  BY <1>1 DEF GInv, StoreInv, StoreTypeOK, OpsSound, OpsOnRows, UnissuedActive, storeVars
<1>2. CASE \E r \in Requests : HandlerStep(r) \/ HangUp(r) \/ Panic(r)
                                 \/ \E k \in Keys : Arrive(r, k)
  <2>1. UNCHANGED <<storeVars, phase>>
    BY <1>2, HandlersLeaveStore
  <2>2. RInv'
    BY <1>0, <1>2, HandlersKeep DEF GInv
  <2> QED BY <1>1, <2>1, <2>2 DEF GInv
<1>3. CASE OperatorStep /\ UNCHANGED <<phase, req, poolVars, usageVars>>
  BY <1>3, OperatorStepKeeps, StutterKeeps DEF GInv
<1>4. CASE NextMonth
  BY <1>1, <1>4, NextMonthStep DEF GInv, NextMonth
<1>5. CASE Start \/ Signal
  BY <1>1, <1>5, StutterKeeps DEF GInv, Start, Signal
<1>6. CASE Exit
  BY <1>1, <1>6, ExitStep DEF GInv, Exit
<1>7. CASE UNCHANGED gvars
  BY <1>1, <1>7, StutterKeeps DEF GInv, gvars
<1> QED BY <1>2, <1>3, <1>4, <1>5, <1>6, <1>7 DEF GatewayNext

\* The invariant holds in every state of every execution.
THEOREM GatewayInvariant == GatewaySpec => []GInv
<1>1. GatewayInit => GInv
  BY GatewayInitHolds
<1>2. GInv /\ [GatewayNext]_gvars => GInv'
  BY GatewayStepHolds
<1> QED BY <1>1, <1>2, PTL DEF GatewaySpec

\* The gateway's variables keep their types, and no row of the key table ever carries
\* a limit that refuses everything, whatever commands interleave.
THEOREM GatewayTypeCorrect == GatewaySpec => []GatewayTypeOK
<1>1. GInv => GatewayTypeOK
  BY DEF GInv, RInv, StoreInv, ReqType, PoolType, UsageType, GatewayTypeOK
<1> QED BY <1>1, GatewayInvariant, PTL

\* The key table by itself, which gateway_revocation checks.
THEOREM StoreTypeCorrect == GatewaySpec => []StoreTypeOK
<1>1. GInv => StoreTypeOK
  BY DEF GInv, StoreInv
<1> QED BY <1>1, GatewayInvariant, PTL

\* Budgets: a key's recorded tokens never reach its budget plus one call's tokens for
\* each request past the check when the budget was reached, for any number of
\* requests, keys and operators, across months and restarts.
THEOREM OvershootIsBounded == GatewaySpec => []OvershootBounded
<1>1. ASSUME GInv
      PROVE  OvershootBounded
  <2> SUFFICES ASSUME NEW k \in Keys, NEW p \in Periods,
                      metered[k][p], used[k][p] >= BudgetCap
               PROVE  used[k][p] < BudgetCap + MaxTokens * cohort[k][p]
    BY DEF OvershootBounded
  <2>1. used[k][p] + Owed(k, p) < BudgetCap + MaxTokens * cohort[k][p]
    BY <1>1 DEF GInv, RInv, OverInv
  <2>2. /\ Owed(k, p) \in Nat /\ used[k][p] \in Nat /\ MaxTokens * cohort[k][p] \in Nat
        /\ BudgetCap \in Nat
    BY <1>1, ChargeableCounts, Times, GatewayAssumption DEF GInv, RInv, UsageType
  <2> QED BY <2>1, <2>2
<1> QED BY <1>1, GatewayInvariant, PTL

\* Slots: a call upstream holds one, nobody keeps one past its call on any path, and
\* there are never more than Capacity.
THEOREM SlotsAreCovered == GatewaySpec => []SlotsCoverCalls
<1>1. GInv => SlotsCoverCalls
  BY DEF GInv, RInv, SlotInv
<1> QED BY <1>1, GatewayInvariant, PTL

\* Revocation is final under every interleaving of operators with each other and
\* with the gateway.
THEOREM RevocationStays == GatewaySpec => RevocationIsFinal
<1>1. GInv /\ [GatewayNext]_gvars => [RevokedStays]_storeVars
  BY GatewayStepHolds
<1>2. [RevokedStays]_storeVars
        => [\A k \in Keys : rows[k].revoked => rows'[k].revoked]_storeVars
  BY DEF RevokedStays
<1> QED BY <1>1, <1>2, GatewayInvariant, PTL DEF GatewaySpec, RevocationIsFinal

-----------------------------------------------------------------------------
(***************************************************************************)
(* A revoked key.                                                          *)
(***************************************************************************)

\* Past authentication: a request stays what it is, leaves, or is let in with a key
\* that is issued and not revoked.
LetBy(q) ==
  \/ req'[q].pc \in {"idle", "auth"}
  \/ /\ req'[q].key = req[q].key
     /\ \/ req[q].pc \notin {"idle", "auth"}
        \/ req[q].key \in issued /\ ~rows[req[q].key].revoked

\* One that is left alone.
LEMMA KeptLets ==
  ASSUME NEW q \in Requests, req'[q] = req[q]
  PROVE  LetBy(q)
BY DEF LetBy

\* A handler that goes on, or answers, keeps its key.
LEMMA GotoLets ==
  ASSUME ReqType, NEW r \in Requests, ~At(r, "idle"), ~At(r, "auth"), NEW s \in Stages,
         Goto(r, s), NEW q \in Requests
  PROVE  LetBy(q)
<1>1. req' = [req EXCEPT ![r].pc = s] /\ req[r] \in Handlers /\ req[q] \in Handlers
  BY DEF Goto, ReqType
<1>2. CASE q = r
  <2>1. req'[q].key = req[q].key
    BY <1>1, <1>2 DEF ReqType, Handlers
  <2> QED BY <1>2, <2>1 DEF LetBy, At
<1>3. CASE q # r
  BY <1>1, <1>3, KeptLets
<1> QED BY <1>2, <1>3

LEMMA ReturnLets ==
  ASSUME ReqType, NEW r \in Requests, Return(r), NEW q \in Requests
  PROVE  LetBy(q)
<1>1. CASE q = r
  BY <1>1 DEF Return, Fresh, ReqType, LetBy
<1>2. CASE q # r
  BY <1>2, KeptLets DEF Return
<1> QED BY <1>1, <1>2

\* Every step of a request.
LEMMA HandlersLet ==
  ASSUME ReqType, NEW r \in Requests,
         HandlerStep(r) \/ HangUp(r) \/ Panic(r) \/ \E k \in Keys : Arrive(r, k),
         NEW q \in Requests
  PROVE  LetBy(q)
<1>0. req[r] \in Handlers /\ req[q] \in Handlers
  BY DEF ReqType
<1>1. CASE Authenticate(r)
  <2>1. CASE Return(r)
    BY <2>1, ReturnLets
  <2>2. CASE ~Return(r)
    <3>1. /\ req' = [req EXCEPT ![r].pc = "decode", ![r].row = rows[req[r].key]]
          /\ req[r].key \in issued /\ ~rows[req[r].key].revoked
      BY <1>1, <2>2 DEF Authenticate
    <3>2. req'[q] = req[q] \/ (q = r /\ req'[q].key = req[q].key)
      BY <1>0, <3>1 DEF ReqType, Handlers
    <3> QED BY <3>1, <3>2, KeptLets DEF LetBy
  <2> QED BY <2>1, <2>2
<1>2. CASE CheckBudget(r)
  <2>1. CASE Return(r)
    BY <2>1, ReturnLets
  <2>2. CASE ~Return(r)
    <3>1. req' = [req EXCEPT ![r].pc = "admit", ![r].row = NoRow] /\ At(r, "budget")
      BY <1>2, <2>2 DEF CheckBudget
    <3>2. req'[q] = req[q] \/ (q = r /\ req'[q].key = req[q].key)
      BY <1>0, <3>1 DEF ReqType, Handlers
    <3> QED BY <3>1, <3>2, KeptLets DEF LetBy, At
  <2> QED BY <2>1, <2>2
<1>3. CASE \E n \in InputCounts : CheckLocally(r, n)
  <2>1. At(r, "decode") /\ (Return(r) \/ Goto(r, "budget")) /\ "budget" \in Stages
    BY <1>3 DEF CheckLocally, Stages
  <2> QED BY <2>1, ReturnLets, GotoLets DEF At
<1>4. CASE Acquire(r) \/ Resume(r)
  <2>1. (At(r, "admit") \/ At(r, "parked")) /\ (Goto(r, "forward") \/ Goto(r, "parked"))
        /\ "forward" \in Stages /\ "parked" \in Stages
    BY <1>4 DEF Acquire, Resume, Stages
  <2> QED BY <2>1, GotoLets DEF At
<1>5. CASE Abandon(r) \/ Panic(r) \/ Relay(r)
  <2>1. Return(r)
    BY <1>5 DEF Abandon, Panic, Relay
  <2> QED BY <2>1, ReturnLets
<1>6. CASE ReleaseSlot(r)
  <2>1. At(r, "returned") /\ (Return(r) \/ Goto(r, "relay") \/ Goto(r, "record"))
        /\ "relay" \in Stages /\ "record" \in Stages
    BY <1>6 DEF ReleaseSlot, Stages
  <2> QED BY <2>1, ReturnLets, GotoLets DEF At
<1>7. CASE Record(r)
  <2>1. At(r, "record") /\ Goto(r, "relay") /\ "relay" \in Stages
    BY <1>7 DEF Record, Stages
  <2> QED BY <2>1, GotoLets DEF At
<1>8. CASE \E outcome \in {"ok", "refused", "error"}, t \in 0..MaxTokens :
             UpstreamReturns(r, outcome, t)
  <2>1. PICK outcome \in {"ok", "refused", "error"}, t \in 0..MaxTokens :
          UpstreamReturns(r, outcome, t)
    BY <1>8
  <2>2. /\ At(r, "forward")
        /\ req' = [req EXCEPT ![r].pc = "returned", ![r].reply = outcome, ![r].tokens = t]
    BY <2>1 DEF UpstreamReturns
  <2>3. req'[q] = req[q] \/ (q = r /\ req'[q].key = req[q].key)
    BY <1>0, <2>2 DEF ReqType, Handlers
  <2> QED BY <2>2, <2>3, KeptLets DEF LetBy, At
<1>9. CASE HangUp(r)
  <2>1. req'[q].key = req[q].key /\ req'[q].pc = req[q].pc
    BY <1>0, <1>9 DEF HangUp, ReqType, Handlers
  <2> QED BY <2>1 DEF LetBy
<1>10. CASE \E k \in Keys : Arrive(r, k)
  <2>1. PICK k \in Keys : req' = [req EXCEPT ![r] = [Fresh(k) EXCEPT !.pc = "auth"]]
    BY <1>10 DEF Arrive
  <2>2. [Fresh(k) EXCEPT !.pc = "auth"].pc = "auth"
    BY DEF Fresh
  <2>3. req'[q] = req[q] \/ req'[q].pc = "auth"
    BY <2>1, <2>2 DEF ReqType
  <2> QED BY <2>3, KeptLets DEF LetBy
<1> QED BY <1>1, <1>2, <1>3, <1>4, <1>5, <1>6, <1>7, <1>8, <1>9, <1>10 DEF HandlerStep

\* Nobody gets past authentication with a revoked key.
LEMMA RevokedLetsNobodyIn ==
  ASSUME ReqType, [GatewayNext]_gvars, NEW k \in Keys, rows[k].revoked
  PROVE  LetIn(k)' \subseteq LetIn(k)
<1>1. ASSUME NEW q \in Requests PROVE LetBy(q)
  <2>1. CASE \E r \in Requests : HandlerStep(r) \/ HangUp(r) \/ Panic(r)
                                   \/ \E j \in Keys : Arrive(r, j)
    BY <2>1, HandlersLet
  <2>2. CASE UNCHANGED req
    BY <2>2, KeptLets
  <2>3. CASE NextMonth
    <3>1. req'[q].key = req[q].key /\ req'[q].pc = req[q].pc
      BY <2>3 DEF NextMonth, ReqType, Handlers
    <3> QED BY <3>1 DEF LetBy
  <2>4. CASE Exit
    BY <2>4 DEF Exit, Fresh, LetBy
  <2>5. UNCHANGED req \/ NextMonth \/ Exit
        \/ \E r \in Requests : HandlerStep(r) \/ HangUp(r) \/ Panic(r)
                                 \/ \E j \in Keys : Arrive(r, j)
    BY DEF GatewayNext, Start, Signal, gvars
  <2> QED BY <2>1, <2>2, <2>3, <2>4, <2>5
<1> QED BY <1>1 DEF LetBy, LetIn

\* From its revocation on, only the requests of a key that were past BearerAuth by
\* then are past it, for any number of requests and operators and over restarts.
THEOREM RevokedAreShutOut == GatewaySpec => RevokedShutOut
<1> SUFFICES ASSUME NEW k \in Keys, NEW S \in SUBSET Requests
             PROVE  GatewaySpec =>
                      [](rows[k].revoked /\ LetIn(k) \subseteq S => [](LetIn(k) \subseteq S))
  BY DEF RevokedShutOut
<1> DEFINE P == rows[k].revoked /\ LetIn(k) \subseteq S
<1>1. GInv /\ [GatewayNext]_gvars /\ P => P'
  <2> SUFFICES ASSUME GInv, [GatewayNext]_gvars, P PROVE P'
    OBVIOUS
  <2>1. rows'[k].revoked
    BY GatewayStepHolds DEF RevokedStays, storeVars
  <2>2. LetIn(k)' \subseteq LetIn(k)
    BY RevokedLetsNobodyIn DEF GInv, RInv
  <2> QED BY <2>1, <2>2
<1>2. P => LetIn(k) \subseteq S
  OBVIOUS
<1>3. P <=> rows[k].revoked /\ LetIn(k) \subseteq S
  OBVIOUS
<1> HIDE DEF P
<1> QED BY <1>1, <1>2, <1>3, GatewayInvariant, PTL DEF GatewaySpec

-----------------------------------------------------------------------------
(***************************************************************************)
(* The contract of Access.                                                 *)
(***************************************************************************)

\* A request's step moves no other request.
LEMMA HandlersMoveOne ==
  ASSUME NEW r \in Requests,
         HandlerStep(r) \/ HangUp(r) \/ Panic(r) \/ \E k \in Keys : Arrive(r, k),
         ReqType, NEW q \in Requests \ {r}
  PROVE  req'[q] = req[q]
<1>1. \E h : req' = [req EXCEPT ![r] = h]
  <2>1. CASE Authenticate(r)
    BY <2>1 DEF Authenticate, Return
  <2>2. CASE CheckBudget(r)
    BY <2>2 DEF CheckBudget, Return
  <2>3. CASE Acquire(r) \/ Resume(r) \/ Abandon(r) \/ Panic(r) \/ Relay(r) \/ Record(r)
    BY <2>3 DEF Acquire, Resume, Abandon, Panic, Relay, Record, Goto, Return
  <2>4. CASE ReleaseSlot(r)
    BY <2>4 DEF ReleaseSlot, Goto, Return
  <2>5. CASE \E n \in InputCounts : CheckLocally(r, n)
    BY <2>5 DEF CheckLocally, Goto, Return
  <2>6. CASE \E outcome \in {"ok", "refused", "error"}, t \in 0..MaxTokens :
               UpstreamReturns(r, outcome, t)
    BY <2>6 DEF UpstreamReturns
  <2>7. CASE HangUp(r) \/ \E k \in Keys : Arrive(r, k)
    BY <2>7 DEF HangUp, Arrive
  <2> QED BY <2>1, <2>2, <2>3, <2>4, <2>5, <2>6, <2>7 DEF HandlerStep
<1> QED BY <1>1 DEF ReqType

\* What the key table shows of every key stays as it is.
LEMMA SameStatus ==
  ASSUME UNCHANGED issued, \A k \in Keys : rows'[k].revoked = rows[k].revoked
  PROVE  \A k \in Keys : StatusOf(k)' = StatusOf(k)
BY DEF StatusOf

\* A command issues one key, revokes one key, or leaves every status alone.
LEMMA OperatorsIssueAndRevoke ==
  ASSUME StoreInv, OperatorStep, \A k \in Keys : LetIn(k)' = LetIn(k)
  PROVE  K!Next \/ UNCHANGED K!avars
<1>1. rows \in [Keys -> Rows] /\ op \in [Operators -> {Idle} \cup Updating]
  BY DEF StoreInv, StoreTypeOK
<1>2. UNCHANGED [k \in Keys |-> LetIn(k)]
  OBVIOUS
<1>3. ASSUME \A k \in Keys : StatusOf(k)' = StatusOf(k)
      PROVE  UNCHANGED K!avars
  BY <1>2, <1>3 DEF K!avars
<1>4. PICK o \in Operators :
        \/ FinishUpdate(o)
        \/ \E k \in Keys : \/ Revoke(o, k)
                           \/ \E flags \in FlagSets : Create(o, k, flags) \/ BeginUpdate(o, k, flags)
  BY DEF OperatorStep
<1>5. CASE FinishUpdate(o)
  <2>1. /\ UNCHANGED issued
        /\ rows' = [rows EXCEPT ![op[o].key] = UpdatedLimits(op[o])]
    BY <1>5 DEF FinishUpdate
  <2>2. UpdatedLimits(op[o]).revoked = rows[op[o].key].revoked
    BY DEF UpdatedLimits
  <2>3. \A k \in Keys : rows'[k].revoked = rows[k].revoked
    BY <1>1, <2>1, <2>2
  <2> QED BY <1>3, <2>1, <2>3, SameStatus
<1>6. ASSUME NEW k \in Keys, Revoke(o, k)
      PROVE  K!Next \/ UNCHANGED K!avars
  <2>1. /\ UNCHANGED issued
        /\ rows' = IF k \in issued THEN [rows EXCEPT ![k].revoked = TRUE] ELSE rows
    BY <1>6 DEF Revoke
  <2>2. CASE k \notin issued \/ rows[k].revoked
    <3>1. \A j \in Keys : rows'[j].revoked = rows[j].revoked
      BY <1>1, <2>1, <2>2 DEF Rows
    <3> QED BY <1>3, <2>1, <3>1, SameStatus
  <2>3. CASE k \in issued /\ ~rows[k].revoked
    <3>1. /\ rows'[k].revoked
          /\ \A j \in Keys \ {k} : rows'[j] = rows[j]
      BY <1>1, <2>1, <2>3 DEF Rows
    <3>2. /\ StatusOf(k) = "active" /\ StatusOf(k)' = "revoked"
          /\ \A j \in Keys \ {k} : StatusOf(j)' = StatusOf(j)
      BY <2>1, <2>3, <3>1 DEF StatusOf
    <3>3. K!Revoke(k)
      BY <1>2, <3>2 DEF K!Revoke
    <3> QED BY <3>3 DEF K!Next
  <2> QED BY <2>2, <2>3
<1>7. ASSUME NEW k \in Keys, NEW flags \in FlagSets, Create(o, k, flags)
      PROVE  K!Next \/ UNCHANGED K!avars
  <2>1. /\ k \notin issued /\ issued' = issued \cup {k}
        /\ rows' = [rows EXCEPT ![k] = [limits |-> ApplyFlags(flags, Defaults),
                                        revoked |-> FALSE]]
    BY <1>7 DEF Create
  <2>2. ~rows'[k].revoked /\ \A j \in Keys \ {k} : rows'[j] = rows[j]
    BY <1>1, <2>1
  <2>3. /\ StatusOf(k) = "absent" /\ StatusOf(k)' = "active"
        /\ \A j \in Keys \ {k} : StatusOf(j)' = StatusOf(j)
    BY <2>1, <2>2 DEF StatusOf
  <2>4. K!Issue(k)
    BY <1>2, <2>3 DEF K!Issue
  <2> QED BY <2>4 DEF K!Next
<1>8. ASSUME NEW k \in Keys, NEW flags \in FlagSets, BeginUpdate(o, k, flags)
      PROVE  UNCHANGED K!avars
  <2>1. UNCHANGED <<issued, rows>>
    BY <1>8 DEF BeginUpdate
  <2> QED BY <1>3, <2>1, SameStatus
<1> QED BY <1>4, <1>5, <1>6, <1>7, <1>8

\* A request's step lets it in by the row of an active key, takes it out, or leaves
\* everybody where they are.
LEMMA HandlersAdmitAndLeave ==
  ASSUME ReqType, UNCHANGED storeVars, NEW r \in Requests,
         \A q \in Requests \ {r} : req'[q] = req[q], LetBy(r)
  PROVE  K!Next \/ UNCHANGED K!avars
<1>1. \A k \in Keys : StatusOf(k)' = StatusOf(k)
  BY SameStatus DEF storeVars
<1>2. UNCHANGED [k \in Keys |-> StatusOf(k)]
  BY <1>1
<1>3. req[r].key \in Keys
  BY DEF ReqType, Handlers
<1>4. CASE req'[r].pc \in {"idle", "auth"}
  <2>1. \A k \in Keys : LetIn(k)' = LetIn(k) \ {r}
    BY <1>4 DEF LetIn
  <2>2. K!Leave({r})
    BY <1>2, <2>1 DEF K!Leave
  <2> QED BY <2>2 DEF K!Next
<1>5. CASE req'[r].pc \notin {"idle", "auth"} /\ req[r].pc \notin {"idle", "auth"}
  <2>1. req'[r].key = req[r].key
    BY <1>5 DEF LetBy
  <2>2. \A k \in Keys : LetIn(k)' = LetIn(k)
    BY <1>5, <2>1 DEF LetIn
  <2> QED BY <1>2, <2>2 DEF K!avars
<1>6. CASE req'[r].pc \notin {"idle", "auth"} /\ req[r].pc \in {"idle", "auth"}
  <2> PICK k0 \in Keys : k0 = req[r].key
    BY <1>3
  <2>1. req'[r].key = k0 /\ k0 \in issued /\ ~rows[k0].revoked
    BY <1>6 DEF LetBy
  <2>2. StatusOf(k0) = "active"
    BY <2>1 DEF StatusOf
  <2>3. \A k \in Keys : r \notin LetIn(k)
    BY <1>6 DEF LetIn
  <2>4. /\ LetIn(k0)' = LetIn(k0) \cup {r}
        /\ \A k \in Keys \ {k0} : LetIn(k)' = LetIn(k)
    BY <1>6, <2>1 DEF LetIn
  <2>5. K!Admit(k0, r)
    BY <1>2, <2>2, <2>3, <2>4 DEF K!Admit
  <2> QED BY <1>3, <2>5 DEF K!Next
<1> QED BY <1>4, <1>5, <1>6

\* Every step of the gateway is a step of the contract or a stutter.
LEMMA AccessStep ==
  ASSUME GInv, [GatewayNext]_gvars
  PROVE  [K!Next]_(K!avars)
<1>1. ReqType /\ StoreInv
  BY DEF GInv, RInv
<1>2. CASE \E r \in Requests : HandlerStep(r) \/ HangUp(r) \/ Panic(r)
                                 \/ \E k \in Keys : Arrive(r, k)
  <2>1. PICK r \in Requests : HandlerStep(r) \/ HangUp(r) \/ Panic(r)
                                \/ \E k \in Keys : Arrive(r, k)
    BY <1>2
  <2>2. UNCHANGED storeVars
    BY <2>1, HandlersLeaveStore
  <2>3. LetBy(r) /\ \A q \in Requests \ {r} : req'[q] = req[q]
    BY <1>1, <2>1, HandlersLet, HandlersMoveOne
  <2> QED BY <1>1, <2>2, <2>3, HandlersAdmitAndLeave
<1>3. CASE OperatorStep /\ UNCHANGED <<phase, req, poolVars, usageVars>>
  <2>1. \A k \in Keys : LetIn(k)' = LetIn(k)
    BY <1>3 DEF LetIn
  <2> QED BY <1>1, <1>3, <2>1, OperatorsIssueAndRevoke
<1>4. ASSUME UNCHANGED storeVars, \A k \in Keys : LetIn(k)' = LetIn(k)
      PROVE  UNCHANGED K!avars
  <2>1. \A k \in Keys : StatusOf(k)' = StatusOf(k)
    BY <1>4, SameStatus DEF storeVars
  <2> QED BY <1>4, <2>1 DEF K!avars
<1>5. CASE NextMonth
  <2>1. \A q \in Requests : req'[q].key = req[q].key /\ req'[q].pc = req[q].pc
    BY <1>1, <1>5 DEF NextMonth, ReqType, Handlers
  <2>2. \A k \in Keys : LetIn(k)' = LetIn(k)
    BY <2>1 DEF LetIn
  <2> QED BY <1>4, <1>5, <2>2 DEF NextMonth
<1>6. CASE Start \/ Signal \/ UNCHANGED gvars
  <2>1. UNCHANGED <<storeVars, req>>
    BY <1>6 DEF Start, Signal, gvars
  <2>2. \A k \in Keys : LetIn(k)' = LetIn(k)
    BY <2>1 DEF LetIn
  <2> QED BY <1>4, <2>1, <2>2
<1>7. CASE Exit
  <2>1. \A q \in Requests : req'[q].pc = "idle"
    BY <1>7 DEF Exit, Fresh
  <2>2. \A k \in Keys : LetIn(k)' = {} /\ LetIn(k) \ Requests = {}
    BY <2>1 DEF LetIn
  <2>3. \A k \in Keys : StatusOf(k)' = StatusOf(k)
    BY <1>7, SameStatus DEF Exit, storeVars
  <2>4. K!Leave(Requests)
    BY <2>2, <2>3 DEF K!Leave
  <2> QED BY <2>4 DEF K!Next
<1> QED BY <1>2, <1>3, <1>5, <1>6, <1>7 DEF GatewayNext

\* For any number of keys, operators and requests: the gateway over its key table
\* is an implementation of Access, so a key's life and who gets in by it do not
\* depend on how commands, handlers, shutdowns and restarts interleave.
THEOREM GatewayImplementsAccess == GatewaySpec => ImplementsAccess
<1>1. GatewayInit => K!Init
  <2> SUFFICES ASSUME GatewayInit PROVE K!Init
    OBVIOUS
  <2>1. \A k \in Keys : ~rows[k].revoked
    BY DEF GatewayInit, StoreInit
  <2>2. \A k \in Keys : StatusOf(k) \in {"absent", "active"}
    BY <2>1 DEF StatusOf
  <2>3. \A q \in Requests : req[q].pc = "idle"
    BY DEF GatewayInit, Fresh
  <2>4. \A k \in Keys : LetIn(k) = {}
    BY <2>3 DEF LetIn
  <2> QED BY <2>2, <2>4 DEF K!Init
<1>2. GInv /\ [GatewayNext]_gvars => [K!Next]_(K!avars)
  BY AccessStep
<1> QED BY <1>1, <1>2, GatewayInvariant, PTL DEF GatewaySpec, ImplementsAccess, K!Spec
=============================================================================
