---------------------------- MODULE StreamProofs ----------------------------
(***************************************************************************)
(* Theorems about DashboardStream, for any number of requests, ranks, slots*)
(* and streams: no repaint is lost, the throttle expires, and every strip  *)
(* that is painted tells the truth about one moment of the gate.           *)
(***************************************************************************)
EXTENDS DashboardStream, QueueProofs, Aggregates

-----------------------------------------------------------------------------
(***************************************************************************)
(* The gate below the stream.                                              *)
(***************************************************************************)

\* Every step of a stream or of the gate is a step of the gate or leaves it alone.
LEMMA StreamStepsAreGateSteps ==
  ASSUME [StreamNext]_allVars
  PROVE  [Next]_vars
<1>1. CASE GateStep
  BY <1>1 DEF GateStep, Next
<1>2. CASE \E v \in Watchers : StreamStep(v)
  <2>1. PICK v \in Watchers : StreamStep(v)
    BY <1>2
  <2>2. CASE Connect(v)
    BY <2>2 DEF Connect, Next, WatcherStep
  <2>3. CASE OnChange(v)
    BY <2>3 DEF OnChange, Next, WatcherStep
  <2>4. CASE Disconnect(v)
    BY <2>4 DEF Disconnect, Next, WatcherStep
  <2>5. CASE PaintQueue(v) \/ CooldownFires(v) \/ OnCooldown(v) \/ OnHeartbeat(v)
    BY <2>5 DEF PaintQueue, CooldownFires, OnCooldown, OnHeartbeat
  <2> QED BY <2>1, <2>2, <2>3, <2>4, <2>5 DEF StreamStep
<1>3. CASE UNCHANGED allVars
  BY <1>3 DEF allVars
<1> QED BY <1>1, <1>2, <1>3 DEF StreamNext

\* Watch, unwatch and every repaint are calls the gate allows: however many dashboards
\* are open, what has been proved of the gate by itself holds of it under them.
THEOREM StreamsLeaveTheGate == StreamSpec => Spec
<1>1. StreamInit => Init
  BY DEF StreamInit
<1>2. [StreamNext]_allVars => [Next]_vars
  BY StreamStepsAreGateSteps
<1> QED BY <1>1, <1>2, PTL DEF StreamSpec, Spec

\* In particular it keeps its invariant,
LEMMA GateInvariance == StreamSpec => []IInv
  BY StreamsLeaveTheGate, Invariance, PTL

\* and the admission contract of Pool: a dashboard neither takes a slot nor keeps one
\* from being handed over.
THEOREM WatchedGateImplementsPool == StreamSpec => ImplementsPool
  BY StreamsLeaveTheGate, GateImplementsPool, PTL

\* A step of the gate that moves what the strip shows signals every watcher.
LEMMA GateSignals ==
  ASSUME (\E r \in Requests : RequestStep(r)) \/ Tick
  PROVE  /\ watchers' = watchers
         /\ \/ signalled' = signalled \cup watchers
            \/ signalled' = signalled /\ UNCHANGED <<free, classes>>
<1>1. CASE \E r \in Requests : RequestStep(r)
  <2>1. PICK r \in Requests : RequestStep(r)
    BY <1>1
  <2>2. CASE AcquireFast(r) \/ (\E p \in Priorities : AcquireSlow(r, p)) \/ CancelWaiting(r)
    BY <2>2 DEF AcquireFast, AcquireSlow, CancelWaiting, NotifyLocked
  <2>3. CASE TakeGrant(r)
    BY <2>3 DEF TakeGrant, gateVars, watchVars
  <2>4. CASE CancelGranted(r)
    BY <2>4 DEF CancelGranted, ReleaseLocked, NotifyLocked
  <2>5. CASE Release(r)
    BY <2>5 DEF Release, CallRelease, ReleaseLocked, NotifyLocked, gateVars
  <2>6. CASE DeferredRelease(r)
    BY <2>6 DEF DeferredRelease, CallRelease, ReleaseLocked, NotifyLocked, gateVars
  <2> QED BY <2>1, <2>2, <2>3, <2>4, <2>5, <2>6 DEF RequestStep, Acquire, Cancel
<1>2. CASE Tick
  BY <1>2 DEF Tick, gateVars, watchVars
<1> QED BY <1>1, <1>2

-----------------------------------------------------------------------------
(***************************************************************************)
(* The stream.                                                             *)
(***************************************************************************)

\* A connected stream is registered, has a timer exactly while it is throttled, and
\* has a repaint coming whenever it is out of date.
StreamInv == StreamTypeOK /\ ThrottleExpires /\ NoLostRepaint

LEMMA StreamInit_Inv == StreamInit => StreamInv
  BY DEF StreamInit, Init, StreamInv, StreamTypeOK, StreamStages, ThrottleExpires, NoLostRepaint

LEMMA StreamInv_Step ==
  ASSUME IInv, StreamInv, [StreamNext]_allVars
  PROVE  StreamInv'
<1> USE DEF StreamInv, StreamStages
<1>0. signalled \subseteq watchers
  BY DEF IInv, TypeOK
<1>1. CASE GateStep
  <2>1. /\ watchers' = watchers
        /\ \/ signalled' = signalled \cup watchers
           \/ signalled' = signalled /\ UNCHANGED <<free, classes>>
    BY <1>1, GateSignals DEF GateStep
  <2>2. /\ UNCHANGED streamVars /\ stalePressure' \in {stalePressure, watchers}
        /\ staleCounters' \in {staleCounters, watchers}
        /\ Pressure' = Pressure => stalePressure' = stalePressure
    BY <1>1 DEF GateStep
  <2>3. StreamTypeOK' /\ ThrottleExpires'
    BY <2>1, <2>2 DEF StreamTypeOK, ThrottleExpires, streamVars
  <2>4. CASE signalled' = signalled \cup watchers
    <3>1. stalePressure' \subseteq signalled'
      BY <2>2, <2>4 DEF StreamTypeOK
    <3> QED BY <2>3, <3>1 DEF NoLostRepaint
  <2>5. CASE signalled' = signalled /\ UNCHANGED <<free, classes>>
    <3>1. stalePressure' = stalePressure
      BY <2>2, <2>5 DEF Pressure
    <3>2. stream' = stream /\ missed' = missed /\ throttled' = throttled
      BY <2>2 DEF streamVars
    <3> QED BY <2>3, <2>5, <3>1, <3>2 DEF NoLostRepaint
  <2> QED BY <2>1, <2>3, <2>4, <2>5
<1>2. CASE \E v \in Watchers : StreamStep(v)
  <2>1. PICK v \in Watchers : StreamStep(v)
    BY <1>2
  <2>2. CASE Connect(v)
    <3>1. StreamTypeOK' /\ ThrottleExpires'
      BY <2>2 DEF Connect, Watch, StreamTypeOK, ThrottleExpires
    <3>2. NoLostRepaint'
      BY <2>2 DEF Connect, Watch, StreamTypeOK, NoLostRepaint
    <3> QED BY <3>1, <3>2
  <2>3. CASE PaintQueue(v)
    <3>1. StreamTypeOK' /\ ThrottleExpires'
      BY <2>3 DEF PaintQueue, Repainted, StreamTypeOK, ThrottleExpires, vars, watchVars
    <3>2. NoLostRepaint'
      BY <2>3 DEF PaintQueue, Repainted, StreamTypeOK, NoLostRepaint, vars, watchVars
    <3> QED BY <3>1, <3>2
  <2>4. CASE OnChange(v)
    <3>1. StreamTypeOK' /\ ThrottleExpires'
      BY <2>4 DEF OnChange, Receive, staleVars, StreamTypeOK, ThrottleExpires
    <3>2. NoLostRepaint'
      BY <2>4 DEF OnChange, Receive, staleVars, StreamTypeOK, NoLostRepaint
    <3> QED BY <3>1, <3>2
  <2>5. CASE CooldownFires(v)
    <3>1. StreamTypeOK' /\ ThrottleExpires'
      BY <2>5 DEF CooldownFires, staleVars, StreamTypeOK, ThrottleExpires, vars, watchVars
    <3>2. NoLostRepaint'
      BY <2>5 DEF CooldownFires, staleVars, NoLostRepaint, vars, watchVars
    <3> QED BY <3>1, <3>2
  <2>6. CASE OnCooldown(v)
    <3>1. StreamTypeOK' /\ ThrottleExpires'
      BY <2>6 DEF OnCooldown, staleVars, StreamTypeOK, ThrottleExpires, vars, watchVars
    <3>2. NoLostRepaint'
      BY <2>6 DEF OnCooldown, staleVars, StreamTypeOK, NoLostRepaint, vars, watchVars
    <3> QED BY <3>1, <3>2
  <2>7. CASE OnHeartbeat(v)
    <3>1. StreamTypeOK' /\ ThrottleExpires'
      BY <2>7 DEF OnHeartbeat, Repainted, streamVars, StreamTypeOK, ThrottleExpires, vars,
                  watchVars
    <3>2. NoLostRepaint'
      BY <2>7 DEF OnHeartbeat, Repainted, streamVars, NoLostRepaint, vars, watchVars
    <3> QED BY <3>1, <3>2
  <2>8. CASE Disconnect(v)
    <3>1. StreamTypeOK' /\ ThrottleExpires'
      BY <2>8 DEF Disconnect, Unwatch, Repainted, StreamTypeOK, ThrottleExpires
    <3>2. NoLostRepaint'
      BY <2>8 DEF Disconnect, Unwatch, Repainted, StreamTypeOK, NoLostRepaint
    <3> QED BY <3>1, <3>2
  <2> QED BY <2>1, <2>2, <2>3, <2>4, <2>5, <2>6, <2>7, <2>8 DEF StreamStep
<1>3. CASE UNCHANGED allVars
  BY <1>3 DEF allVars, vars, watchVars, streamVars, staleVars, StreamTypeOK, ThrottleExpires,
              NoLostRepaint
<1> QED BY <1>1, <1>2, <1>3 DEF StreamNext

LEMMA StreamInvariance == StreamSpec => []StreamInv
<1>1. StreamInit => StreamInv
  BY StreamInit_Inv
<1>2. IInv /\ StreamInv /\ [StreamNext]_allVars => StreamInv'
  BY StreamInv_Step
<1> QED BY <1>1, <1>2, GateInvariance, PTL DEF StreamSpec

\* A connected stream is registered with the gate, and only connected ones are.
THEOREM StreamTypeCorrect == StreamSpec => []StreamTypeOK
<1>1. StreamInv => StreamTypeOK
  BY DEF StreamInv
<1> QED BY <1>1, StreamInvariance, PTL

\* Whenever a painted strip is out of date, a wake-up that will repaint it is pending,
\* for any number of streams, requests and slots.
THEOREM NoRepaintIsLost == StreamSpec => []NoLostRepaint
<1>1. StreamInv => NoLostRepaint
  BY DEF StreamInv
<1> QED BY <1>1, StreamInvariance, PTL

\* The flag that holds change-driven repaints back never outlives its timer.
THEOREM TheThrottleExpires == StreamSpec => []ThrottleExpires
<1>1. StreamInv => ThrottleExpires
  BY DEF StreamInv
<1> QED BY <1>1, StreamInvariance, PTL

-----------------------------------------------------------------------------
(***************************************************************************)
(* The strip.                                                              *)
(***************************************************************************)

\* The wait that is read off the heads: a head's, or none, and no head waits longer.
LEMMA OldestIsGreatest ==
  ASSUME IInv
  PROVE  /\ Strip.oldest \in 0..MaxAge
         /\ Strip.oldest = 0 \/ \E p \in InPlay : Strip.oldest = HeadAge(p)
         /\ \A p \in InPlay : HeadAge(p) <= Strip.oldest
<1> DEFINE S == {0} \cup {HeadAge(p) : p \in InPlay}
<1>1. MaxAge \in Nat
  BY QueueAssumption
<1>2. ASSUME NEW p \in InPlay PROVE HeadAge(p) \in 0..MaxAge
  <2>1. classes[p] \in Seq(Requests) /\ classes[p] # << >> /\ age \in [Requests -> 0..MaxAge]
    BY DEF InPlay, IInv, TypeOK
  <2>2. Head(classes[p]) \in Requests
    BY <2>1
  <2> QED BY <2>1, <2>2 DEF HeadAge
<1>3. S \in SUBSET (0..MaxAge) /\ S # {}
  BY <1>1, <1>2
<1>4. Max(S) \in S /\ \A y \in S : y <= Max(S)
  <2> HIDE DEF S
  <2> QED BY <1>1, <1>3, MaxIsGreatest
<1>5. Strip.oldest = Max(S)
  BY DEF Strip
<1> QED BY <1>3, <1>4, <1>5

\* The heads of the classes, the count and the slot counter of the gate are enough to
\* tell how many wait, how long, and whether anybody runs.
LEMMA TheStripIsTrue == IInv => StripTellsTheTruth
<1> SUFFICES ASSUME IInv PROVE StripTellsTheTruth
  OBVIOUS
<1>1. /\ TypeOK /\ SlotConservation /\ NoBarging /\ WaitersLinked /\ ClassesAreFIFO
      /\ Capacity \in Nat /\ PromoteAfter \in Nat \ {0} /\ MaxAge \in Nat
      /\ IsFiniteSet(Requests)
  BY QueueAssumption DEF IInv
<1>2. /\ Strip.inFlight = Capacity - free /\ Strip.queued = waiting
      /\ Strip.saturated <=> Capacity - free >= Capacity
      /\ Strip.idle <=> Capacity - free = 0 /\ waiting = 0
      /\ Strip.aged <=> Strip.oldest >= PromoteAfter
  BY DEF Strip
<1>3. waiting = Cardinality(Waiting) /\ IsFiniteSet(Waiting) /\ IsFiniteSet(Busy)
  BY <1>1, FS_Subset DEF WaitersLinked, Waiting, Busy
<1>4. Strip.inFlight \in 0..Capacity
  BY <1>1, <1>2 DEF TypeOK
<1>5. Strip.queued > 0 => Strip.saturated
  <2>1. CASE free > 0
    <3>1. Waiting = {} /\ waiting = 0
      BY <1>1, <1>3, <2>1, FS_EmptySet DEF NoBarging
    <3> QED BY <1>2, <3>1
  <2>2. CASE ~(free > 0)
    BY <1>1, <1>2, <2>2 DEF TypeOK
  <2> QED BY <2>1, <2>2
<1>6. Strip.idle => \A r \in Requests : stage[r] \in {"idle", "released"}
  <2> SUFFICES ASSUME Strip.idle PROVE \A r \in Requests : stage[r] \in {"idle", "released"}
    OBVIOUS
  <2>1. Cardinality(Busy) \in Nat /\ Cardinality(Busy) = 0 /\ Cardinality(Waiting) = 0
    BY <1>1, <1>2, <1>3, FS_CardinalityType DEF SlotConservation, TypeOK
  <2>2. Busy = {} /\ Waiting = {}
    BY <1>3, <2>1, FS_EmptySet
  <2> QED BY <1>1, <2>2 DEF Busy, Waiting, TypeOK, Stages
<1>7. ASSUME NEW r \in Waiting
      PROVE  \E p \in InPlay : age[r] <= HeadAge(p)
  <2>1. PICK p \in Priorities : \E i \in DOMAIN classes[p] : classes[p][i] = r
    BY <1>1 DEF WaitersLinked
  <2>2. PICK i \in DOMAIN classes[p] : classes[p][i] = r
    BY <2>1
  <2>3. classes[p] \in Seq(Requests) /\ i \in 1..Len(classes[p]) /\ Len(classes[p]) \in Nat
    BY <1>1, <2>2 DEF TypeOK
  <2>4. classes[p] # << >> /\ Head(classes[p]) = classes[p][1] /\ 1 \in DOMAIN classes[p]
        /\ classes[p][1] \in Requests
    BY <2>3
  <2>5. age[r] <= age[classes[p][1]]
    <3>1. CASE i = 1
      BY <1>1, <2>2, <2>4, <3>1 DEF TypeOK
    <3>2. CASE i > 1
      BY <1>1, <2>2, <2>3, <2>4, <3>2 DEF ClassesAreFIFO, TypeOK
    <3> QED BY <2>3, <3>1, <3>2
  <2> QED BY <2>4, <2>5 DEF InPlay, HeadAge
<1>8. ASSUME NEW r \in Waiting PROVE age[r] <= Strip.oldest
  <2>1. PICK p \in InPlay : age[r] <= HeadAge(p)
    BY <1>7
  <2>2. HeadAge(p) <= Strip.oldest /\ Strip.oldest \in 0..MaxAge
    BY OldestIsGreatest
  <2>3. age[r] \in 0..MaxAge /\ HeadAge(p) \in Int
    <3>1. classes[p] \in Seq(Requests) /\ classes[p] # << >>
      BY <1>1 DEF TypeOK, InPlay
    <3>2. Head(classes[p]) \in Requests
      BY <3>1
    <3> QED BY <1>1, <3>2 DEF TypeOK, Waiting, HeadAge
  <2> QED BY <1>1, <2>1, <2>2, <2>3
<1>9. Strip.aged <=> \E r \in Waiting : age[r] >= PromoteAfter
  <2>1. ASSUME Strip.aged PROVE \E r \in Waiting : age[r] >= PromoteAfter
    <3>1. Strip.oldest >= PromoteAfter /\ Strip.oldest # 0
      BY <1>1, <1>2, <2>1
    <3>2. PICK p \in InPlay : Strip.oldest = HeadAge(p)
      BY <3>1, OldestIsGreatest
    <3>3. classes[p] \in Seq(Requests) /\ classes[p] # << >> /\ p \in Priorities
      BY <1>1 DEF TypeOK, InPlay
    <3>4. Head(classes[p]) = classes[p][1] /\ 1 \in DOMAIN classes[p]
          /\ classes[p][1] \in Requests
      BY <3>3
    <3>5. classes[p][1] \in Waiting
      BY <1>1, <3>3, <3>4 DEF WaitersLinked, Waiting
    <3> QED BY <3>1, <3>2, <3>4, <3>5 DEF HeadAge
  <2>2. ASSUME NEW r \in Waiting, age[r] >= PromoteAfter PROVE Strip.aged
    <3>1. age[r] <= Strip.oldest /\ Strip.oldest \in 0..MaxAge
      BY <1>8, OldestIsGreatest
    <3>2. age[r] \in 0..MaxAge
      BY <1>1 DEF TypeOK, Waiting
    <3> QED BY <1>1, <1>2, <2>2, <3>1, <3>2
  <2> QED BY <2>1, <2>2
<1> QED BY <1>2, <1>3, <1>4, <1>5, <1>6, <1>8, <1>9 DEF StripTellsTheTruth, Waiting

\* What a strip shows, the longest wait and the aged mark from the class heads alone
\* included, is true of the moment at which it is painted.
THEOREM StripsAreTrue == StreamSpec => []StripTellsTheTruth
<1>1. IInv => StripTellsTheTruth
  BY TheStripIsTrue
<1> QED BY <1>1, GateInvariance, PTL
=============================================================================
