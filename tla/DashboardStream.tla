-------------------------- MODULE DashboardStream --------------------------
(***************************************************************************)
(* internal/web handleKeyLive: the SSE stream that repaints the pressure   *)
(* strip.  It composes with Queue: a stream is a watcher of the gate, wakes*)
(* up on the gate's signal, on its cooldown timer and on its heartbeat, and*)
(* paints what Stats returns at that moment.                               *)
(*                                                                         *)
(* What is on screen is compared with the gate by history variables: they  *)
(* record which parts of Stats have moved since the stream last read them. *)
(* The elapsed-wait figures move with the clock and belong to the          *)
(* heartbeat; they are left out.  Usage snapshots are in LiveHub.          *)
(***************************************************************************)
EXTENDS Queue

VARIABLES
  stream,         \* where each stream stands in handleKeyLive
  throttled,      \* the flag: a repaint happened less than the floor ago
  missed,         \* the flag: something changed inside the cooldown
  cooldown,       \* the timer: "stopped", "running" or "fired"
  stalePressure,  \* streams whose painted slots or depths are out of date
  staleCounters   \* streams whose painted lifetime counters are out of date

streamVars == <<stream, throttled, missed, cooldown>>
staleVars == <<stalePressure, staleCounters>>
allVars == <<vars, streamVars, staleVars>>

(***************************************************************************)
(* "closed"    no connection                                               *)
(* "opening"   watching the gate, the first frame not painted yet          *)
(* "looping"   parked in the select                                        *)
(* "painting"  about to call paintQueue                                    *)
(***************************************************************************)
StreamStages == {"closed", "opening", "looping", "painting"}

\* Every stream variable has its type; a stream is registered with the gate
\* exactly while it is connected, and only connected streams are out of date.
StreamTypeOK ==
  /\ stream \in [Watchers -> StreamStages]
  /\ throttled \in [Watchers -> BOOLEAN]
  /\ missed \in [Watchers -> BOOLEAN]
  /\ cooldown \in [Watchers -> {"stopped", "running", "fired"}]
  /\ watchers = {v \in Watchers : stream[v] # "closed"}
  /\ stalePressure \subseteq watchers
  /\ staleCounters \subseteq watchers

StreamInit ==
  /\ Init
  /\ stream = [v \in Watchers |-> "closed"]
  /\ throttled = [v \in Watchers |-> FALSE]
  /\ missed = [v \in Watchers |-> FALSE]
  /\ cooldown = [v \in Watchers |-> "stopped"]
  /\ stalePressure = {}
  /\ staleCounters = {}

-----------------------------------------------------------------------------
\* Stats: in-flight and per-class depths, and the two counters buildQueue shows.
Pressure == <<free, [p \in Priorities |-> Len(classes[p])]>>
Counters == <<admitted, promoted>>

\* buildQueue of a Stats snapshot: the slots, the totals and, from the head of each
\* class, the longest wait.  (Variant: from the last of each class.)
StripOfTails ==
  LET inFlight == Capacity - free
      oldest == Max({0} \cup {age[Last(classes[p])] : p \in InPlay})
  IN  [inFlight |-> inFlight, queued |-> waiting,
       saturated |-> inFlight >= Capacity, idle |-> inFlight = 0 /\ waiting = 0,
       oldest |-> oldest, aged |-> oldest >= PromoteAfter]
Strip ==
  LET inFlight == Capacity - free
      oldest == Max({0} \cup {HeadAge(p) : p \in InPlay})
  IN  [inFlight |-> inFlight, queued |-> waiting,
       saturated |-> inFlight >= Capacity, idle |-> inFlight = 0 /\ waiting = 0,
       oldest |-> oldest, aged |-> oldest >= PromoteAfter]

\* A step of the gate puts every connected stream behind on what it moved.
GateStep ==
  /\ (\E r \in Requests : RequestStep(r)) \/ Tick
  /\ stalePressure' = IF Pressure' = Pressure THEN stalePressure ELSE watchers
  /\ staleCounters' = IF Counters' = Counters THEN staleCounters ELSE watchers
  /\ UNCHANGED streamVars

\* A repaint: Stats is read, so the stream is up to date with all of it.
Repainted(v) ==
  /\ stalePressure' = stalePressure \ {v}
  /\ staleCounters' = staleCounters \ {v}

\* Connecting: Watch registers the stream; the screen shows nothing yet.  The
\* cooldown timer is created and stopped.
Connect(v) ==
  /\ stream[v] = "closed"
  /\ Watch(v)
  /\ stream' = [stream EXCEPT ![v] = "opening"]
  /\ throttled' = [throttled EXCEPT ![v] = FALSE]
  /\ missed' = [missed EXCEPT ![v] = FALSE]
  /\ cooldown' = [cooldown EXCEPT ![v] = "stopped"]
  /\ stalePressure' = stalePressure \cup {v}
  /\ staleCounters' = staleCounters \cup {v}

\* paintQueue succeeded: the floor starts and the missed changes are covered.
\* (Variant: the timer is not re-armed.)
PaintQueueNoReset(v) ==
  /\ stream[v] \in {"opening", "painting"}
  /\ Repainted(v)
  /\ throttled' = [throttled EXCEPT ![v] = TRUE]
  /\ missed' = [missed EXCEPT ![v] = FALSE]
  /\ stream' = [stream EXCEPT ![v] = "looping"]
  /\ UNCHANGED <<vars, cooldown>>
PaintQueue(v) ==
  /\ stream[v] \in {"opening", "painting"}
  /\ Repainted(v)
  /\ throttled' = [throttled EXCEPT ![v] = TRUE]
  /\ missed' = [missed EXCEPT ![v] = FALSE]
  /\ cooldown' = [cooldown EXCEPT ![v] = "running"]
  /\ stream' = [stream EXCEPT ![v] = "looping"]
  /\ UNCHANGED vars

\* case <-changes.
\* (Variant: inside the cooldown the change is forgotten.)
OnChangeForgets(v) ==
  /\ stream[v] = "looping"
  /\ Receive(v)
  /\ stream' = IF throttled[v] THEN stream
                               ELSE [stream EXCEPT ![v] = "painting"]
  /\ UNCHANGED <<throttled, missed, cooldown, staleVars>>
OnChange(v) ==
  /\ stream[v] = "looping"
  /\ Receive(v)
  /\ IF throttled[v]
     THEN missed' = [missed EXCEPT ![v] = TRUE] /\ UNCHANGED stream
     ELSE stream' = [stream EXCEPT ![v] = "painting"] /\ UNCHANGED missed
  /\ UNCHANGED <<throttled, cooldown, staleVars>>

\* queueMinInterval has passed since the last paintQueue.
CooldownFires(v) ==
  /\ cooldown[v] = "running"
  /\ cooldown' = [cooldown EXCEPT ![v] = "fired"]
  /\ UNCHANGED <<vars, stream, throttled, missed, staleVars>>

\* case <-cooldown.C.
OnCooldown(v) ==
  /\ stream[v] = "looping"
  /\ cooldown[v] = "fired"
  /\ cooldown' = [cooldown EXCEPT ![v] = "stopped"]
  /\ throttled' = [throttled EXCEPT ![v] = FALSE]
  /\ stream' = [stream EXCEPT ![v] = IF missed[v] THEN "painting" ELSE "looping"]
  /\ UNCHANGED <<vars, missed, staleVars>>

\* case <-heartbeat.C: a repaint that leaves the flags and the timer alone.
OnHeartbeat(v) ==
  /\ stream[v] = "looping"
  /\ Repainted(v)
  /\ UNCHANGED <<vars, streamVars>>

\* The client went away: the select saw r.Context().Done(), or a write failed.
\* The deferred calls unwatch the gate and stop the timer.
\* (Variant: the deferred unwatch is missing.)
DisconnectLeaks(v) ==
  /\ stream[v] # "closed"
  /\ stream' = [stream EXCEPT ![v] = "closed"]
  /\ cooldown' = [cooldown EXCEPT ![v] = "stopped"]
  /\ Repainted(v)
  /\ UNCHANGED <<vars, throttled, missed>>
Disconnect(v) ==
  /\ stream[v] # "closed"
  /\ Unwatch(v)
  /\ stream' = [stream EXCEPT ![v] = "closed"]
  /\ cooldown' = [cooldown EXCEPT ![v] = "stopped"]
  /\ Repainted(v)
  /\ UNCHANGED <<throttled, missed>>

StreamStep(v) ==
  Connect(v) \/ PaintQueue(v) \/ OnChange(v) \/ CooldownFires(v)
    \/ OnCooldown(v) \/ OnHeartbeat(v) \/ Disconnect(v)

StreamNext == GateStep \/ \E v \in Watchers : StreamStep(v)

StreamSpec == StreamInit /\ [][StreamNext]_allVars

(***************************************************************************)
(* Fairness.  A connected stream's goroutine is scheduled and its timer    *)
(* fires.  The heartbeat is NOT assumed: the property below is what the    *)
(* event path alone delivers.  Nothing is assumed of the gate.  The select *)
(* is a uniform choice over the ready cases, so a case that is ready again *)
(* and again is taken.                                                     *)
(***************************************************************************)
StreamFairness ==
  \A v \in Watchers :
    /\ WF_allVars(PaintQueue(v))
    /\ WF_allVars(CooldownFires(v))
    /\ SF_allVars(OnChange(v))
    /\ SF_allVars(OnCooldown(v))

FairStreamSpec == StreamSpec /\ StreamFairness

-----------------------------------------------------------------------------
\* "Changes inside the window are coalesced into one repaint at its end, so
\* nothing is lost, only merged": whenever the painted pressure is out of date, a
\* wake-up that will repaint it is still pending.
NoLostRepaint ==
  \A v \in stalePressure :
    \/ v \in signalled
    \/ missed[v] /\ throttled[v]
    \/ stream[v] \in {"opening", "painting"}

\* Whenever a strip is painted it tells of one moment of the gate: no more slots
\* are lit than there are (Slots[i] stays in range), nobody is shown queued beside
\* a free slot, "idle" means that nobody runs or waits, and the wait shown, read off
\* the class heads alone, is the longest there is.
StripTellsTheTruth ==
  LET blocked == {r \in Requests : stage[r] = "waiting"}
  IN  /\ Strip.inFlight \in 0..Capacity
      /\ Strip.queued = Cardinality(blocked)
      /\ Strip.queued > 0 => Strip.saturated
      /\ Strip.idle => \A r \in Requests : stage[r] \in {"idle", "released"}
      /\ \A r \in blocked : age[r] <= Strip.oldest
      /\ Strip.aged <=> \E r \in blocked : age[r] >= PromoteAfter

\* A throttled stream has an armed timer: the flag never outlives the cooldown,
\* so change-driven repaints cannot stop for good.
ThrottleExpires ==
  \A v \in Watchers : stream[v] # "closed" =>
    (throttled[v] <=> cooldown[v] # "stopped")

\* An out-of-date strip is repainted, or its viewer leaves, without the help of
\* the heartbeat.
EventuallyRepainted ==
  \A v \in Watchers : (v \in stalePressure) ~> (v \notin stalePressure)

\* "receives a signal whenever the queue changes - a request admitted, queued,
\* granted, released or cancelled": the same promise for the counters the strip
\* shows.
NoLostCounterRepaint ==
  \A v \in staleCounters :
    \/ v \in signalled
    \/ missed[v] /\ throttled[v]
    \/ stream[v] \in {"opening", "painting"}
=============================================================================
