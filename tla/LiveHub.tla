------------------------------ MODULE LiveHub ------------------------------
(***************************************************************************)
(* internal/live: the read side of usage for ONE key (keys share nothing   *)
(* but the hub's mutex).  Writers record usage events (Recorder.Record);   *)
(* the key's actor folds credits and store reloads into a report and fans  *)
(* it out to the viewers' one-deep channels; viewers come and go           *)
(* (Hub.Subscribe, unsubscribe).                                           *)
(*                                                                         *)
(* A report is abstracted to one figure, tokens today: every event costs   *)
(* one token, and midnight empties the store's figure but not a report     *)
(* that was loaded before it.  An actor that is retired is never used      *)
(* again, so actors are numbered in the order Subscribe creates them.      *)
(***************************************************************************)
EXTENDS Integers, FiniteSets

CONSTANTS
  Viewers,       \* open dashboard streams
  Writers,       \* request handlers in accounting
  OldTokens,     \* today's tokens in the store when the gateway starts
  BufferSize,    \* capacity of an actor's credits channel: 64 in the code
  MaxActors,     \* bound of the model: actors ever created
  MaxEvents,     \* bound of the model: usage events ever recorded
  MaxFailures,   \* bound of the model: store reads that fail
  MaxMidnights   \* bound of the model: days that end

ASSUME HubAssumption ==
  /\ IsFiniteSet(Viewers) /\ IsFiniteSet(Writers)
  /\ OldTokens \in Nat
  /\ BufferSize \in Nat \ {0}
  /\ MaxActors \in Nat \ {0}
  /\ MaxEvents \in Nat /\ MaxFailures \in Nat /\ MaxMidnights \in Nat

NoActor == 0
Actors == 1..MaxActors
NoSnap == -1       \* an empty one-deep channel, or a screen never painted

VARIABLES
  stored,     \* today's tokens in the usage store
  events, failures, midnights,   \* what the bounds count
  writer,     \* per writer: "idle", "stored" (no actor looked up yet), "routed"
  route,      \* per writer: the actor Publish looked up
  keyActor,   \* h.keys[key], NoActor when absent
  created,    \* actors created so far
  goroutine,  \* per actor: "none", "loading", "loaded", "select", "gone"
  owner,      \* per actor: {v} while the request context run() was given, that
              \* of the viewer v who created it, is live; {} once it is done
  done,       \* per actor: a.done is closed
  credits,    \* per actor: credits waiting in the channel
  report,     \* per actor: the report run() owns
  latest,     \* per actor: a.latest, NoSnap until primed
  subs,       \* per actor: a.subs
  viewer,     \* per viewer: "away", "joining", "watching", "leaving"
  chan,       \* per viewer: the one-deep channel
  shown       \* per viewer: the last snapshot painted

storeVars == <<stored, events, failures, midnights>>
writerVars == <<writer, route>>
hubVars == <<keyActor, created, subs>>
actorVars == <<goroutine, owner, done, credits, report, latest>>
viewerVars == <<viewer, chan, shown>>
vars == <<storeVars, writerVars, hubVars, actorVars, viewerVars>>

Figures == 0..(OldTokens + 2 * MaxEvents)

\* Every variable has its type; in particular a credits channel never holds more
\* than its buffer, and no figure counts an event more than twice.
TypeOK ==
  /\ stored \in 0..(OldTokens + MaxEvents) /\ events \in 0..MaxEvents
  /\ failures \in 0..MaxFailures /\ midnights \in 0..MaxMidnights
  /\ writer \in [Writers -> {"idle", "stored", "routed"}]
  /\ route \in [Writers -> Actors \cup {NoActor}]
  /\ keyActor \in Actors \cup {NoActor}
  /\ created \in 0..MaxActors
  /\ goroutine \in [Actors -> {"none", "loading", "loaded", "select", "gone"}]
  /\ owner \in [Actors -> SUBSET Viewers]
  /\ done \in [Actors -> BOOLEAN]
  /\ credits \in [Actors -> 0..BufferSize]
  /\ report \in [Actors -> Figures]
  /\ latest \in [Actors -> Figures \cup {NoSnap}]
  /\ subs \in [Actors -> SUBSET Viewers]
  /\ viewer \in [Viewers -> {"away", "joining", "watching", "leaving"}]
  /\ chan \in [Viewers -> Figures \cup {NoSnap}]
  /\ shown \in [Viewers -> Figures \cup {NoSnap}]

Init ==
  /\ stored = OldTokens /\ events = 0 /\ failures = 0 /\ midnights = 0
  /\ writer = [w \in Writers |-> "idle"]
  /\ route = [w \in Writers |-> NoActor]
  /\ keyActor = NoActor
  /\ created = 0
  /\ goroutine = [a \in Actors |-> "none"]
  /\ owner = [a \in Actors |-> {}]
  /\ done = [a \in Actors |-> FALSE]
  /\ credits = [a \in Actors |-> 0]
  /\ report = [a \in Actors |-> 0]
  /\ latest = [a \in Actors |-> NoSnap]
  /\ subs = [a \in Actors |-> {}]
  /\ viewer = [v \in Viewers |-> "away"]
  /\ chan = [v \in Viewers |-> NoSnap]
  /\ shown = [v \in Viewers |-> NoSnap]

-----------------------------------------------------------------------------
(***************************************************************************)
(* The write side.                                                         *)
(***************************************************************************)

\* Recorder.Record: the event is persisted.  (A failed write returns the error
\* and changes nothing.)
Persist(w) ==
  /\ writer[w] = "idle"
  /\ events < MaxEvents
  /\ events' = events + 1
  /\ stored' = stored + 1
  /\ writer' = [writer EXCEPT ![w] = "stored"]
  /\ UNCHANGED <<failures, midnights, route, hubVars, actorVars, viewerVars>>

\* Hub.Publish up to the unlock: find the key's actor, if anybody is watching.
Lookup(w) ==
  /\ writer[w] = "stored"
  /\ route' = [route EXCEPT ![w] = keyActor]
  /\ writer' = [writer EXCEPT ![w] = IF keyActor = NoActor THEN "idle" ELSE "routed"]
  /\ UNCHANGED <<storeVars, hubVars, actorVars, viewerVars>>

\* What the credits channel of actor a holds after a non-blocking send: a full
\* buffer drops the credit.  (Variant: the last place is never used.)
CreditedShort(a) == IF credits[a] + 1 < BufferSize THEN credits[a] + 1 ELSE credits[a]
Credited(a) == IF credits[a] < BufferSize THEN credits[a] + 1 ELSE credits[a]

\* keyActor.credit, on the actor that was looked up, retired meanwhile or not.
Credit(w) ==
  /\ writer[w] = "routed"
  /\ credits' = [credits EXCEPT ![route[w]] = Credited(route[w])]
  /\ writer' = [writer EXCEPT ![w] = "idle"]
  /\ route' = [route EXCEPT ![w] = NoActor]
  /\ UNCHANGED <<storeVars, hubVars, goroutine, owner, done, report, latest,
                 viewerVars>>

\* The day ends: nothing is recorded for the new one yet.
Midnight ==
  /\ midnights < MaxMidnights
  /\ midnights' = midnights + 1
  /\ stored' = 0
  /\ UNCHANGED <<events, failures, writerVars, hubVars, actorVars, viewerVars>>

-----------------------------------------------------------------------------
(***************************************************************************)
(* keyActor.run.                                                           *)
(***************************************************************************)

\* What a successful read returns.  (Variants: it is added to the report the
\* actor has; it is not assigned.)
LoadedOnTop(a) == report[a] + stored
LoadedIgnored(a) == report[a]
Loaded(a) == stored

\* A read may fail, and under a context that is done it does.
ReadFails(a) ==
  IF owner[a] = {} THEN UNCHANGED failures
  ELSE failures < MaxFailures /\ failures' = failures + 1

\* reload: the store's figure, or the last known one when the read fails.
\* (Variant: a failed read is tried again.)
ReloadRetries(a) ==
  /\ goroutine[a] = "loading"
  /\ owner[a] # {}
  /\ report' = [report EXCEPT ![a] = Loaded(a)]
  /\ goroutine' = [goroutine EXCEPT ![a] = "loaded"]
  /\ UNCHANGED <<storeVars, writerVars, hubVars, owner, done, credits, latest,
                 viewerVars>>
Reload(a) ==
  /\ goroutine[a] = "loading"
  /\ \/ /\ owner[a] # {}
        /\ report' = [report EXCEPT ![a] = Loaded(a)]
        /\ UNCHANGED failures
     \/ /\ ReadFails(a)
        /\ report' = [report EXCEPT ![a] = IF latest[a] = NoSnap THEN 0 ELSE latest[a]]
  /\ goroutine' = [goroutine EXCEPT ![a] = "loaded"]
  /\ UNCHANGED <<stored, events, midnights, writerVars, hubVars, owner, done,
                 credits, latest, viewerVars>>

\* send to every subscriber: a full one-deep channel has its old snapshot
\* replaced.  (Variant: a full channel keeps the old one.)
SentIfEmpty(a, snap) ==
  [v \in Viewers |-> IF v \in subs[a] /\ chan[v] = NoSnap THEN snap ELSE chan[v]]
Sent(a, snap) == [v \in Viewers |-> IF v \in subs[a] THEN snap ELSE chan[v]]

\* publish.
PublishReport(a) ==
  /\ goroutine[a] = "loaded"
  /\ goroutine' = [goroutine EXCEPT ![a] = "select"]
  /\ latest' = [latest EXCEPT ![a] = report[a]]
  /\ chan' = Sent(a, report[a])
  /\ UNCHANGED <<storeVars, writerVars, hubVars, owner, done, credits, report,
                 viewer, shown>>

\* case tokens := <-a.credits.
TakeCredit(a) ==
  /\ goroutine[a] = "select"
  /\ credits[a] > 0
  /\ credits' = [credits EXCEPT ![a] = @ - 1]
  /\ report' = [report EXCEPT ![a] = @ + 1]
  /\ goroutine' = [goroutine EXCEPT ![a] = "loaded"]
  /\ UNCHANGED <<storeVars, writerVars, hubVars, owner, done, latest, viewerVars>>

\* case <-resync.C.
Resync(a) ==
  /\ goroutine[a] = "select"
  /\ goroutine' = [goroutine EXCEPT ![a] = "loading"]
  /\ UNCHANGED <<storeVars, writerVars, hubVars, owner, done, credits, report,
                 latest, viewerVars>>

\* case <-a.done and case <-ctx.Done().
Exit(a) ==
  /\ goroutine[a] = "select"
  /\ done[a] \/ owner[a] = {}
  /\ goroutine' = [goroutine EXCEPT ![a] = "gone"]
  /\ UNCHANGED <<storeVars, writerVars, hubVars, owner, done, credits, report,
                 latest, viewerVars>>

-----------------------------------------------------------------------------
(***************************************************************************)
(* Viewers.                                                                *)
(***************************************************************************)

\* Subscribe under the hub's lock: join the key's actor, or start one under this
\* viewer's own request context.
Subscribe(v) ==
  /\ viewer[v] = "away"
  /\ viewer' = [viewer EXCEPT ![v] = "joining"]
  /\ \/ /\ keyActor # NoActor
        /\ subs' = [subs EXCEPT ![keyActor] = @ \cup {v}]
        /\ UNCHANGED <<keyActor, created, goroutine, owner>>
     \/ /\ keyActor = NoActor
        /\ created < MaxActors
        /\ created' = created + 1
        /\ keyActor' = created + 1
        /\ goroutine' = [goroutine EXCEPT ![created + 1] = "loading"]
        /\ owner' = [owner EXCEPT ![created + 1] = {v}]
        /\ subs' = [subs EXCEPT ![created + 1] = {v}]
  /\ UNCHANGED <<storeVars, writerVars, done, credits, report, latest, chan, shown>>

\* primeSub, after the hub's lock is gone: the actor joined hands over what it
\* has published so far.
Prime(v) ==
  /\ viewer[v] = "joining"
  /\ \E a \in Actors :
       /\ v \in subs[a]
       /\ chan' = IF latest[a] = NoSnap THEN chan ELSE [chan EXCEPT ![v] = latest[a]]
  /\ viewer' = [viewer EXCEPT ![v] = "watching"]
  /\ UNCHANGED <<storeVars, writerVars, hubVars, actorVars, shown>>

\* case snap := <-snapshots in handleKeyLive.
Receive(v) ==
  /\ viewer[v] = "watching"
  /\ chan[v] # NoSnap
  /\ shown' = [shown EXCEPT ![v] = chan[v]]
  /\ chan' = [chan EXCEPT ![v] = NoSnap]
  /\ UNCHANGED <<storeVars, writerVars, hubVars, actorVars, viewer>>

\* The contexts that end with viewer v's request.
ContextsWithout(v) == [a \in Actors |-> owner[a] \ {v}]

\* The client goes away: its request context is done, the handler has yet to
\* notice.
HangUp(v) ==
  /\ viewer[v] \in {"joining", "watching"}
  /\ viewer' = [viewer EXCEPT ![v] = "leaving"]
  /\ owner' = ContextsWithout(v)
  /\ UNCHANGED <<storeVars, writerVars, hubVars, goroutine, done, credits,
                 report, latest, chan, shown>>

\* The handler returns, after a hang-up or a failed write: unsubscribe under the
\* hub's lock, then the server ends the request context.  The last one to leave
\* retires the actor.  The channel and the screen go with the viewer.
\* (Variant: the retired actor stays in the map.)
UnsubscribeKeeps(v) ==
  /\ viewer[v] \in {"watching", "leaving"}
  /\ viewer' = [viewer EXCEPT ![v] = "away"]
  /\ chan' = [chan EXCEPT ![v] = NoSnap]
  /\ shown' = [shown EXCEPT ![v] = NoSnap]
  /\ owner' = ContextsWithout(v)
  /\ keyActor # NoActor
  /\ subs' = [subs EXCEPT ![keyActor] = @ \ {v}]
  /\ done' = [done EXCEPT ![keyActor] = @ \/ subs[keyActor] \ {v} = {}]
  /\ UNCHANGED <<storeVars, writerVars, keyActor, created, goroutine, credits,
                 report, latest>>
Unsubscribe(v) ==
  /\ viewer[v] \in {"watching", "leaving"}
  /\ viewer' = [viewer EXCEPT ![v] = "away"]
  /\ chan' = [chan EXCEPT ![v] = NoSnap]
  /\ shown' = [shown EXCEPT ![v] = NoSnap]
  /\ owner' = ContextsWithout(v)
  /\ keyActor # NoActor
  /\ subs' = [subs EXCEPT ![keyActor] = @ \ {v}]
  /\ LET last == subs[keyActor] \ {v} = {}
     IN  /\ keyActor' = IF last THEN NoActor ELSE keyActor
         /\ done' = IF last THEN [done EXCEPT ![keyActor] = TRUE] ELSE done
  /\ UNCHANGED <<storeVars, writerVars, created, goroutine, credits, report,
                 latest>>

-----------------------------------------------------------------------------
WriterStep(w) == Persist(w) \/ Lookup(w) \/ Credit(w)
ActorStep(a) ==
  Reload(a) \/ PublishReport(a) \/ TakeCredit(a) \/ Resync(a) \/ Exit(a)
ViewerStep(v) ==
  Subscribe(v) \/ Prime(v) \/ Receive(v) \/ HangUp(v) \/ Unsubscribe(v)

Next ==
  \/ \E w \in Writers : WriterStep(w)
  \/ \E a \in Actors : ActorStep(a)
  \/ \E v \in Viewers : ViewerStep(v)
  \/ Midnight

Spec == Init /\ [][Next]_vars

(***************************************************************************)
(* Fairness.  Goroutines that can run do; the resync ticker keeps ticking; *)
(* a select over ready cases is a uniform choice, so a case that is ready  *)
(* again and again is taken; a handler whose client hung up returns.       *)
(* Nothing is assumed of clients, of new calls or of the calendar.         *)
(***************************************************************************)
Fairness ==
  /\ \A w \in Writers : WF_vars(Lookup(w)) /\ WF_vars(Credit(w))
  /\ \A a \in Actors :
       /\ WF_vars(Reload(a)) /\ WF_vars(PublishReport(a))
       /\ SF_vars(TakeCredit(a)) /\ SF_vars(Resync(a)) /\ SF_vars(Exit(a))
  /\ \A v \in Viewers :
       /\ WF_vars(Prime(v)) /\ SF_vars(Receive(v))
       /\ WF_vars(viewer[v] = "leaving" /\ Unsubscribe(v))

FairSpec == Spec /\ Fairness

-----------------------------------------------------------------------------
(***************************************************************************)
(* Properties.                                                             *)
(***************************************************************************)

\* "Retiring under the hub lock is what makes this race-free": whoever is
\* subscribed is subscribed to the actor in the map, that actor has not been told
\* to stop, and an actor in the map has somebody watching.
RetireIsRaceFree ==
  /\ \A a \in Actors : subs[a] # {} => a = keyActor
  /\ keyActor # NoActor => subs[keyActor] # {} /\ ~done[keyActor]
  /\ \A a \in 1..created : a # keyActor => done[a]

\* A viewer who reads its channel ends up with the newest snapshot its actor has
\* published, although sends never block and old snapshots are discarded.
NewestSnapshotDelivered ==
  \A a \in Actors : \A v \in subs[a] :
    viewer[v] = "watching" /\ latest[a] # NoSnap =>
      \/ chan[v] = latest[a]
      \/ chan[v] = NoSnap /\ shown[v] = latest[a]

\* "persists the event first and only then tells the hub": a recorded call is in
\* the actor's report, in its channel, or with the writer about to send it, no
\* matter how subscribing and retiring interleave with recording.  (Stated for
\* loads that succeed and, in the run, a buffer that does not overflow.)
NoCallMissed ==
  \A a \in Actors :
    /\ a = keyActor /\ owner[a] # {} /\ failures = 0 /\ midnights = 0
    /\ goroutine[a] \in {"loaded", "select"}
    => report[a] + credits[a] + Cardinality({w \in Writers : writer[w] # "idle"})
         >= stored

\* "persists the event first and only then tells the hub", so a reload may read a
\* call whose credit is still to come and count it twice.  However many reloads and
\* failed reads there are, the excess does not add up: what a viewer sees is above
\* the store's figure by at most the credits a full channel holds and one per
\* writer.  (After a midnight the old day's report is not the new day's.)
ExcessBounded ==
  midnights = 0 =>
    \A v \in Viewers : shown[v] <= stored + BufferSize + Cardinality(Writers)

\* "a closed browser tab reaps its goroutine": an actor told to stop ends.
RetiredActorsEnd ==
  \A a \in Actors : done[a] ~> goroutine[a] = "gone"

\* Nothing more will be recorded.
Quiet ==
  /\ events = MaxEvents /\ midnights = MaxMidnights
  /\ \A w \in Writers : writer[w] = "idle"

\* "Authoritative refresh: corrects both a bucket boundary that has rolled over
\* since the last load and any drift from a dropped credit": once recording stops,
\* a viewer who stays is shown what the store holds.
ShownConverges ==
  \A v \in Viewers :
    Quiet /\ viewer[v] = "watching" ~> shown[v] = stored \/ viewer[v] # "watching"

\* "the first subscriber starts it, the last one to leave stops it": while
\* somebody watches, the key's actor is running.
RunsUntilLastLeaves ==
  \A v \in Viewers : viewer[v] = "watching" =>
    \A a \in Actors : v \in subs[a] => goroutine[a] # "gone"

\* "a transient database error should leave the dashboard showing slightly stale
\* numbers, not zeros": with tokens in the store since before the gateway started,
\* and the day not over, no viewer is shown zero.
NeverShowsZeros ==
  OldTokens > 0 /\ midnights = 0 => \A v \in Viewers : shown[v] # 0
=============================================================================
