--------------------------- MODULE LiveHubProofs ---------------------------
(***************************************************************************)
(* Theorems about LiveHub, for any number of viewers, writers, actors,     *)
(* calls, failed reads and midnights: what one key's viewers are told, and *)
(* that nobody is left behind by the last one to leave.                    *)
(***************************************************************************)
EXTENDS LiveHub, FiniteSetTheorems, TLAPS

\* The calls that are recorded but not yet credited.
Accounting == {w \in Writers : writer[w] # "idle"}

\* Those of them that actor a will get, if it stays in the map until they look.
Pending(a) == {w \in Writers : writer[w] = "stored" \/ (writer[w] = "routed" /\ route[w] = a)}

\* A call that was routed has an actor.
RouteInv == \A w \in Writers : writer[w] = "routed" => route[w] \in Actors

\* Actors are created in order, and only those are told to stop.
RaceInv ==
  /\ RetireIsRaceFree
  /\ keyActor \in 0..created
  /\ \A a \in Actors : done[a] => a <= created

\* Every event is counted at most once by the store and once as a credit.
CountInv ==
  /\ stored <= OldTokens + events
  /\ \A a \in Actors :
       /\ credits[a] + Cardinality(Accounting) <= events
       /\ report[a] + credits[a] + Cardinality(Accounting) <= OldTokens + 2 * events
       /\ latest[a] + credits[a] + Cardinality(Accounting) <= OldTokens + 2 * events

\* With room for every credit, the live report of the actor in the map and what is
\* on its way to it make up the stored figure.
LossInv ==
  BufferSize >= MaxEvents =>
    \A a \in Actors :
      /\ a = keyActor /\ owner[a] # {} /\ failures = 0 /\ midnights = 0
      /\ goroutine[a] \in {"loaded", "select"}
      => report[a] + credits[a] + Cardinality(Pending(a)) >= stored

HubInv ==
  TypeOK /\ RouteInv /\ RaceInv /\ CountInv /\ NewestSnapshotDelivered /\ LossInv

-----------------------------------------------------------------------------
(***************************************************************************)
(* Counting writers.                                                       *)
(***************************************************************************)
LEMMA WritersCount ==
  ASSUME NEW S \in SUBSET Writers
  PROVE  /\ IsFiniteSet(S) /\ Cardinality(S) \in Nat
         /\ \A w \in Writers \ S : Cardinality(S \cup {w}) = Cardinality(S) + 1
         /\ \A w \in S : Cardinality(S \ {w}) = Cardinality(S) - 1 /\ Cardinality(S) > 0
<1>1. IsFiniteSet(S)
  BY HubAssumption, FS_Subset
<1>2. Cardinality(S) \in Nat
  BY <1>1, FS_CardinalityType
<1>3. ASSUME NEW w \in Writers \ S PROVE Cardinality(S \cup {w}) = Cardinality(S) + 1
  BY <1>1, FS_AddElement
<1>4. ASSUME NEW w \in S PROVE Cardinality(S \ {w}) = Cardinality(S) - 1 /\ Cardinality(S) > 0
  <2>1. Cardinality(S \ {w}) = Cardinality(S) - 1
    BY <1>1, FS_RemoveElement
  <2>2. IsFiniteSet(S \ {w}) /\ Cardinality(S \ {w}) \in Nat
    BY <1>1, FS_Subset, FS_CardinalityType
  <2> QED BY <1>2, <2>1, <2>2
<1> QED BY <1>1, <1>2, <1>3, <1>4

LEMMA PendingCount ==
  /\ Cardinality(Accounting) \in Nat
  /\ \A a : Cardinality(Pending(a)) \in Nat /\ Cardinality(Pending(a)) <= Cardinality(Accounting)
<1>1. Accounting \in SUBSET Writers
  BY DEF Accounting
<1>2. Cardinality(Accounting) \in Nat /\ IsFiniteSet(Accounting)
  BY <1>1, WritersCount
<1>3. ASSUME NEW a PROVE Cardinality(Pending(a)) \in Nat
                         /\ Cardinality(Pending(a)) <= Cardinality(Accounting)
  <2>1. Pending(a) \in SUBSET Accounting /\ Pending(a) \in SUBSET Writers
    BY DEF Pending, Accounting
  <2> QED BY <1>2, <2>1, WritersCount, FS_Subset
<1> QED BY <1>2, <1>3

-----------------------------------------------------------------------------
(***************************************************************************)
(* The write side.                                                         *)
(***************************************************************************)
LEMMA PersistKeeps ==
  ASSUME HubInv, NEW w \in Writers, Persist(w)
  PROVE  HubInv'
<1>1. /\ events' = events + 1 /\ stored' = stored + 1 /\ events < MaxEvents
      /\ writer[w] = "idle" /\ writer' = [writer EXCEPT ![w] = "stored"]
      /\ failures' = failures /\ midnights' = midnights /\ route' = route
      /\ UNCHANGED <<hubVars, actorVars, viewerVars>>
  BY DEF Persist
<1>2. /\ keyActor' = keyActor /\ created' = created /\ subs' = subs /\ goroutine' = goroutine
      /\ owner' = owner /\ done' = done /\ credits' = credits /\ report' = report
      /\ latest' = latest /\ viewer' = viewer /\ chan' = chan /\ shown' = shown
  BY <1>1 DEF hubVars, actorVars, viewerVars
<1>3. MaxEvents \in Nat /\ OldTokens \in Nat /\ BufferSize \in Nat
  BY HubAssumption
<1>4. TypeOK /\ CountInv
  BY DEF HubInv
<1>5. events \in Nat /\ stored \in Nat /\ stored <= OldTokens + events
  BY <1>3, <1>4 DEF TypeOK, CountInv
<1>6. TypeOK'
  <2>1. events' \in 0..MaxEvents
    BY <1>1, <1>3, <1>5
  <2>2. stored' \in 0..(OldTokens + MaxEvents)
    BY <1>1, <1>3, <1>5
  <2>3. writer' \in [Writers -> {"idle", "stored", "routed"}]
    BY <1>1, <1>4 DEF TypeOK
  <2> QED BY <1>1, <1>2, <1>4, <2>1, <2>2, <2>3 DEF TypeOK
<1>7. writer'[w] = "stored" /\ \A x \in Writers \ {w} : writer'[x] = writer[x]
  BY <1>1, <1>4 DEF TypeOK
<1>8. Cardinality(Accounting') = Cardinality(Accounting) + 1
  <2>1. Accounting' = Accounting \cup {w} /\ w \notin Accounting /\ Accounting \in SUBSET Writers
    BY <1>1, <1>7 DEF Accounting
  <2> QED BY <2>1, WritersCount
<1>9. ASSUME NEW a \in Actors PROVE Cardinality(Pending(a)') = Cardinality(Pending(a)) + 1
  <2>1. Pending(a)' = Pending(a) \cup {w} /\ w \notin Pending(a) /\ Pending(a) \in SUBSET Writers
    BY <1>1, <1>7 DEF Pending
  <2> QED BY <2>1, WritersCount
<1>10. CountInv'
  <2>1. ASSUME NEW a \in Actors
        PROVE  /\ credits[a] + Cardinality(Accounting') <= events'
               /\ report[a] + credits[a] + Cardinality(Accounting') <= OldTokens + 2 * events'
               /\ latest[a] + credits[a] + Cardinality(Accounting') <= OldTokens + 2 * events'
    <3>1. credits[a] \in Int /\ report[a] \in Int /\ latest[a] \in Int
      BY <1>4 DEF TypeOK, Figures, NoSnap
    <3>2. /\ credits[a] + Cardinality(Accounting) <= events
          /\ report[a] + credits[a] + Cardinality(Accounting) <= OldTokens + 2 * events
          /\ latest[a] + credits[a] + Cardinality(Accounting) <= OldTokens + 2 * events
      BY <1>4 DEF CountInv
    <3> QED BY <1>1, <1>3, <1>5, <1>8, <3>1, <3>2, PendingCount
  <2>2. stored' <= OldTokens + events'
    BY <1>1, <1>3, <1>5
  <2> QED BY <1>2, <2>1, <2>2 DEF CountInv
<1>11. LossInv'
  <2> SUFFICES ASSUME BufferSize >= MaxEvents, NEW a \in Actors,
                      a = keyActor, owner[a] # {}, failures = 0, midnights = 0,
                      goroutine[a] \in {"loaded", "select"}
               PROVE  report[a] + credits[a] + Cardinality(Pending(a)') >= stored'
    BY <1>1, <1>2 DEF LossInv
  <2>1. report[a] + credits[a] + Cardinality(Pending(a)) >= stored
    BY DEF HubInv, LossInv
  <2>2. credits[a] \in Int /\ report[a] \in Int
    BY <1>4 DEF TypeOK, Figures
  <2> QED BY <1>1, <1>5, <1>9, <2>1, <2>2, PendingCount
<1>12. RouteInv' /\ RaceInv' /\ NewestSnapshotDelivered'
  BY <1>1, <1>2, <1>7 DEF HubInv, RouteInv, RaceInv, RetireIsRaceFree, NewestSnapshotDelivered
<1> QED BY <1>6, <1>10, <1>11, <1>12 DEF HubInv

LEMMA LookupKeeps ==
  ASSUME HubInv, NEW w \in Writers, Lookup(w)
  PROVE  HubInv'
<1>1. /\ writer[w] = "stored" /\ route' = [route EXCEPT ![w] = keyActor]
      /\ writer' = [writer EXCEPT ![w] = IF keyActor = NoActor THEN "idle" ELSE "routed"]
      /\ UNCHANGED <<storeVars, hubVars, actorVars, viewerVars>>
  BY DEF Lookup
<1>2. /\ keyActor' = keyActor /\ created' = created /\ subs' = subs /\ goroutine' = goroutine
      /\ owner' = owner /\ done' = done /\ credits' = credits /\ report' = report
      /\ latest' = latest /\ viewer' = viewer /\ chan' = chan /\ shown' = shown
      /\ stored' = stored /\ events' = events /\ failures' = failures /\ midnights' = midnights
  BY <1>1 DEF storeVars, hubVars, actorVars, viewerVars
<1>3. MaxEvents \in Nat /\ OldTokens \in Nat /\ BufferSize \in Nat
  BY HubAssumption
<1>4. TypeOK /\ CountInv /\ RouteInv
  BY DEF HubInv
<1>5. /\ writer'[w] = (IF keyActor = NoActor THEN "idle" ELSE "routed") /\ route'[w] = keyActor
      /\ \A x \in Writers \ {w} : writer'[x] = writer[x] /\ route'[x] = route[x]
      /\ keyActor \in Actors \cup {NoActor}
  BY <1>1, <1>4 DEF TypeOK
<1>6. TypeOK'
  <2>1. writer' \in [Writers -> {"idle", "stored", "routed"}]
        /\ route' \in [Writers -> Actors \cup {NoActor}]
    BY <1>1, <1>4 DEF TypeOK
  <2> QED BY <1>2, <1>4, <2>1 DEF TypeOK
<1>7. RouteInv'
  BY <1>4, <1>5 DEF RouteInv
<1>8. Cardinality(Accounting') <= Cardinality(Accounting) /\ Cardinality(Accounting') \in Nat
  <2>1. Accounting' \in SUBSET Accounting /\ Accounting \in SUBSET Writers
    BY <1>1, <1>5 DEF Accounting
  <2>2. IsFiniteSet(Accounting)
    BY <2>1, WritersCount
  <2> QED BY <2>1, <2>2, FS_Subset, FS_CardinalityType
<1>9. CountInv'
  <2>1. ASSUME NEW a \in Actors
        PROVE  /\ credits[a] + Cardinality(Accounting') <= events
               /\ report[a] + credits[a] + Cardinality(Accounting') <= OldTokens + 2 * events
               /\ latest[a] + credits[a] + Cardinality(Accounting') <= OldTokens + 2 * events
    <3>1. credits[a] \in Int /\ report[a] \in Int /\ latest[a] \in Int /\ events \in Int
      BY <1>4 DEF TypeOK, Figures, NoSnap
    <3>2. /\ credits[a] + Cardinality(Accounting) <= events
          /\ report[a] + credits[a] + Cardinality(Accounting) <= OldTokens + 2 * events
          /\ latest[a] + credits[a] + Cardinality(Accounting) <= OldTokens + 2 * events
      BY <1>4 DEF CountInv
    <3> QED BY <1>3, <1>8, <3>1, <3>2, PendingCount
  <2> QED BY <1>2, <1>4, <2>1 DEF CountInv
<1>10. LossInv'
  <2> SUFFICES ASSUME BufferSize >= MaxEvents, NEW a \in Actors,
                      a = keyActor, owner[a] # {}, failures = 0, midnights = 0,
                      goroutine[a] \in {"loaded", "select"}
               PROVE  report[a] + credits[a] + Cardinality(Pending(a)') >= stored
    BY <1>2 DEF LossInv
  <2>1. report[a] + credits[a] + Cardinality(Pending(a)) >= stored
    BY DEF HubInv, LossInv
  <2>2. a # NoActor
    BY DEF Actors, NoActor
  <2>3. Pending(a)' = Pending(a)
    BY <1>1, <1>5, <2>2 DEF Pending
  <2> QED BY <2>1, <2>3
<1>11. RaceInv' /\ NewestSnapshotDelivered'
  BY <1>2 DEF HubInv, RaceInv, RetireIsRaceFree, NewestSnapshotDelivered
<1> QED BY <1>6, <1>7, <1>9, <1>10, <1>11 DEF HubInv

LEMMA CreditKeeps ==
  ASSUME HubInv, NEW w \in Writers, Credit(w)
  PROVE  HubInv'
<1> DEFINE b == route[w]
<1>1. /\ writer[w] = "routed" /\ route' = [route EXCEPT ![w] = NoActor]
      /\ writer' = [writer EXCEPT ![w] = "idle"] /\ credits' = [credits EXCEPT ![b] = Credited(b)]
      /\ UNCHANGED <<storeVars, hubVars, goroutine, owner, done, report, latest, viewerVars>>
  BY DEF Credit
<1>2. /\ keyActor' = keyActor /\ created' = created /\ subs' = subs /\ goroutine' = goroutine
      /\ owner' = owner /\ done' = done /\ report' = report
      /\ latest' = latest /\ viewer' = viewer /\ chan' = chan /\ shown' = shown
      /\ stored' = stored /\ events' = events /\ failures' = failures /\ midnights' = midnights
  BY <1>1 DEF storeVars, hubVars, viewerVars
<1>3. MaxEvents \in Nat /\ OldTokens \in Nat /\ BufferSize \in Nat
  BY HubAssumption
<1>4. TypeOK /\ CountInv /\ RouteInv
  BY DEF HubInv
<1>5. /\ writer'[w] = "idle"
      /\ \A x \in Writers \ {w} : writer'[x] = writer[x] /\ route'[x] = route[x]
      /\ b \in Actors
  BY <1>1, <1>4 DEF TypeOK, RouteInv
<1>6. /\ credits'[b] = Credited(b) /\ \A a \in Actors \ {b} : credits'[a] = credits[a]
      /\ Credited(b) \in 0..BufferSize /\ Credited(b) <= credits[b] + 1
      /\ (credits[b] < BufferSize => Credited(b) = credits[b] + 1)
  BY <1>1, <1>3, <1>4, <1>5 DEF TypeOK, Credited
<1>7. TypeOK'
  <2>1. writer' \in [Writers -> {"idle", "stored", "routed"}]
        /\ route' \in [Writers -> Actors \cup {NoActor}]
    BY <1>1, <1>4 DEF TypeOK
  <2>2. credits' \in [Actors -> 0..BufferSize]
    BY <1>1, <1>4, <1>6 DEF TypeOK
  <2> QED BY <1>2, <1>4, <2>1, <2>2 DEF TypeOK
<1>8. RouteInv'
  BY <1>4, <1>5 DEF RouteInv
<1>9. Cardinality(Accounting') = Cardinality(Accounting) - 1 /\ Cardinality(Accounting) > 0
  <2>1. Accounting' = Accounting \ {w} /\ w \in Accounting /\ Accounting \in SUBSET Writers
    BY <1>1, <1>5 DEF Accounting
  <2> QED BY <2>1, WritersCount
<1>10. ASSUME NEW a \in Actors
       PROVE  /\ credits[a] \in Int /\ report[a] \in Int /\ latest[a] \in Int
              /\ credits'[a] \in Int /\ credits'[a] <= credits[a] + 1
              /\ credits[a] + Cardinality(Accounting) <= events
              /\ report[a] + credits[a] + Cardinality(Accounting) <= OldTokens + 2 * events
              /\ latest[a] + credits[a] + Cardinality(Accounting) <= OldTokens + 2 * events
  <2>1. credits[a] \in Int /\ report[a] \in Int /\ latest[a] \in Int
    BY <1>4 DEF TypeOK, Figures, NoSnap
  <2>2. credits'[a] \in Int /\ credits'[a] <= credits[a] + 1
    BY <1>3, <1>6, <2>1
  <2> QED BY <1>4, <2>1, <2>2 DEF CountInv
<1>11. events \in Nat /\ events <= MaxEvents
  BY <1>3, <1>4 DEF TypeOK
<1>12. CountInv'
  <2>1. ASSUME NEW a \in Actors
        PROVE  /\ credits'[a] + Cardinality(Accounting') <= events
               /\ report[a] + credits'[a] + Cardinality(Accounting') <= OldTokens + 2 * events
               /\ latest[a] + credits'[a] + Cardinality(Accounting') <= OldTokens + 2 * events
    BY <1>3, <1>9, <1>10, <1>11, PendingCount
  <2> QED BY <1>2, <1>4, <2>1 DEF CountInv
<1>13. LossInv'
  <2> SUFFICES ASSUME BufferSize >= MaxEvents, NEW a \in Actors,
                      a = keyActor, owner[a] # {}, failures = 0, midnights = 0,
                      goroutine[a] \in {"loaded", "select"}
               PROVE  report[a] + credits'[a] + Cardinality(Pending(a)') >= stored
    BY <1>2 DEF LossInv
  <2>1. report[a] + credits[a] + Cardinality(Pending(a)) >= stored
    BY DEF HubInv, LossInv
  <2>2. CASE a = b
    <3>1. Pending(a)' = Pending(a) \ {w} /\ w \in Pending(a) /\ Pending(a) \in SUBSET Writers
      BY <1>1, <1>5, <2>2 DEF Pending
    <3>2. Cardinality(Pending(a)') = Cardinality(Pending(a)) - 1
      BY <3>1, WritersCount
    <3>3. credits[a] < BufferSize
      BY <1>3, <1>9, <1>10, <1>11, PendingCount
    <3>4. credits'[a] = credits[a] + 1
      BY <1>6, <2>2, <3>3
    <3>5. stored \in Int
      BY <1>4 DEF TypeOK
    <3> QED BY <1>10, <2>1, <3>2, <3>4, <3>5, PendingCount
  <2>3. CASE a # b
    <3>1. Pending(a)' = Pending(a)
      BY <1>1, <1>5, <2>3 DEF Pending
    <3>2. credits'[a] = credits[a]
      BY <1>6, <2>3
    <3> QED BY <2>1, <3>1, <3>2
  <2> QED BY <2>2, <2>3
<1>14. RaceInv' /\ NewestSnapshotDelivered'
  BY <1>2 DEF HubInv, RaceInv, RetireIsRaceFree, NewestSnapshotDelivered
<1> QED BY <1>7, <1>8, <1>12, <1>13, <1>14 DEF HubInv

-----------------------------------------------------------------------------
(***************************************************************************)
(* The actor.                                                              *)
(***************************************************************************)

\* What steps of the actor and of viewers leave of the counts.
LEMMA CountsStand ==
  ASSUME HubInv, UNCHANGED writer
  PROVE  Accounting' = Accounting /\ (UNCHANGED route => \A a : Pending(a)' = Pending(a))
BY DEF Accounting, Pending

\* The numbers of one actor.
LEMMA ActorFacts ==
  ASSUME HubInv, NEW a \in Actors
  PROVE  /\ credits[a] \in 0..BufferSize /\ credits[a] \in Nat
         /\ report[a] \in Nat /\ report[a] \in Figures /\ latest[a] \in Int
         /\ latest[a] \in Figures \cup {NoSnap}
         /\ events \in Nat /\ events <= MaxEvents /\ stored \in Nat
         /\ OldTokens \in Nat /\ MaxEvents \in Nat /\ BufferSize \in Nat
         /\ stored <= OldTokens + events /\ Cardinality(Accounting) \in Nat
         /\ credits[a] + Cardinality(Accounting) <= events
         /\ report[a] + credits[a] + Cardinality(Accounting) <= OldTokens + 2 * events
         /\ latest[a] + credits[a] + Cardinality(Accounting) <= OldTokens + 2 * events
BY HubAssumption, PendingCount DEF HubInv, TypeOK, CountInv, Figures, NoSnap

LEMMA ReloadKeeps ==
  ASSUME HubInv, NEW a \in Actors, Reload(a)
  PROVE  HubInv'
<1> DEFINE r == report'[a]
<1>1. /\ stored' = stored /\ events' = events /\ midnights' = midnights
      /\ writer' = writer /\ route' = route /\ keyActor' = keyActor /\ created' = created
      /\ subs' = subs /\ owner' = owner /\ done' = done /\ credits' = credits
      /\ latest' = latest /\ viewer' = viewer /\ chan' = chan /\ shown' = shown
      /\ goroutine[a] = "loading" /\ goroutine' = [goroutine EXCEPT ![a] = "loaded"]
  BY DEF Reload, writerVars, hubVars, viewerVars
<1>2. TypeOK /\ CountInv /\ failures \in Nat /\ failures \in 0..MaxFailures /\ MaxFailures \in Nat
  BY HubAssumption DEF HubInv, TypeOK
<1>3. \/ owner[a] # {} /\ failures' = failures /\ report' = [report EXCEPT ![a] = stored]
      \/ /\ (owner[a] = {} /\ failures' = failures)
            \/ (failures < MaxFailures /\ failures' = failures + 1)
         /\ report' = [report EXCEPT ![a] = IF latest[a] = NoSnap THEN 0 ELSE latest[a]]
  BY DEF Reload, ReadFails, Loaded
<1>4. failures' \in 0..MaxFailures /\ (failures' = 0 => failures = 0)
  BY <1>2, <1>3
<1>5. \A b \in Actors \ {a} : report'[b] = report[b] /\ goroutine'[b] = goroutine[b]
  BY <1>1, <1>2, <1>3 DEF TypeOK
<1>6. \/ r = stored
      \/ r = IF latest[a] = NoSnap THEN 0 ELSE latest[a]
  BY <1>2, <1>3 DEF TypeOK
<1>7. r \in Nat /\ r + credits[a] + Cardinality(Accounting) <= OldTokens + 2 * events
  <2>1. latest[a] # NoSnap => latest[a] \in Nat
    BY ActorFacts DEF Figures
  <2> HIDE DEF r
  <2> QED BY <1>6, <2>1, ActorFacts
<1>8. r \in Figures
  <2> HIDE DEF r
  <2> QED BY <1>7, ActorFacts DEF Figures
<1>9. TypeOK'
  <2>1. report' \in [Actors -> Figures]
    BY <1>2, <1>3, <1>5, <1>8 DEF TypeOK
  <2>2. goroutine' \in [Actors -> {"none", "loading", "loaded", "select", "gone"}]
    BY <1>1, <1>2 DEF TypeOK
  <2> QED BY <1>1, <1>2, <1>4, <2>1, <2>2 DEF TypeOK
<1>10. Accounting' = Accounting /\ \A b : Pending(b)' = Pending(b)
  BY <1>1, CountsStand
<1>11. CountInv'
  <2>1. \A b \in Actors : report'[b] + credits[b] + Cardinality(Accounting) <= OldTokens + 2 * events
    BY <1>5, <1>7, ActorFacts
  <2> QED BY <1>1, <1>2, <1>10, <2>1 DEF CountInv
<1>12. LossInv'
  <2> SUFFICES ASSUME BufferSize >= MaxEvents, NEW b \in Actors,
                      b = keyActor, owner[b] # {}, failures' = 0, midnights = 0,
                      goroutine'[b] \in {"loaded", "select"}
               PROVE  report'[b] + credits[b] + Cardinality(Pending(b)) >= stored
    BY <1>1, <1>10 DEF LossInv
  <2>1. CASE b = a
    <3>1. r = stored
      <4>1. ~(failures < MaxFailures /\ failures' = failures + 1)
        BY <1>2, <2>1
      <4> QED BY <1>2, <1>3, <2>1, <4>1 DEF TypeOK
    <3> HIDE DEF r
    <3>2. r + credits[b] + Cardinality(Pending(b)) >= stored
      BY <2>1, <3>1, ActorFacts, PendingCount
    <3> QED BY <2>1, <3>2 DEF r
  <2>2. CASE b # a
    BY <1>4, <1>5, <2>2 DEF HubInv, LossInv
  <2> QED BY <2>1, <2>2
<1>13. RouteInv' /\ RaceInv' /\ NewestSnapshotDelivered'
  BY <1>1 DEF HubInv, RouteInv, RaceInv, RetireIsRaceFree, NewestSnapshotDelivered
<1> QED BY <1>9, <1>11, <1>12, <1>13 DEF HubInv

LEMMA PublishReportKeeps ==
  ASSUME HubInv, NEW a \in Actors, PublishReport(a)
  PROVE  HubInv'
<1>1. /\ stored' = stored /\ events' = events /\ midnights' = midnights /\ failures' = failures
      /\ writer' = writer /\ route' = route /\ keyActor' = keyActor /\ created' = created
      /\ subs' = subs /\ owner' = owner /\ done' = done /\ credits' = credits
      /\ report' = report /\ viewer' = viewer /\ shown' = shown
      /\ goroutine[a] = "loaded" /\ goroutine' = [goroutine EXCEPT ![a] = "select"]
      /\ latest' = [latest EXCEPT ![a] = report[a]] /\ chan' = Sent(a, report[a])
  BY DEF PublishReport, storeVars, writerVars, hubVars
<1>2. TypeOK /\ CountInv
  BY DEF HubInv
<1>3. /\ latest'[a] = report[a] /\ \A b \in Actors \ {a} : latest'[b] = latest[b]
      /\ goroutine'[a] = "select" /\ \A b \in Actors \ {a} : goroutine'[b] = goroutine[b]
      /\ report[a] \in Figures
  BY <1>1, <1>2 DEF TypeOK
<1>4. TypeOK'
  <2>1. latest' \in [Actors -> Figures \cup {NoSnap}]
    BY <1>1, <1>2 DEF TypeOK
  <2>2. goroutine' \in [Actors -> {"none", "loading", "loaded", "select", "gone"}]
    BY <1>1, <1>2 DEF TypeOK
  <2>3. chan' \in [Viewers -> Figures \cup {NoSnap}]
    BY <1>1, <1>2, <1>3 DEF TypeOK, Sent
  <2> QED BY <1>1, <1>2, <2>1, <2>2, <2>3 DEF TypeOK
<1>5. Accounting' = Accounting /\ \A b : Pending(b)' = Pending(b)
  BY <1>1, CountsStand
<1>6. CountInv'
  <2>1. \A b \in Actors : latest'[b] + credits[b] + Cardinality(Accounting) <= OldTokens + 2 * events
    BY <1>3, ActorFacts
  <2> QED BY <1>1, <1>2, <1>5, <2>1 DEF CountInv
<1>7. LossInv'
  BY <1>1, <1>3, <1>5 DEF HubInv, LossInv
<1>8. NewestSnapshotDelivered'
  <2> SUFFICES ASSUME NEW b \in Actors, NEW v \in subs[b], viewer[v] = "watching",
                      latest'[b] # NoSnap
               PROVE  \/ chan'[v] = latest'[b]
                      \/ chan'[v] = NoSnap /\ shown[v] = latest'[b]
    BY <1>1 DEF NewestSnapshotDelivered
  <2>1. v \in Viewers
    BY <1>2 DEF TypeOK
  <2>2. CASE b = a
    BY <1>1, <1>3, <2>1, <2>2 DEF Sent
  <2>3. CASE b # a
    <3>1. v \notin subs[a]
      BY <2>3 DEF HubInv, RaceInv, RetireIsRaceFree
    <3>2. chan'[v] = chan[v] /\ latest'[b] = latest[b]
      BY <1>1, <1>3, <2>1, <2>3, <3>1 DEF Sent
    <3> QED BY <3>2 DEF HubInv, NewestSnapshotDelivered
  <2> QED BY <2>2, <2>3
<1>9. RouteInv' /\ RaceInv'
  BY <1>1 DEF HubInv, RouteInv, RaceInv, RetireIsRaceFree
<1> QED BY <1>4, <1>6, <1>7, <1>8, <1>9 DEF HubInv

LEMMA TakeCreditKeeps ==
  ASSUME HubInv, NEW a \in Actors, TakeCredit(a)
  PROVE  HubInv'
<1>1. /\ stored' = stored /\ events' = events /\ midnights' = midnights /\ failures' = failures
      /\ writer' = writer /\ route' = route /\ keyActor' = keyActor /\ created' = created
      /\ subs' = subs /\ owner' = owner /\ done' = done /\ latest' = latest
      /\ viewer' = viewer /\ chan' = chan /\ shown' = shown /\ credits[a] > 0
      /\ goroutine[a] = "select" /\ goroutine' = [goroutine EXCEPT ![a] = "loaded"]
      /\ credits' = [credits EXCEPT ![a] = credits[a] - 1]
      /\ report' = [report EXCEPT ![a] = report[a] + 1]
  BY DEF TakeCredit, storeVars, writerVars, hubVars, viewerVars
<1>2. TypeOK /\ CountInv
  BY DEF HubInv
<1>3. /\ credits'[a] = credits[a] - 1 /\ report'[a] = report[a] + 1
      /\ \A b \in Actors \ {a} : /\ credits'[b] = credits[b] /\ report'[b] = report[b]
                                 /\ goroutine'[b] = goroutine[b]
  BY <1>1, <1>2 DEF TypeOK
<1>4. credits[a] - 1 \in 0..BufferSize /\ report[a] + 1 \in Figures
  BY <1>1, ActorFacts DEF Figures
<1>5. TypeOK'
  <2>1. credits' \in [Actors -> 0..BufferSize]
    BY <1>1, <1>2, <1>4 DEF TypeOK
  <2>2. report' \in [Actors -> Figures]
    BY <1>1, <1>2, <1>4 DEF TypeOK
  <2>3. goroutine' \in [Actors -> {"none", "loading", "loaded", "select", "gone"}]
    BY <1>1, <1>2 DEF TypeOK
  <2> QED BY <1>1, <1>2, <2>1, <2>2, <2>3 DEF TypeOK
<1>6. Accounting' = Accounting /\ \A b : Pending(b)' = Pending(b)
  BY <1>1, CountsStand
<1>7. CountInv'
  <2>1. ASSUME NEW b \in Actors
        PROVE  /\ credits'[b] + Cardinality(Accounting) <= events
               /\ report'[b] + credits'[b] + Cardinality(Accounting) <= OldTokens + 2 * events
               /\ latest[b] + credits'[b] + Cardinality(Accounting) <= OldTokens + 2 * events
    <3>1. CASE b = a
      BY <1>3, <3>1, ActorFacts
    <3>2. CASE b # a
      BY <1>3, <3>2, ActorFacts
    <3> QED BY <3>1, <3>2
  <2> QED BY <1>1, <1>2, <1>6, <2>1 DEF CountInv
<1>8. LossInv'
  <2> SUFFICES ASSUME BufferSize >= MaxEvents, NEW b \in Actors,
                      b = keyActor, owner[b] # {}, failures = 0, midnights = 0,
                      goroutine'[b] \in {"loaded", "select"}
               PROVE  report'[b] + credits'[b] + Cardinality(Pending(b)) >= stored
    BY <1>1, <1>6 DEF LossInv
  <2>1. goroutine[b] \in {"loaded", "select"}
    BY <1>1, <1>3
  <2>2. report[b] + credits[b] + Cardinality(Pending(b)) >= stored
    BY <2>1 DEF HubInv, LossInv
  <2>3. CASE b = a
    BY <1>3, <2>2, <2>3, ActorFacts, PendingCount
  <2>4. CASE b # a
    BY <1>3, <2>2, <2>4
  <2> QED BY <2>3, <2>4
<1>9. RouteInv' /\ RaceInv' /\ NewestSnapshotDelivered'
  BY <1>1 DEF HubInv, RouteInv, RaceInv, RetireIsRaceFree, NewestSnapshotDelivered
<1> QED BY <1>5, <1>7, <1>8, <1>9 DEF HubInv

\* The actor starts to read again, or ends.
LEMMA ResyncAndExitKeep ==
  ASSUME HubInv, NEW a \in Actors, Resync(a) \/ Exit(a)
  PROVE  HubInv'
<1>1. /\ stored' = stored /\ events' = events /\ midnights' = midnights /\ failures' = failures
      /\ writer' = writer /\ route' = route /\ keyActor' = keyActor /\ created' = created
      /\ subs' = subs /\ owner' = owner /\ done' = done /\ latest' = latest
      /\ credits' = credits /\ report' = report
      /\ viewer' = viewer /\ chan' = chan /\ shown' = shown
      /\ \E s \in {"loading", "gone"} : goroutine' = [goroutine EXCEPT ![a] = s]
  BY DEF Resync, Exit, storeVars, writerVars, hubVars, viewerVars
<1>2. TypeOK'
  BY <1>1 DEF HubInv, TypeOK
<1>3. Accounting' = Accounting /\ \A b : Pending(b)' = Pending(b)
  BY <1>1, CountsStand
<1>4. CountInv'
  BY <1>1, <1>3 DEF HubInv, CountInv
<1>5. \A b \in Actors : goroutine'[b] \in {"loaded", "select"} => goroutine'[b] = goroutine[b]
  BY <1>1 DEF HubInv, TypeOK
<1>6. LossInv'
  BY <1>1, <1>3, <1>5 DEF HubInv, LossInv
<1>7. RouteInv' /\ RaceInv' /\ NewestSnapshotDelivered'
  BY <1>1 DEF HubInv, RouteInv, RaceInv, RetireIsRaceFree, NewestSnapshotDelivered
<1> QED BY <1>2, <1>4, <1>6, <1>7 DEF HubInv

\* The day ends.
LEMMA MidnightKeeps ==
  ASSUME HubInv, Midnight
  PROVE  HubInv'
<1>1. /\ stored' = 0 /\ events' = events /\ midnights < MaxMidnights
      /\ midnights' = midnights + 1 /\ failures' = failures
      /\ writer' = writer /\ route' = route /\ keyActor' = keyActor /\ created' = created
      /\ subs' = subs /\ owner' = owner /\ done' = done /\ latest' = latest
      /\ credits' = credits /\ report' = report /\ goroutine' = goroutine
      /\ viewer' = viewer /\ chan' = chan /\ shown' = shown
  BY DEF Midnight, writerVars, hubVars, actorVars, viewerVars
<1>2. midnights \in Nat /\ MaxMidnights \in Nat /\ OldTokens \in Nat /\ events \in Nat
      /\ MaxEvents \in Nat
  BY HubAssumption DEF HubInv, TypeOK
<1>3. midnights' \in 0..MaxMidnights /\ midnights' # 0 /\ 0 \in 0..(OldTokens + MaxEvents)
  BY <1>1, <1>2
<1>4. TypeOK'
  BY <1>1, <1>3 DEF HubInv, TypeOK
<1>5. Accounting' = Accounting
  BY <1>1, CountsStand
<1>6. CountInv'
  BY <1>1, <1>2, <1>5 DEF HubInv, CountInv
<1>7. LossInv'
  BY <1>3 DEF LossInv
<1>8. RouteInv' /\ RaceInv' /\ NewestSnapshotDelivered'
  BY <1>1 DEF HubInv, RouteInv, RaceInv, RetireIsRaceFree, NewestSnapshotDelivered
<1> QED BY <1>4, <1>6, <1>7, <1>8 DEF HubInv

-----------------------------------------------------------------------------
(***************************************************************************)
(* Viewers.                                                                *)
(***************************************************************************)

\* Steps of viewers move no figure: counts stand, and so does what reports account
\* for, unless a report begins to be read or its context ends.
LEMMA FiguresStand ==
  ASSUME HubInv, UNCHANGED <<storeVars, writerVars, credits, report, latest>>,
         \A a \in Actors : a = keyActor' /\ owner'[a] # {} /\ goroutine'[a] \in {"loaded", "select"}
           => a = keyActor /\ owner[a] # {} /\ goroutine[a] = goroutine'[a]
  PROVE  CountInv' /\ LossInv' /\ RouteInv'
<1>1. /\ stored' = stored /\ events' = events /\ midnights' = midnights /\ failures' = failures
      /\ writer' = writer /\ route' = route /\ credits' = credits /\ report' = report
      /\ latest' = latest
  BY DEF storeVars, writerVars
<1>2. Accounting' = Accounting /\ \A b : Pending(b)' = Pending(b)
  BY <1>1, CountsStand
<1>3. CountInv' /\ RouteInv'
  BY <1>1, <1>2 DEF HubInv, CountInv, RouteInv
<1>4. LossInv'
  BY <1>1, <1>2 DEF HubInv, LossInv
<1> QED BY <1>3, <1>4

LEMMA SubscribeKeeps ==
  ASSUME HubInv, NEW v \in Viewers, Subscribe(v)
  PROVE  HubInv'
<1>1. /\ UNCHANGED <<storeVars, writerVars, credits, report, latest>>
      /\ done' = done /\ chan' = chan /\ shown' = shown /\ credits' = credits
      /\ report' = report /\ latest' = latest
      /\ viewer[v] = "away" /\ viewer' = [viewer EXCEPT ![v] = "joining"]
  BY DEF Subscribe
<1>2. TypeOK /\ RaceInv /\ RetireIsRaceFree /\ MaxActors \in Nat
  BY HubAssumption DEF HubInv, RaceInv
<1>3. \A x \in Viewers : viewer'[x] = "watching" => viewer[x] = "watching" /\ x # v
  BY <1>1, <1>2 DEF TypeOK
<1>4. CASE keyActor # NoActor /\ subs' = [subs EXCEPT ![keyActor] = @ \cup {v}]
           /\ UNCHANGED <<keyActor, created, goroutine, owner>>
  <2>1. keyActor \in Actors /\ keyActor' = keyActor /\ created' = created
        /\ goroutine' = goroutine /\ owner' = owner
    BY <1>2, <1>4 DEF TypeOK
  <2>2. /\ subs'[keyActor] = subs[keyActor] \cup {v}
        /\ \A a \in Actors \ {keyActor} : subs'[a] = subs[a]
    BY <1>2, <1>4, <2>1 DEF TypeOK
  <2>3. TypeOK'
    <3>1. subs' \in [Actors -> SUBSET Viewers]
      BY <1>2, <1>4, <2>1 DEF TypeOK
    <3>2. viewer' \in [Viewers -> {"away", "joining", "watching", "leaving"}]
      BY <1>1, <1>2 DEF TypeOK
    <3> QED BY <1>1, <1>2, <2>1, <3>1, <3>2 DEF TypeOK, storeVars, writerVars
  <2>4. CountInv' /\ LossInv' /\ RouteInv'
    BY <1>1, <2>1, FiguresStand
  <2>5. RaceInv'
    BY <1>1, <1>2, <2>1, <2>2 DEF RaceInv, RetireIsRaceFree
  <2>6. NewestSnapshotDelivered'
    <3> SUFFICES ASSUME NEW a \in Actors, NEW x \in subs'[a], viewer'[x] = "watching",
                        latest[a] # NoSnap
                 PROVE  \/ chan[x] = latest[a]
                        \/ chan[x] = NoSnap /\ shown[x] = latest[a]
      BY <1>1 DEF NewestSnapshotDelivered
    <3>1. x \in Viewers
      BY <2>3 DEF TypeOK
    <3>2. viewer[x] = "watching" /\ x # v
      BY <1>3, <3>1
    <3>3. x \in subs[a]
      BY <2>1, <2>2, <3>2
    <3> QED BY <3>2, <3>3 DEF HubInv, NewestSnapshotDelivered
  <2> QED BY <2>3, <2>4, <2>5, <2>6 DEF HubInv
<1>5. CASE /\ keyActor = NoActor /\ created < MaxActors /\ created' = created + 1
           /\ keyActor' = created + 1
           /\ goroutine' = [goroutine EXCEPT ![created + 1] = "loading"]
           /\ owner' = [owner EXCEPT ![created + 1] = {v}]
           /\ subs' = [subs EXCEPT ![created + 1] = {v}]
  <2> DEFINE n == created + 1
  <2>1. n \in Actors /\ created \in Nat /\ n \in 0..MaxActors
    BY <1>2, <1>5 DEF TypeOK, Actors
  <2>2. /\ subs'[n] = {v} /\ \A a \in Actors \ {n} : subs'[a] = subs[a]
        /\ goroutine'[n] = "loading" /\ \A a \in Actors \ {n} : goroutine'[a] = goroutine[a]
        /\ \A a \in Actors : subs[a] = {}
    <3>1. \A a \in Actors : a # NoActor
      BY DEF Actors, NoActor
    <3> QED BY <1>2, <1>5, <2>1, <3>1 DEF TypeOK, RetireIsRaceFree
  <2>3. TypeOK'
    <3>1. subs' \in [Actors -> SUBSET Viewers] /\ owner' \in [Actors -> SUBSET Viewers]
      BY <1>2, <1>5, <2>1 DEF TypeOK
    <3>2. goroutine' \in [Actors -> {"none", "loading", "loaded", "select", "gone"}]
      BY <1>2, <1>5, <2>1 DEF TypeOK
    <3>3. viewer' \in [Viewers -> {"away", "joining", "watching", "leaving"}]
      BY <1>1, <1>2 DEF TypeOK
    <3>4. keyActor' \in Actors \cup {NoActor} /\ created' \in 0..MaxActors
      BY <1>5, <2>1
    <3> QED BY <1>1, <1>2, <3>1, <3>2, <3>3, <3>4 DEF TypeOK, storeVars, writerVars
  <2>4. CountInv' /\ LossInv' /\ RouteInv'
    <3>1. \A a \in Actors : ~(a = keyActor' /\ goroutine'[a] \in {"loaded", "select"})
      BY <1>5, <2>2
    <3> QED BY <1>1, <3>1, FiguresStand
  <2>5. RaceInv'
    <3>1. ~done[n]
      BY <1>2, <2>1 DEF RaceInv
    <3>2. \A a \in 1..created : done[a]
      BY <1>2, <1>5 DEF RetireIsRaceFree, NoActor
    <3>3. \A a \in 1..created' : a # keyActor' => a \in 1..created
      BY <1>5, <2>1
    <3>4. \A a \in Actors : done[a] => a <= created'
      BY <1>2, <1>5, <2>1 DEF RaceInv, Actors
    <3>5. keyActor' \in 0..created' /\ keyActor' # NoActor
      BY <1>5, <2>1 DEF NoActor
    <3> QED BY <1>1, <1>5, <2>2, <3>1, <3>2, <3>3, <3>4, <3>5 DEF RaceInv, RetireIsRaceFree
  <2>6. NewestSnapshotDelivered'
    <3>1. \A a \in Actors : \A x \in subs'[a] : x = v
      BY <2>2
    <3> QED BY <1>1, <1>3, <3>1 DEF NewestSnapshotDelivered
  <2> QED BY <2>3, <2>4, <2>5, <2>6 DEF HubInv
<1> QED BY <1>4, <1>5 DEF Subscribe

LEMMA PrimeKeeps ==
  ASSUME HubInv, NEW v \in Viewers, Prime(v)
  PROVE  HubInv'
<1>1. /\ UNCHANGED <<storeVars, writerVars, credits, report, latest>>
      /\ keyActor' = keyActor /\ created' = created /\ subs' = subs /\ goroutine' = goroutine
      /\ owner' = owner /\ done' = done /\ credits' = credits /\ report' = report
      /\ latest' = latest /\ shown' = shown
      /\ viewer' = [viewer EXCEPT ![v] = "watching"]
  BY DEF Prime, hubVars, actorVars
<1>2. PICK a \in Actors :
        v \in subs[a] /\ chan' = IF latest[a] = NoSnap THEN chan ELSE [chan EXCEPT ![v] = latest[a]]
  BY DEF Prime
<1>3. TypeOK /\ RetireIsRaceFree
  BY DEF HubInv, RaceInv
<1>4. /\ \A x \in Viewers \ {v} : chan'[x] = chan[x] /\ viewer'[x] = viewer[x]
      /\ latest[a] # NoSnap => chan'[v] = latest[a]
  BY <1>1, <1>2, <1>3 DEF TypeOK
<1>5. TypeOK'
  <2>1. chan' \in [Viewers -> Figures \cup {NoSnap}]
    BY <1>2, <1>3 DEF TypeOK
  <2>2. viewer' \in [Viewers -> {"away", "joining", "watching", "leaving"}]
    BY <1>1, <1>3 DEF TypeOK
  <2> QED BY <1>1, <1>3, <2>1, <2>2 DEF TypeOK, storeVars, writerVars
<1>6. CountInv' /\ LossInv' /\ RouteInv'
  BY <1>1, FiguresStand
<1>7. RaceInv'
  BY <1>1 DEF HubInv, RaceInv, RetireIsRaceFree
<1>8. NewestSnapshotDelivered'
  <2> SUFFICES ASSUME NEW b \in Actors, NEW x \in subs[b], viewer'[x] = "watching",
                      latest[b] # NoSnap
               PROVE  \/ chan'[x] = latest[b]
                      \/ chan'[x] = NoSnap /\ shown[x] = latest[b]
    BY <1>1 DEF NewestSnapshotDelivered
  <2>1. CASE x = v
    <3>1. b = a
      BY <1>2, <1>3, <2>1 DEF RetireIsRaceFree
    <3> QED BY <1>4, <2>1, <3>1
  <2>2. CASE x # v
    <3>1. x \in Viewers
      BY <1>3 DEF TypeOK
    <3> QED BY <1>4, <2>2, <3>1 DEF HubInv, NewestSnapshotDelivered
  <2> QED BY <2>1, <2>2
<1> QED BY <1>5, <1>6, <1>7, <1>8 DEF HubInv

LEMMA ReceiveKeeps ==
  ASSUME HubInv, NEW v \in Viewers, Receive(v)
  PROVE  HubInv'
<1>1. /\ UNCHANGED <<storeVars, writerVars, credits, report, latest>>
      /\ keyActor' = keyActor /\ created' = created /\ subs' = subs /\ goroutine' = goroutine
      /\ owner' = owner /\ done' = done /\ credits' = credits /\ report' = report
      /\ latest' = latest /\ viewer' = viewer /\ chan[v] # NoSnap
      /\ shown' = [shown EXCEPT ![v] = chan[v]] /\ chan' = [chan EXCEPT ![v] = NoSnap]
  BY DEF Receive, hubVars, actorVars
<1>2. TypeOK
  BY DEF HubInv
<1>3. /\ chan'[v] = NoSnap /\ shown'[v] = chan[v]
      /\ \A x \in Viewers \ {v} : chan'[x] = chan[x] /\ shown'[x] = shown[x]
  BY <1>1, <1>2 DEF TypeOK
<1>4. TypeOK'
  <2>1. chan' \in [Viewers -> Figures \cup {NoSnap}]
        /\ shown' \in [Viewers -> Figures \cup {NoSnap}]
    BY <1>1, <1>2 DEF TypeOK
  <2> QED BY <1>1, <1>2, <2>1 DEF TypeOK, storeVars, writerVars
<1>5. CountInv' /\ LossInv' /\ RouteInv'
  BY <1>1, FiguresStand
<1>6. RaceInv'
  BY <1>1 DEF HubInv, RaceInv, RetireIsRaceFree
<1>7. NewestSnapshotDelivered'
  <2> SUFFICES ASSUME NEW b \in Actors, NEW x \in subs[b], viewer[x] = "watching",
                      latest[b] # NoSnap
               PROVE  \/ chan'[x] = latest[b]
                      \/ chan'[x] = NoSnap /\ shown'[x] = latest[b]
    BY <1>1 DEF NewestSnapshotDelivered
  <2>1. /\ x \in Viewers
        /\ \/ chan[x] = latest[b]
           \/ chan[x] = NoSnap /\ shown[x] = latest[b]
    BY <1>2 DEF TypeOK, HubInv, NewestSnapshotDelivered
  <2> QED BY <1>1, <1>3, <2>1
<1> QED BY <1>4, <1>5, <1>6, <1>7 DEF HubInv

LEMMA HangUpKeeps ==
  ASSUME HubInv, NEW v \in Viewers, HangUp(v)
  PROVE  HubInv'
<1>1. /\ UNCHANGED <<storeVars, writerVars, credits, report, latest>>
      /\ keyActor' = keyActor /\ created' = created /\ subs' = subs /\ goroutine' = goroutine
      /\ done' = done /\ credits' = credits /\ report' = report
      /\ latest' = latest /\ chan' = chan /\ shown' = shown
      /\ viewer' = [viewer EXCEPT ![v] = "leaving"] /\ owner' = ContextsWithout(v)
  BY DEF HangUp, hubVars
<1>2. TypeOK
  BY DEF HubInv
<1>3. \A a \in Actors : owner'[a] = owner[a] \ {v}
  BY <1>1 DEF ContextsWithout
<1>4. TypeOK'
  <2>1. owner' \in [Actors -> SUBSET Viewers]
    BY <1>1, <1>2 DEF TypeOK, ContextsWithout
  <2>2. viewer' \in [Viewers -> {"away", "joining", "watching", "leaving"}]
    BY <1>1, <1>2 DEF TypeOK
  <2> QED BY <1>1, <1>2, <2>1, <2>2 DEF TypeOK, storeVars, writerVars
<1>5. CountInv' /\ LossInv' /\ RouteInv'
  BY <1>1, <1>3, FiguresStand
<1>6. RaceInv'
  BY <1>1 DEF HubInv, RaceInv, RetireIsRaceFree
<1>7. NewestSnapshotDelivered'
  <2>1. \A x \in Viewers : viewer'[x] = "watching" => viewer[x] = "watching"
    BY <1>1, <1>2 DEF TypeOK
  <2>2. \A a \in Actors : subs[a] \subseteq Viewers
    BY <1>2 DEF TypeOK
  <2> QED BY <1>1, <2>1, <2>2 DEF HubInv, NewestSnapshotDelivered
<1> QED BY <1>4, <1>5, <1>6, <1>7 DEF HubInv

LEMMA LeavingKeeps ==
  ASSUME HubInv, NEW v \in Viewers, Unsubscribe(v)
  PROVE  HubInv'
<1> DEFINE k == keyActor
           last == subs[k] \ {v} = {}
<1>1. /\ UNCHANGED <<storeVars, writerVars, credits, report, latest>>
      /\ created' = created /\ goroutine' = goroutine /\ credits' = credits
      /\ report' = report /\ latest' = latest /\ k # NoActor
      /\ viewer' = [viewer EXCEPT ![v] = "away"] /\ owner' = ContextsWithout(v)
      /\ chan' = [chan EXCEPT ![v] = NoSnap] /\ shown' = [shown EXCEPT ![v] = NoSnap]
      /\ subs' = [subs EXCEPT ![k] = subs[k] \ {v}]
      /\ keyActor' = (IF last THEN NoActor ELSE k)
      /\ done' = (IF last THEN [done EXCEPT ![k] = TRUE] ELSE done)
  BY DEF Unsubscribe
<1>2. TypeOK /\ RaceInv /\ RetireIsRaceFree /\ k \in Actors
  BY <1>1 DEF HubInv, RaceInv, TypeOK
<1>3. /\ subs'[k] = subs[k] \ {v} /\ \A a \in Actors \ {k} : subs'[a] = subs[a] /\ subs[a] = {}
      /\ \A a \in Actors : owner'[a] = owner[a] \ {v}
  BY <1>1, <1>2 DEF TypeOK, RetireIsRaceFree, ContextsWithout
<1>4. TypeOK'
  <2>1. owner' \in [Actors -> SUBSET Viewers] /\ subs' \in [Actors -> SUBSET Viewers]
    BY <1>1, <1>2 DEF TypeOK, ContextsWithout
  <2>2. viewer' \in [Viewers -> {"away", "joining", "watching", "leaving"}]
    BY <1>1, <1>2 DEF TypeOK
  <2>3. chan' \in [Viewers -> Figures \cup {NoSnap}]
        /\ shown' \in [Viewers -> Figures \cup {NoSnap}]
    BY <1>1, <1>2 DEF TypeOK
  <2>4. done' \in [Actors -> BOOLEAN] /\ keyActor' \in Actors \cup {NoActor}
    BY <1>1, <1>2 DEF TypeOK
  <2> QED BY <1>1, <1>2, <2>1, <2>2, <2>3, <2>4 DEF TypeOK, storeVars, writerVars
<1>5. CountInv' /\ LossInv' /\ RouteInv'
  <2>1. \A a \in Actors : a # NoActor
    BY DEF Actors, NoActor
  <2> QED BY <1>1, <1>3, <2>1, FiguresStand
<1>6. RaceInv'
  <2>1. CASE last
    <3>1. done'[k] = TRUE /\ \A a \in Actors \ {k} : done'[a] = done[a]
      BY <1>1, <1>2, <2>1 DEF TypeOK
    <3>2. keyActor' = NoActor /\ \A a \in Actors : subs'[a] = {}
      BY <1>1, <1>3, <2>1
    <3>3. k <= created /\ 1..created \subseteq Actors /\ created \in Nat
      <4>1. created \in Nat /\ created <= MaxActors /\ MaxActors \in Nat /\ k \in 0..created
        BY <1>2, HubAssumption DEF RaceInv, TypeOK
      <4> HIDE DEF k
      <4> QED BY <4>1 DEF Actors
    <3>4. \A a \in 1..created : done'[a]
      BY <1>2, <3>1, <3>3 DEF RetireIsRaceFree
    <3>5. \A a \in Actors : done'[a] => a <= created
      BY <1>2, <3>1, <3>3 DEF RaceInv
    <3> QED BY <1>1, <3>2, <3>3, <3>4, <3>5 DEF RaceInv, RetireIsRaceFree, NoActor
  <2>2. CASE ~last
    BY <1>1, <1>2, <1>3, <2>2 DEF RaceInv, RetireIsRaceFree
  <2> QED BY <2>1, <2>2
<1>7. NewestSnapshotDelivered'
  <2> SUFFICES ASSUME NEW a \in Actors, NEW x \in subs'[a], viewer'[x] = "watching",
                      latest[a] # NoSnap
               PROVE  \/ chan'[x] = latest[a]
                      \/ chan'[x] = NoSnap /\ shown'[x] = latest[a]
    BY <1>1 DEF NewestSnapshotDelivered
  <2>1. x \in Viewers /\ x \in subs[a]
    BY <1>2, <1>3, <1>4 DEF TypeOK
  <2>2. x # v
    BY <1>1, <1>2, <2>1 DEF TypeOK
  <2>3. viewer[x] = "watching" /\ chan'[x] = chan[x] /\ shown'[x] = shown[x]
    BY <1>1, <1>2, <2>1, <2>2 DEF TypeOK
  <2> QED BY <2>1, <2>3 DEF HubInv, NewestSnapshotDelivered
<1> QED BY <1>4, <1>5, <1>6, <1>7 DEF HubInv

-----------------------------------------------------------------------------
(***************************************************************************)
(* Every behaviour.                                                        *)
(***************************************************************************)

\* The gateway starts with nobody watching.
LEMMA HubInitInv ==
  ASSUME Init
  PROVE  HubInv
<1>1. /\ stored = OldTokens /\ events = 0 /\ failures = 0 /\ midnights = 0
      /\ writer = [w \in Writers |-> "idle"] /\ route = [w \in Writers |-> NoActor]
      /\ keyActor = NoActor /\ created = 0 /\ goroutine = [a \in Actors |-> "none"]
      /\ owner = [a \in Actors |-> {}] /\ done = [a \in Actors |-> FALSE]
      /\ credits = [a \in Actors |-> 0] /\ report = [a \in Actors |-> 0]
      /\ latest = [a \in Actors |-> NoSnap] /\ subs = [a \in Actors |-> {}]
      /\ viewer = [v \in Viewers |-> "away"] /\ chan = [v \in Viewers |-> NoSnap]
      /\ shown = [v \in Viewers |-> NoSnap]
  BY DEF Init
<1>2. /\ OldTokens \in Nat /\ MaxEvents \in Nat /\ BufferSize \in Nat /\ MaxFailures \in Nat
      /\ MaxMidnights \in Nat /\ MaxActors \in Nat
  BY HubAssumption
<1>3. TypeOK
  <2>1. 0 \in Figures
    BY <1>2 DEF Figures
  <2> QED BY <1>1, <1>2, <2>1 DEF TypeOK
<1>4. Cardinality(Accounting) = 0
  <2>1. Accounting = {}
    BY <1>1 DEF Accounting
  <2> QED BY <2>1, FS_EmptySet
<1>5. CountInv
  BY <1>1, <1>2, <1>4 DEF CountInv, NoSnap
<1>6. RaceInv
  BY <1>1 DEF RaceInv, RetireIsRaceFree, NoActor, Actors
<1> QED BY <1>1, <1>3, <1>5, <1>6 DEF HubInv, RouteInv, NewestSnapshotDelivered, LossInv

LEMMA HubNextInv ==
  ASSUME HubInv, [Next]_vars
  PROVE  HubInv'
<1>1. ASSUME NEW w \in Writers, WriterStep(w) PROVE HubInv'
  BY <1>1, PersistKeeps, LookupKeeps, CreditKeeps DEF WriterStep
<1>2. ASSUME NEW a \in Actors, ActorStep(a) PROVE HubInv'
  BY <1>2, ReloadKeeps, PublishReportKeeps, TakeCreditKeeps, ResyncAndExitKeep DEF ActorStep
<1>3. ASSUME NEW v \in Viewers, ViewerStep(v) PROVE HubInv'
  BY <1>3, SubscribeKeeps, PrimeKeeps, ReceiveKeeps, HangUpKeeps, LeavingKeeps DEF ViewerStep
<1>4. CASE UNCHANGED vars
  <2>1. /\ stored' = stored /\ events' = events /\ midnights' = midnights
        /\ failures' = failures /\ writer' = writer /\ route' = route
        /\ keyActor' = keyActor /\ created' = created /\ subs' = subs /\ owner' = owner
        /\ done' = done /\ latest' = latest /\ credits' = credits /\ report' = report
        /\ goroutine' = goroutine /\ viewer' = viewer /\ chan' = chan /\ shown' = shown
    BY <1>4 DEF vars, storeVars, writerVars, hubVars, actorVars, viewerVars
  <2>2. Accounting' = Accounting /\ \A b : Pending(b)' = Pending(b)
    BY <2>1, CountsStand
  <2>3. TypeOK' /\ RouteInv' /\ RaceInv'
    BY <2>1 DEF HubInv, TypeOK, RouteInv, RaceInv, RetireIsRaceFree
  <2>4. CountInv' /\ NewestSnapshotDelivered' /\ LossInv'
    BY <2>1, <2>2 DEF HubInv, CountInv, NewestSnapshotDelivered, LossInv
  <2> QED BY <2>3, <2>4 DEF HubInv
<1> QED BY <1>1, <1>2, <1>3, <1>4, MidnightKeeps DEF Next

LEMMA HubInvariant == Spec => []HubInv
<1>1. Init => HubInv
  BY HubInitInv
<1>2. HubInv /\ [Next]_vars => HubInv'
  BY HubNextInv
<1> QED BY <1>1, <1>2, PTL DEF Spec

\* No credits channel overflows, and neither a report nor a screen ever counts a
\* recorded call more than twice: once as loaded and once as a credit.
THEOREM HubTypeCorrect == Spec => []TypeOK
<1>1. HubInv => TypeOK
  BY DEF HubInv
<1> QED BY <1>1, HubInvariant, PTL

\* Subscribing and retiring under the hub's lock: nobody is left with an actor that
\* has been told to stop, and no actor is left without anybody.
THEOREM RetiringIsRaceFree == Spec => []RetireIsRaceFree
<1>1. HubInv => RetireIsRaceFree
  BY DEF HubInv, RaceInv
<1> QED BY <1>1, HubInvariant, PTL

\* Sends that never block, priming and receiving, in any order, leave every watching
\* viewer with the newest snapshot, received or about to be.
THEOREM NewestIsDelivered == Spec => []NewestSnapshotDelivered
<1>1. HubInv => NewestSnapshotDelivered
  BY DEF HubInv
<1> QED BY <1>1, HubInvariant, PTL

\* Persist, then tell the hub: as long as the credits channel has room, no recorded
\* call is missing from what the actor in the map has, will get or will be sent.
THEOREM NoCallIsMissed ==
  ASSUME BufferSize >= MaxEvents
  PROVE  Spec => []NoCallMissed
<1>1. HubInv => NoCallMissed
  <2> SUFFICES ASSUME HubInv, NEW a \in Actors,
                      a = keyActor, owner[a] # {}, failures = 0, midnights = 0,
                      goroutine[a] \in {"loaded", "select"}
               PROVE  report[a] + credits[a] + Cardinality(Accounting) >= stored
    BY DEF NoCallMissed, Accounting
  <2>1. report[a] + credits[a] + Cardinality(Pending(a)) >= stored
    BY DEF HubInv, LossInv
  <2> QED BY <2>1, ActorFacts, PendingCount
<1> QED BY <1>1, HubInvariant, PTL
-----------------------------------------------------------------------------
(***************************************************************************)
(* How far a screen can be above the store.  Until the first midnight, what *)
(* a report holds, what is on its way to it and what was sent from it all   *)
(* stay under one ceiling.                                                 *)
(***************************************************************************)
Ceiling == stored + BufferSize + Cardinality(Writers)

ActorsUnder == \A a \in Actors :
  /\ report[a] + credits[a] + Cardinality(Accounting) <= Ceiling
  /\ latest[a] + credits[a] + Cardinality(Accounting) <= Ceiling

ViewersUnder == \A v \in Viewers : chan[v] <= Ceiling /\ shown[v] <= Ceiling

ExcessInv == midnights = 0 => ActorsUnder /\ ViewersUnder

\* The numbers the ceiling is made of.
LEMMA CeilingFacts ==
  ASSUME HubInv
  PROVE  /\ Ceiling \in Nat /\ stored \in Nat /\ BufferSize \in Nat
         /\ Cardinality(Writers) \in Nat /\ Ceiling = stored + BufferSize + Cardinality(Writers)
         /\ Cardinality(Accounting) \in Nat
         /\ Cardinality(Accounting) <= Cardinality(Writers)
         /\ \A v \in Viewers : chan[v] \in Int /\ shown[v] \in Int
<1>1. stored \in Nat /\ BufferSize \in Nat /\ IsFiniteSet(Writers)
  BY HubAssumption DEF HubInv, TypeOK
<1>2. Cardinality(Writers) \in Nat /\ Cardinality(Accounting) \in Nat
  BY <1>1, FS_CardinalityType, PendingCount
<1>3. Cardinality(Accounting) <= Cardinality(Writers)
  <2>1. Accounting \subseteq Writers
    BY DEF Accounting
  <2> QED BY <1>1, <2>1, FS_Subset
<1>4. \A v \in Viewers : chan[v] \in Int /\ shown[v] \in Int
  <2>1. Figures \cup {NoSnap} \subseteq Int
    BY DEF Figures, NoSnap
  <2>2. /\ chan \in [Viewers -> Figures \cup {NoSnap}]
        /\ shown \in [Viewers -> Figures \cup {NoSnap}]
    BY DEF HubInv, TypeOK
  <2> QED BY <2>1, <2>2
<1>5. Ceiling \in Nat
  BY <1>1, <1>2 DEF Ceiling
<1> QED BY <1>1, <1>2, <1>3, <1>4, <1>5 DEF Ceiling

\* The write side: a call that is recorded raises the store's figure and is on its
\* way; a credit that is sent or dropped is on its way no longer.
LEMMA WritersStayUnder ==
  ASSUME HubInv, HubInv', ActorsUnder, ViewersUnder, NEW w \in Writers, WriterStep(w)
  PROVE  ActorsUnder' /\ ViewersUnder'
<1>1. report' = report /\ latest' = latest /\ chan' = chan /\ shown' = shown
  BY DEF WriterStep, Persist, Lookup, Credit, actorVars, viewerVars
<1>2. Accounting \in SUBSET Writers /\ Accounting' \in SUBSET Writers
  BY DEF Accounting
<1>3. writer \in [Writers -> {"idle", "stored", "routed"}]
  BY DEF HubInv, TypeOK
<1>4. CASE Persist(w)
  <2>1. stored' = stored + 1 /\ credits' = credits /\ Accounting' = Accounting \cup {w}
        /\ w \in Writers \ Accounting
    BY <1>3, <1>4 DEF Persist, actorVars, Accounting
  <2>2. Cardinality(Accounting') = Cardinality(Accounting) + 1
    BY <1>2, <2>1, WritersCount
  <2>3. Ceiling' = Ceiling + 1
    BY <2>1, CeilingFacts DEF Ceiling
  <2>4. ActorsUnder'
    BY <1>1, <2>1, <2>2, <2>3, ActorFacts, CeilingFacts DEF ActorsUnder
  <2>5. ViewersUnder'
    BY <1>1, <2>3, CeilingFacts DEF ViewersUnder
  <2> QED BY <2>4, <2>5
<1>5. CASE Lookup(w)
  <2>1. stored' = stored /\ credits' = credits /\ Accounting' \in SUBSET Accounting
    BY <1>3, <1>5 DEF Lookup, storeVars, actorVars, Accounting
  <2>2. Cardinality(Accounting') <= Cardinality(Accounting)
        /\ Cardinality(Accounting') \in Nat
    BY <1>2, <2>1, WritersCount, FS_Subset
  <2>3. Ceiling' = Ceiling
    BY <2>1 DEF Ceiling
  <2>4. ActorsUnder'
    BY <1>1, <2>1, <2>2, <2>3, ActorFacts, CeilingFacts DEF ActorsUnder
  <2>5. ViewersUnder'
    BY <1>1, <2>3 DEF ViewersUnder
  <2> QED BY <2>4, <2>5
<1>6. CASE Credit(w)
  <2>1. stored' = stored /\ Accounting' = Accounting \ {w} /\ w \in Accounting
    BY <1>3, <1>6 DEF Credit, storeVars, Accounting
  <2>2. Cardinality(Accounting') = Cardinality(Accounting) - 1
    BY <1>2, <2>1, WritersCount
  <2>3. \A a \in Actors : credits'[a] \in Int /\ credits'[a] <= credits[a] + 1
    BY <1>6, ActorFacts DEF Credit, Credited, HubInv, TypeOK
  <2>4. Ceiling' = Ceiling
    BY <2>1 DEF Ceiling
  <2>5. ActorsUnder'
    BY <1>1, <2>2, <2>3, <2>4, ActorFacts, CeilingFacts DEF ActorsUnder
  <2>6. ViewersUnder'
    BY <1>1, <2>4 DEF ViewersUnder
  <2> QED BY <2>5, <2>6
<1> QED BY <1>4, <1>5, <1>6 DEF WriterStep

\* The actor: a read starts the report afresh, a credit moves from the channel into
\* it, and what is published is what it holds.
LEMMA ActorStaysUnder ==
  ASSUME HubInv, ActorsUnder, ViewersUnder, NEW a \in Actors, ActorStep(a)
  PROVE  ActorsUnder' /\ ViewersUnder'
<1>1. stored' = stored /\ writer' = writer /\ shown' = shown
  BY DEF ActorStep, Reload, PublishReport, TakeCredit, Resync, Exit, storeVars,
         writerVars, viewerVars
<1>2. Accounting' = Accounting /\ Ceiling' = Ceiling
  BY <1>1 DEF Accounting, Ceiling
<1>3. TypeOK
  BY DEF HubInv
<1>4. CASE Reload(a)
  <2>1. credits' = credits /\ latest' = latest /\ chan' = chan
    BY <1>4 DEF Reload, viewerVars
  <2>2. /\ report'[a] \in {stored, 0, latest[a]}
        /\ \A b \in Actors \ {a} : report'[b] = report[b]
    BY <1>3, <1>4 DEF Reload, Loaded, TypeOK
  <2>3. report'[a] + credits[a] + Cardinality(Accounting) <= Ceiling
    BY <2>2, ActorFacts, CeilingFacts DEF ActorsUnder
  <2>4. ActorsUnder'
    BY <1>2, <2>1, <2>2, <2>3 DEF ActorsUnder
  <2> QED BY <1>1, <1>2, <2>1, <2>4 DEF ViewersUnder
<1>5. CASE PublishReport(a)
  <2>1. credits' = credits /\ report' = report /\ chan' = Sent(a, report[a])
        /\ latest' = [latest EXCEPT ![a] = report[a]]
    BY <1>5 DEF PublishReport
  <2>2. report[a] <= Ceiling
    BY ActorFacts, CeilingFacts DEF ActorsUnder
  <2>3. ActorsUnder'
    BY <1>2, <1>3, <2>1 DEF ActorsUnder, TypeOK
  <2>4. ViewersUnder'
    BY <1>1, <1>2, <2>1, <2>2 DEF ViewersUnder, Sent
  <2> QED BY <2>3, <2>4
<1>6. CASE TakeCredit(a)
  <2>1. latest' = latest /\ chan' = chan
    BY <1>6 DEF TakeCredit, viewerVars
  <2>2. /\ credits'[a] = credits[a] - 1 /\ report'[a] = report[a] + 1
        /\ \A b \in Actors \ {a} : credits'[b] = credits[b] /\ report'[b] = report[b]
    BY <1>3, <1>6 DEF TakeCredit, TypeOK
  <2>3. ASSUME NEW b \in Actors
        PROVE  /\ report'[b] + credits'[b] + Cardinality(Accounting) <= Ceiling
               /\ latest[b] + credits'[b] + Cardinality(Accounting) <= Ceiling
    <3>1. /\ report[b] + credits[b] + Cardinality(Accounting) <= Ceiling
          /\ latest[b] + credits[b] + Cardinality(Accounting) <= Ceiling
      BY DEF ActorsUnder
    <3>2. CASE b = a
      BY <2>2, <3>1, <3>2, ActorFacts, CeilingFacts
    <3>3. CASE b # a
      BY <2>2, <3>1, <3>3
    <3> QED BY <3>2, <3>3
  <2>4. ActorsUnder'
    BY <1>2, <2>1, <2>3 DEF ActorsUnder
  <2> QED BY <1>1, <1>2, <2>1, <2>4 DEF ViewersUnder
<1>7. CASE Resync(a) \/ Exit(a)
  BY <1>1, <1>2, <1>7 DEF Resync, Exit, viewerVars, ActorsUnder, ViewersUnder
<1> QED BY <1>4, <1>5, <1>6, <1>7 DEF ActorStep

\* Viewers are primed with what was published and see what was sent.
LEMMA ViewersStayUnder ==
  ASSUME HubInv, ActorsUnder, ViewersUnder, NEW v \in Viewers, ViewerStep(v)
  PROVE  ActorsUnder' /\ ViewersUnder'
<1>1. /\ stored' = stored /\ writer' = writer /\ report' = report /\ latest' = latest
      /\ credits' = credits
  BY DEF ViewerStep, Subscribe, Prime, Receive, HangUp, Unsubscribe, storeVars,
         writerVars, actorVars
<1>2. ActorsUnder' /\ Ceiling' = Ceiling
  BY <1>1 DEF ActorsUnder, Accounting, Ceiling
<1>3. /\ chan \in [Viewers -> Figures \cup {NoSnap}]
      /\ shown \in [Viewers -> Figures \cup {NoSnap}] /\ NoSnap <= Ceiling
  BY CeilingFacts DEF HubInv, TypeOK, NoSnap
<1>4. CASE Prime(v)
  <2>1. PICK a \in Actors :
          chan' = IF latest[a] = NoSnap THEN chan ELSE [chan EXCEPT ![v] = latest[a]]
    BY <1>4 DEF Prime
  <2>2. latest[a] <= Ceiling
    BY ActorFacts, CeilingFacts DEF ActorsUnder
  <2>3. shown' = shown
    BY <1>4 DEF Prime
  <2> QED BY <1>2, <1>3, <2>1, <2>2, <2>3 DEF ViewersUnder
<1>5. CASE Receive(v) \/ Unsubscribe(v)
  <2>1. /\ chan' = [chan EXCEPT ![v] = NoSnap]
        /\ shown' \in {[shown EXCEPT ![v] = chan[v]], [shown EXCEPT ![v] = NoSnap]}
    BY <1>5 DEF Receive, Unsubscribe
  <2> QED BY <1>2, <1>3, <2>1 DEF ViewersUnder
<1>6. CASE Subscribe(v) \/ HangUp(v)
  <2>1. chan' = chan /\ shown' = shown
    BY <1>6 DEF Subscribe, HangUp
  <2> QED BY <1>2, <2>1 DEF ViewersUnder
<1> QED BY <1>4, <1>5, <1>6 DEF ViewerStep

LEMMA ExcessStep ==
  ASSUME HubInv, HubInv', ExcessInv, [Next]_vars
  PROVE  ExcessInv'
<1> SUFFICES ASSUME midnights' = 0 PROVE ActorsUnder' /\ ViewersUnder'
  BY DEF ExcessInv
<1>1. CASE Midnight
  <2>1. midnights \in Nat /\ midnights' = midnights + 1
    BY <1>1 DEF Midnight, HubInv, TypeOK
  <2> QED BY <2>1
<1>2. CASE \E w \in Writers : WriterStep(w)
  <2>1. midnights = 0
    BY <1>2 DEF WriterStep, Persist, Lookup, Credit, storeVars
  <2> QED BY <1>2, <2>1, WritersStayUnder DEF ExcessInv
<1>3. CASE \E a \in Actors : ActorStep(a)
  <2>1. midnights = 0
    BY <1>3 DEF ActorStep, Reload, PublishReport, TakeCredit, Resync, Exit, storeVars
  <2> QED BY <1>3, <2>1, ActorStaysUnder DEF ExcessInv
<1>4. CASE \E v \in Viewers : ViewerStep(v)
  <2>1. midnights = 0
    BY <1>4 DEF ViewerStep, Subscribe, Prime, Receive, HangUp, Unsubscribe, storeVars
  <2> QED BY <1>4, <2>1, ViewersStayUnder DEF ExcessInv
<1>5. CASE UNCHANGED vars
  <2>1. /\ stored' = stored /\ midnights' = midnights /\ writer' = writer
        /\ latest' = latest /\ credits' = credits /\ report' = report
        /\ chan' = chan /\ shown' = shown
    BY <1>5 DEF vars, storeVars, writerVars, actorVars, viewerVars
  <2> QED BY <2>1 DEF ExcessInv, ActorsUnder, ViewersUnder, Ceiling, Accounting
<1> QED BY <1>1, <1>2, <1>3, <1>4, <1>5 DEF Next

\* A call may be counted twice, loaded and credited, but the excess never adds up:
\* for any number of calls, reloads, failed reads, viewers and actors, a screen is
\* above the store's figure by at most one full channel and one call per writer.
THEOREM ExcessIsBounded == Spec => []ExcessBounded
<1>1. Init => ExcessInv
  <2> SUFFICES ASSUME Init PROVE ActorsUnder /\ ViewersUnder
    BY DEF ExcessInv
  <2>1. HubInv
    BY HubInitInv
  <2>2. Cardinality(Accounting) = 0
    <3>1. Accounting = {}
      BY DEF Init, Accounting
    <3> QED BY <3>1, FS_EmptySet
  <2> QED BY <2>1, <2>2, CeilingFacts DEF Init, ActorsUnder, ViewersUnder, NoSnap
<1>2. HubInv /\ HubInv' /\ ExcessInv /\ [Next]_vars => ExcessInv'
  BY ExcessStep
<1>3. ExcessInv => ExcessBounded
  BY DEF ExcessInv, ViewersUnder, ExcessBounded, Ceiling
<1> QED BY <1>1, <1>2, <1>3, HubInvariant, PTL DEF Spec
=============================================================================
