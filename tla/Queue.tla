------------------------------- MODULE Queue -------------------------------
(***************************************************************************)
(* internal/queue: the priority admission gate in front of the Ollama      *)
(* pool.  Every critical section of the Go code (everything between        *)
(* q.mu.Lock and q.mu.Unlock) is one action; a request is parked in the    *)
(* select of Acquire between two of them.                                  *)
(*                                                                         *)
(* Time.  The code compares two `since` stamps with each other and one     *)
(* with the clock, nothing else, so the model keeps age[r] = now - since   *)
(* and no clock: a.since.Before(b.since) is age[a] > age[b], and           *)
(* now.Sub(w.since) >= promoteAfter is age[w] >= PromoteAfter.             *)
(***************************************************************************)
EXTENDS Integers, FiniteSets, Sequences, SequencesExt

CONSTANTS
  Requests,      \* callers of Acquire: in-flight HTTP requests
  Priorities,    \* the ranks keys may carry (apikey.ValidPriority)
  Capacity,      \* q.capacity
  PromoteAfter,  \* q.promoteAfter, in ticks
  MaxAge,        \* bound of the model: no waiter grows older than this
  Watchers,      \* callers of Watch: dashboard streams
  CounterMod     \* modulus of the lifetime counters: 2^64 in the code

\* New panics on a capacity or a promotion window that is not positive, and
\* config.validate refuses to start with one.
ASSUME QueueAssumption ==
  /\ IsFiniteSet(Requests)
  /\ Priorities \subseteq Int
  /\ Capacity \in Nat \ {0}
  /\ PromoteAfter \in Nat \ {0}
  /\ MaxAge \in Nat /\ MaxAge > PromoteAfter
  /\ CounterMod \in Nat \ {0}

VARIABLES
  stage,         \* where each request stands in Acquire and Release
  age,           \* now - waiter.since while the request is queued
  promotedBy,    \* waiter.promoted: the grant was a promotion
  free,          \* q.free: unclaimed slots
  classes,       \* q.classes: FIFO per priority, <<>> when the key is absent;
                 \* waiter.priority is the class the waiter is linked in
  waiting,       \* q.waiting
  justPromoted,  \* q.justPromoted
  watchers,      \* q.watchers
  signalled,     \* watchers whose one-deep channel holds a signal
  admitted, promoted, cancelled   \* lifetime counters

gateVars == <<free, classes, waiting, justPromoted>>
watchVars == <<watchers, signalled>>
counterVars == <<admitted, promoted, cancelled>>
vars == <<stage, age, promotedBy, gateVars, watchVars, counterVars>>

(***************************************************************************)
(* "idle"     not in Acquire, holding nothing                              *)
(* "waiting"  parked in select, linked in its class                        *)
(* "granted"  ready is closed, Acquire has not resumed yet                 *)
(* "holding"  Acquire returned; the Release func has not been called       *)
(* "released" Release was called once; the deferred call is still to come  *)
(***************************************************************************)
Stages == {"idle", "waiting", "granted", "holding", "released"}

\* Every variable has its type: in particular the slot counter stays between
\* zero and the configured capacity and only registered watchers are signalled.
TypeOK ==
  /\ stage \in [Requests -> Stages]
  /\ age \in [Requests -> 0..MaxAge]
  /\ promotedBy \in [Requests -> BOOLEAN]
  /\ free \in 0..Capacity
  /\ classes \in [Priorities -> Seq(Requests)]
  /\ waiting \in Nat
  /\ justPromoted \in BOOLEAN
  /\ watchers \subseteq Watchers
  /\ signalled \subseteq watchers
  /\ admitted \in 0..(CounterMod - 1)
  /\ promoted \in 0..(CounterMod - 1)
  /\ cancelled \in 0..(CounterMod - 1)

Init ==
  /\ stage = [r \in Requests |-> "idle"]
  /\ age = [r \in Requests |-> 0]
  /\ promotedBy = [r \in Requests |-> FALSE]
  /\ free = Capacity
  /\ classes = [p \in Priorities |-> <<>>]
  /\ waiting = 0
  /\ justPromoted = FALSE
  /\ watchers = {}
  /\ signalled = {}
  /\ admitted = 0
  /\ promoted = 0
  /\ cancelled = 0

-----------------------------------------------------------------------------
(***************************************************************************)
(* The helpers that run under the mutex.                                   *)
(***************************************************************************)

\* A uint64 counter after an increment.
Inc(n) == (n + 1) % CounterMod

\* notifyLocked: a non-blocking send to every watcher's one-deep channel.
NotifyLocked == signalled' = signalled \cup watchers

\* The class lists after pushLocked: r joins the tail of class p.
\* (Variant: it joins the head.)
PushedAtFront(p, r) == [classes EXCEPT ![p] = <<r>> \o @]
Pushed(p, r) == [classes EXCEPT ![p] = Append(@, r)]

\* The class lists after removeLocked of the i-th waiter of class p.  A class
\* that runs empty is deleted from the map, here it becomes <<>>.
\* (Variant: the head goes, whoever asked.)
UnlinkedHead(p, i) == [classes EXCEPT ![p] = Tail(@)]
Unlinked(p, i) == [classes EXCEPT ![p] = RemoveAt(@, i)]

\* The classes in the map: the ones popLocked scans, by their heads.
InPlay == {p \in Priorities : classes[p] # <<>>}

HeadAge(p) == age[Head(classes[p])]

\* The class whose head the strict rule serves.
IsTop(p) == p \in InPlay /\ \A q \in InPlay : q <= p

\* A class whose head no other head is older than.  Go's map iteration is
\* random, so between heads with the same stamp the scan may settle on either.
\* (Variant: the comparison of the stamps is turned round.)
IsYoungest(p) == p \in InPlay /\ \A q \in InPlay : HeadAge(q) >= HeadAge(p)
IsOldest(p) == p \in InPlay /\ \A q \in InPlay : HeadAge(q) <= HeadAge(p)

\* popLocked promotes the oldest head when it has outwaited the window, the
\* strict rule would pick another, and the previous pop was no promotion.
\* (Variants: strict priority only; promotions back to back.)
PromotesNever(top, oldest) == FALSE
PromotesAlways(top, oldest) ==
  oldest # top /\ HeadAge(oldest) >= PromoteAfter
Promotes(top, oldest) ==
  /\ ~justPromoted
  /\ oldest # top
  /\ HeadAge(oldest) >= PromoteAfter

\* releaseLocked with popLocked.  The caller's own step leaves the stages at
\* `st`; the slot goes straight to the head popLocked picks, or back to `free`.
\* (Variant: the slot always goes back to `free`.)
ReleaseToFree(st) ==
  /\ NotifyLocked
  /\ free' = free + 1
  /\ stage' = st
  /\ UNCHANGED <<age, promotedBy, classes, waiting, justPromoted>>
ReleaseLocked(st) ==
  /\ NotifyLocked
  /\ \/ /\ InPlay = {}
        /\ free' = free + 1
        /\ stage' = st
        /\ UNCHANGED <<age, promotedBy, classes, waiting, justPromoted>>
     \/ \E top, oldest \in InPlay :
          /\ IsTop(top) /\ IsOldest(oldest)
          /\ LET promote == Promotes(top, oldest)
                 p == IF promote THEN oldest ELSE top
                 w == Head(classes[p])
             IN  /\ justPromoted' = promote
                 /\ classes' = Unlinked(p, 1)
                 /\ waiting' = waiting - 1
                 /\ stage' = [st EXCEPT ![w] = "granted"]
                 /\ promotedBy' = [promotedBy EXCEPT ![w] = promote]
                 /\ age' = [age EXCEPT ![w] = 0]
          /\ UNCHANGED free

-----------------------------------------------------------------------------
(***************************************************************************)
(* Acquire.                                                                *)
(***************************************************************************)

\* The guard of the fast path: capacity to spare and nobody queued.
\* (Variant: one slot too many.)
FastPathOffByOne == free >= 0 /\ waiting = 0
FastPath == free > 0 /\ waiting = 0

AcquireFast(r) ==
  /\ stage[r] = "idle"
  /\ FastPath
  /\ free' = free - 1
  /\ admitted' = Inc(admitted)
  /\ stage' = [stage EXCEPT ![r] = "holding"]
  /\ NotifyLocked
  /\ UNCHANGED <<age, promotedBy, classes, waiting, justPromoted, watchers,
                 promoted, cancelled>>

\* Slow path: the request joins the tail of its class (pushLocked) and parks.
AcquireSlow(r, p) ==
  /\ stage[r] = "idle"
  /\ ~FastPath
  /\ stage' = [stage EXCEPT ![r] = "waiting"]
  /\ classes' = Pushed(p, r)
  /\ waiting' = waiting + 1
  /\ NotifyLocked
  /\ UNCHANGED <<age, promotedBy, free, justPromoted, watchers, counterVars>>

\* The select took <-w.ready.  The counters move here, with no notification.
TakeGrant(r) ==
  /\ stage[r] = "granted"
  /\ admitted' = Inc(admitted)
  /\ promoted' = IF promotedBy[r] THEN Inc(promoted) ELSE promoted
  /\ stage' = [stage EXCEPT ![r] = "holding"]
  /\ promotedBy' = [promotedBy EXCEPT ![r] = FALSE]
  /\ UNCHANGED <<age, gateVars, watchVars, cancelled>>

\* The select took <-ctx.Done() and the waiter is still queued.
CancelWaiting(r) ==
  /\ stage[r] = "waiting"
  /\ \E p \in Priorities : \E i \in DOMAIN classes[p] :
       classes[p][i] = r /\ classes' = Unlinked(p, i)
  /\ waiting' = waiting - 1
  /\ cancelled' = Inc(cancelled)
  /\ stage' = [stage EXCEPT ![r] = "idle"]
  /\ age' = [age EXCEPT ![r] = 0]
  /\ NotifyLocked
  /\ UNCHANGED <<promotedBy, free, justPromoted, watchers,
                 admitted, promoted>>

\* The select took <-ctx.Done() although the slot had been handed over: the
\* slot is passed on, because nobody will call this request's Release.
\* (Variant: the granted flag is not looked at and the slot leaks.)
CancelGrantedLeak(r) ==
  /\ stage[r] = "granted"
  /\ stage' = [stage EXCEPT ![r] = "idle"]
  /\ cancelled' = Inc(cancelled)
  /\ NotifyLocked
  /\ UNCHANGED <<age, promotedBy, gateVars, watchers, admitted, promoted>>
CancelGranted(r) ==
  /\ stage[r] = "granted"
  /\ ReleaseLocked([stage EXCEPT ![r] = "idle"])
  /\ cancelled' = Inc(cancelled)
  /\ UNCHANGED <<watchers, admitted, promoted>>

(***************************************************************************)
(* Release.  The handler calls it when the upstream answers and defers it  *)
(* a second time; sync.Once lets only the first call through.  (Variant:   *)
(* no sync.Once.)                                                          *)
(***************************************************************************)
OnceNever(r) == FALSE
OnceDone(r) == stage[r] = "released"

CallRelease(r, next) ==
  IF ~OnceDone(r)
  THEN ReleaseLocked([stage EXCEPT ![r] = next])
  ELSE /\ stage' = [stage EXCEPT ![r] = next]
       /\ UNCHANGED <<age, promotedBy, gateVars, signalled>>

\* The explicit release() after the upstream call returned.
Release(r) ==
  /\ stage[r] = "holding"
  /\ CallRelease(r, "released")
  /\ UNCHANGED <<watchers, counterVars>>

\* The deferred release(): after the explicit one it must change nothing, on
\* the panic path it is the only one.
DeferredRelease(r) ==
  /\ stage[r] \in {"holding", "released"}
  /\ CallRelease(r, "idle")
  /\ UNCHANGED <<watchers, counterVars>>

-----------------------------------------------------------------------------
(***************************************************************************)
(* Watch, unwatch and the watcher's receive.                               *)
(***************************************************************************)
Watch(v) ==
  /\ v \notin watchers
  /\ watchers' = watchers \cup {v}
  /\ UNCHANGED <<stage, age, promotedBy, gateVars, signalled,
                 counterVars>>

Unwatch(v) ==
  /\ v \in watchers
  /\ watchers' = watchers \ {v}
  /\ signalled' = signalled \ {v}
  /\ UNCHANGED <<stage, age, promotedBy, gateVars, counterVars>>

Receive(v) ==
  /\ v \in signalled
  /\ signalled' = signalled \ {v}
  /\ UNCHANGED <<stage, age, promotedBy, gateVars, watchers,
                 counterVars>>

\* Time passes: every queued request grows older.
Tick ==
  /\ \E r \in Requests : stage[r] = "waiting"
  /\ \A r \in Requests : stage[r] = "waiting" => age[r] < MaxAge
  /\ age' = [r \in Requests |-> IF stage[r] = "waiting" THEN age[r] + 1
                                                        ELSE age[r]]
  /\ UNCHANGED <<stage, promotedBy, gateVars, watchVars, counterVars>>

-----------------------------------------------------------------------------
Acquire(r) == AcquireFast(r) \/ \E p \in Priorities : AcquireSlow(r, p)
Cancel(r) == CancelWaiting(r) \/ CancelGranted(r)

RequestStep(r) ==
  Acquire(r) \/ TakeGrant(r) \/ Cancel(r) \/ Release(r) \/ DeferredRelease(r)

WatcherStep(v) == Watch(v) \/ Unwatch(v) \/ Receive(v)

Next ==
  \/ \E r \in Requests : RequestStep(r)
  \/ \E v \in Watchers : WatcherStep(v)
  \/ Tick

Spec == Init /\ [][Next]_vars

(***************************************************************************)
(* Fairness.  A granted goroutine is eventually scheduled; an admitted     *)
(* request eventually gives its slot back, because the upstream call is    *)
(* cut off by the client timeout (upstreamTimeout) and the handler defers  *)
(* release(); the clock advances.  Nothing is assumed of new arrivals, of  *)
(* clients hanging up, or of watchers.                                     *)
(***************************************************************************)
Fairness ==
  /\ \A r \in Requests : WF_vars(TakeGrant(r)) /\ WF_vars(DeferredRelease(r))
  /\ WF_vars(Tick)

FairSpec == Spec /\ Fairness

-----------------------------------------------------------------------------
(***************************************************************************)
(* Properties.                                                             *)
(***************************************************************************)
Waiting == {r \in Requests : stage[r] = "waiting"}
Busy == {r \in Requests : stage[r] \in {"granted", "holding"}}

\* Every slot is either free or claimed by exactly one request, in every
\* interleaving of releases, double releases and cancellations that race a
\* grant: capacity is never leaked and never inflated (Acquire, releaser).
SlotConservation == free + Cardinality(Busy) = Capacity

\* "free is only ever positive when no waiter is queued": a released slot is
\* handed to the queue, so an arrival on the fast path never passes a waiter.
NoBarging == free > 0 => Waiting = {}

\* The class lists and the waiting counter describe exactly the requests that
\* are parked, each linked once, however waiters left the middle of a list.
WaitersLinked ==
  /\ \A p \in Priorities : \A i \in DOMAIN classes[p] :
       stage[classes[p][i]] = "waiting"
  /\ \A r \in Waiting : \E p \in Priorities : \E i \in DOMAIN classes[p] :
       classes[p][i] = r
  /\ \A p, q \in Priorities : \A i \in DOMAIN classes[p], j \in DOMAIN classes[q] :
       classes[p][i] = classes[q][j] => p = q /\ i = j
  /\ waiting = Cardinality(Waiting)

\* popLocked looks only at class heads because "its head is both the oldest
\* waiter in that class and the only candidate the priority rule would pick":
\* along a class list nobody is older than somebody in front of it.
ClassesAreFIFO ==
  \A p \in Priorities : \A i, j \in DOMAIN classes[p] :
    i < j => age[classes[p][i]] >= age[classes[p][j]]

\* w is linked before r in the order of the strict rule: in a higher class, or in
\* the same one and parked no later.
Precedes(w, r) ==
  \E p, q \in Priorities : \E i \in DOMAIN classes[p], j \in DOMAIN classes[q] :
    /\ classes[p][i] = w /\ classes[q][j] = r
    /\ p > q \/ (p = q /\ age[w] >= age[r])

FirstByRank(w) == \A r \in Waiting \ {w} : Precedes(w, r)
LongestParked(w) == \A r \in Waiting \ {w} : age[w] >= age[r]

\* The two scheduling rules of doc.go for a step that grants w a slot.
GrantIsDue(w) ==
  IF justPromoted'
  THEN /\ ~justPromoted /\ ~FirstByRank(w)
       /\ LongestParked(w) /\ age[w] >= PromoteAfter
  ELSE /\ FirstByRank(w)
       /\ \/ justPromoted \/ LongestParked(w)
          \/ \A r \in Waiting : age[r] < PromoteAfter

\* popLocked reads class heads, the rules are about every request queued: a slot
\* goes to "the highest-priority waiter, FIFO within a priority class" or, as a
\* promotion, "oldest first" to one that outwaited the window; a promotion is
\* never skipped when it is due and "two never run back to back".
GrantsInOrder == [][\A w \in Waiting : stage'[w] = "granted" => GrantIsDue(w)]_vars

\* "Free traffic therefore always drains": whatever arrives, no queued request
\* stays queued for ever.
NoStarvation == \A r \in Requests : (stage[r] = "waiting") ~> (stage[r] # "waiting")

P == INSTANCE Pool WITH running <- Busy, parked <- Waiting

\* The queue implements the admission contract of Pool: a request that owns a
\* slot, told so or not, is running; one blocked in Acquire is parked.
ImplementsPool == P!Spec
=============================================================================
