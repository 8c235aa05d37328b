# TLA+ models of the embedding gateway

This directory holds a formal model of the gateway: TLA+ modules translated from
the Go source, TLC configurations that check them on small instances, and TLAPS
proofs of the properties that matter most, for instances of every size. The
repository is the reference; every definition that models code names its lines in
`PROJECT.json` (`map`).

## 1. The system

The gateway is a single Go process in front of a pool of Ollama back ends. A client
posts to `/v1/embeddings` with a bearer key; the gateway authenticates the key,
checks batch size, rate limit and token budget, queues the request by the key's
priority for one of a fixed number of slots, forwards it, records the tokens it cost
and relays the answer. Operators manage keys with `ragctl`, a separate program on
the same SQLite file. A dashboard streams a key's usage and the queue's pressure to
browsers.

| Component | State it keeps | Operations | Talks to |
|---|---|---|---|
| Admission queue (`internal/queue`) | free slots, one FIFO list per priority, waiting count, alternation flag, watchers' one-deep channels, lifetime counters | `Acquire` (fast, slow, granted, cancelled), `Release`, `Watch`, `Stats` | called by the embeddings handler; signals dashboard streams |
| Embeddings handler (`internal/proxy`) | none beyond the request | the pipeline of `Embeddings`, with an early return after each check | key store, limiter, budget, queue, forwarder, recorder |
| Upstream forwarder | none | one HTTP call under a timeout | Caddy and Ollama (external) |
| Rate limiter (`internal/ratelimit`) | per key: window start and count | `Allow`, `RetryAfterSeconds` | called by the handler |
| Token budget (`internal/budget`, `apikey`) | none: sums the stored events | `Status`, `BudgetExhausted` | usage store |
| API key store (`platform/database`, migrations) | `api_keys`, `usage_events` | lookup, insert, update limits, revoke, record, sum | handler, `ragctl`, dashboard |
| Operator command (`cmd/ragctl`) | none between invocations | create, list, update (read, then write), revoke | key store |
| Live usage hub (`internal/live`) | per watched key: an actor with its report, credits channel, subscribers, last snapshot | `Record`, `Publish`, `Subscribe`, `unsubscribe`, the actor's loop | usage store; dashboard streams |
| Dashboard stream (`internal/web`) | per connection: throttle flag, missed flag, cooldown timer | the loop of `handleKeyLive` | queue, hub |
| Request decoding (`proxy/embeddings.go`) | the walk over one JSON array | `countInputs`, `countArrayInputs`, `skipRest` | the handler |
| Usage reports (`domain/usage`) | none: sums the stored events | `ReportWindows`, `BuildReport` | usage store; dashboard, hub, budget, `ragctl list` |
| Dashboard views (`internal/web/view.go`) | what one browser shows: panel, sidebar row, masthead, strip | build a page, a panel, a sidebar, a strip | reports, hub, queue |
| HTTP middleware, router | none | bearer and basic authentication, routing | key store, configuration |
| Configuration (`internal/config`) | the resolved settings of one process | `Load`, `validate` | environment, `.env` |
| Process (`cmd/gateway`) | listener, signal context | configure, open and migrate, wire, listen, SIGTERM, drain, exit | everything |
| Public pages, templates | none | fixed text around configured numbers | |

What is hard in it:

- *interleavings*: a slot handed to a waiter whose client hangs up in the same
  instant; viewers who subscribe while the last one leaves; a signal that arrives
  while a stream is painting; a revocation between an update's read and its write;
- *state used after it may have changed*: the key row read at authentication, the
  balance read before queueing and charged after the call, the actor looked up before
  the hub's lock is released;
- *failures in the middle*: a failed read, a dropped credit, an upstream error or a
  panic while a slot is held, a process that exits with requests in flight;
- *progress*: low-priority requests under sustained high-priority load, a throttled
  stream, a retired actor, a queued request of a client that is gone;
- *figures read one by one*: the five sums of a report, the rows of a page and the
  parts of a screen come from separate queries, with calls being recorded and midnights
  passing in between;
- *early exits*: an input count that stops as soon as the verdict is certain, in an
  array whose kind is known only at its end;
- *boundaries*: the end of a rate window, Retry-After in whole seconds, the last
  token of a budget, midnights, weeks that straddle months, a full credits channel.

`PROJECT.json` lists these under `hazards`, each at its line with the properties that
would catch it.

What makes each component correct:

- queue: slots are neither leaked nor invented; a free slot is never withheld from a
  waiter; classes stay in arrival order; rank decides, but an aged waiter is not
  passed for ever and a top-ranked one pays at most one slot for that;
- handler, budget, store: a slot is held for the upstream call and for nothing else;
  a budget is overshot only by what was in flight; revocation is final and takes
  effect; every request ends;
- limiter: no more than the limit in a window, a client told to wait is not told too
  little or a second too much, and only batches the key may send are held against it;
- decoding: stopping early never changes the verdict, and an answer within the limit is
  the number of inputs;
- reports and views: windows that are read one after the other still nest, the lifetime
  of a key is neither short nor counted twice, the check and the panels agree on who is
  over budget, and the parts of one screen never contradict each other;
- configuration, start, router: what a process serves has been validated by rules at
  least as strict as those that would reject or panic later, and the dashboard opens to
  a whole credential only;
- hub: a viewer is always attached to the live actor and ends up with the stored
  figure;
- stream: an out-of-date strip always has a repaint pending, and gets it; a strip that
  is painted tells of one moment of the queue.

## 2. Modules

| Module | Models | Built on |
|---|---|---|
| `Pool` | the contract of admission: at most `Capacity` running, park only when full, direct hand-over | |
| `Queue` | `internal/queue`, one action per critical section | implements `Pool` |
| `QueueOrder` | `Queue` with two history variables that count how often a waiter is passed | extends `Queue` |
| `QueueProofs` | theorems about `Queue` | extends `Queue` |
| `QueueOrderProofs` | theorems about `QueueOrder` | extends `QueueOrder`, `QueueProofs` |
| `DashboardStream` | the select loop of `handleKeyLive` for the pressure strip, and what the strip shows | extends `Queue` |
| `StreamProofs` | theorems about `DashboardStream` | extends `DashboardStream`, `QueueProofs` |
| `LiveHub` | `internal/live`: recorder, hub, actors, viewers of one key | |
| `LiveHubProofs` | theorems about `LiveHub` | extends `LiveHub` |
| `RateLimit` | `internal/ratelimit`, one key | |
| `InputCount` | `countInputs`, token by token, and what the count should be | |
| `KeyLimits` | `apikey.Limits`: what is valid, the flags of `ragctl`, the batch rule | |
| `Startup` | `config.Load`, `run` up to the listening server, the router's doors | extends `KeyLimits` |
| `FrontDoor` | a request up to the budget check, in a process that starts, fails and restarts | extends `Startup`, `InputCount`, `RateLimit` |
| `FrontDoorProofs` | theorems about `FrontDoor` | extends `FrontDoor` |
| `UsageReport` | the calendar and its five windows, the half-open sum, the events table | |
| `UsageFigures` | page, stream, hub report, budget check and `ragctl list` as readers of the table | extends `UsageReport` |
| `UsageFiguresProofs` | theorems about `UsageFigures` | extends `UsageFigures` |
| `Aggregates` | lemmas on least and greatest elements, and on sums as counts of units | used by `StreamProofs`, `FrontDoorProofs`, `UsageFiguresProofs` |
| `KeyStore` | `api_keys` and concurrent invocations of `ragctl` | extends `KeyLimits` |
| `Access` | the contract of a key: issued once, revoked for good, only an active key lets a request in | |
| `Gateway` | authentication to relay for concurrent requests, budgets, months, start, SIGTERM, exit | extends `KeyStore`, uses `Pool`, implements `Access` |
| `GatewayProofs` | theorems about `Gateway` and `KeyStore` | extends `Gateway` |
| `MC*` | symmetry sets and constants for TLC | |

`Gateway` uses `Pool`, not `Queue`: what the handler relies on is the contract, and
`Queue` is shown to implement it, both by TLC (`queue_safety`) and by proof
(`GateImplementsPool`). That keeps ranks, lists and ages out of the pipeline's state
space. `FrontDoor` and `Gateway` overlap in the same way: what comes before the budget check
is many small steps in `FrontDoor`, which knows limits, windows and arrays, and one
step or none in `Gateway`, which knows concurrency.

### How state and actions correspond to the code

**Queue.** `stage` says where a request stands between two critical sections:
parked in the select of `Acquire` (`waiting`), handed a slot but not yet running again
(`granted`), holding it, or holding nothing but a deferred `release()` still to come
(`released`). `AcquireFast`, `AcquireSlow`, `TakeGrant`, `CancelWaiting` and
`CancelGranted` are the branches of `Acquire`; the cancellation of a request that has
been granted a slot passes the slot on. `Release` and `DeferredRelease` are the two
calls the handler makes, and `OnceDone` is the `sync.Once` between them.
`ReleaseLocked` contains `popLocked` whole: top class, oldest head, promotion and
alternation. Go's map iteration is unordered, so between heads of equal age either may
be chosen. There is no clock: the code only compares stamps with each other and with
the promotion window, so the model keeps ages. Counters wrap at `CounterMod`.

**DashboardStream.** `PaintQueue`, `OnChange`, `OnCooldown`, `OnHeartbeat` and
`Disconnect` are the cases of the select. What the screen shows is abstracted to
whether it is out of date: a gate step that moves `Pressure` (or `Counters`) puts every
connected stream behind, a repaint brings one up to date. `Strip` is what `buildQueue` makes of a
`Stats` snapshot.

**LiveHub.** A report is one figure, tokens today, and every event costs one token.
Recording is three steps (`Persist`, `Lookup`, `Credit`) because the hub's lock is
released before the credit is sent. The actor's goroutine is `loading`, `loaded` (about
to publish), in its `select`, or `gone`. `owner` is the request context the
goroutine runs under, that of the viewer who started it. Subscribing and priming are
two critical sections, as in the code.

**RateLimit.** `age` is the time since the window opened, in ticks smaller than a
second so that rounding shows. `recent` and `told` are history: what was admitted
lately, and what the first denied client of the window was told.

**InputCount.** `body` is the tokens between the brackets of a top-level array, `pos` how many
`json.Decoder.Token` has returned, `depth` the local variable of `skipRest`. `NextAtom`,
`NextNested` and `SkipToken` are the iterations of the two loops, with the two early
exits of `countArrayInputs` in `Judged`; `EndArray` is the code after the loop.
`Inputs` is the definition from the comment on `countInputs`, over the whole array.

**Startup.** A setting is what its variable parses to: a number, a text, `Empty`, `Garbage`
(set, but not a number) or `Unset`. `Resolved` is `envInt` and its sisters, `Seen` is godotenv,
which fills in what is unset. `phase` is the progress of `run`; every step of it may
fail. The router's answer depends on the configuration alone, so it is an operator,
`Reply`.

**FrontDoor.** `call` is one request: `decode`, `count`, `limit`. It carries `BatchMax` and the
rate limit of the row it was authenticated with; rows vary from request to request.
`StopServing` forgets the limiter's windows, as a new process does, and the history
about them with it.

**UsageReport.** Time is ticks; a day is `DayTicks` of them, a week `WeekDays` days, and the
months begin at `MonthStarts`. One event is one token. `StampEvent` is the `time.Now()` of
`Record`'s caller, `Record` the insert some time later. `Counted` is the SQL condition.

**UsageFigures.** Each reader is a `read[kind]`: the key, the `now` it took at its start and the
sums it has so far; `Plan` is the list of queries it makes, in the code's order. `floor` and
`must` are history: what was in the table when it began, and whether the key had been seen
exhausted in the same budget period by then. `ShowPage`, `OpenStream`, `Publish`, `Push`,
`Answer` and `PrintLine` are what is made of a complete read; `screen` is the browser: the panel,
the watched key's sidebar row, the masthead's total and the sidebar figures the
stream keeps. `QueryFails` is any query that returns an error.

**KeyStore.** A row is its five limits and whether it is revoked; `op` is a `ragctl`
between the read and the write of an update, which carries the row it read. Commands
that are refused change nothing and are not actions.

**Gateway.** `req[r].pc` is the place where a handler waits: for the store (`auth`,
`budget`, `record`), the pool (`admit`, `parked`), the upstream (`forward`), the client
(`decode`, `relay`). `returned` lies between the return of `Forward` and the release of
the slot. Each check either goes on or returns; the HTTP status is in the comments. A
query fails nondeterministically, and always when the client is gone, because queries
run under the request's context. `NextMonth` may happen at any time; a usage event
stamped before it counts for the month that ended. `Signal` does not cancel contexts,
because `http.Server.Shutdown` does not; `Exit` forgets handlers and slots but not the
store. `cohort` and `metered` are history variables used by `OvershootBounded` only. As an
implementation of `Access`, the state of a key is `StatusOf` (is there a row, is it
revoked) and the requests inside are `LetIn`, those past authentication.

## 3. Runs

| Run | Module | Checks | Instance |
|---|---|---|---|
| `queue_safety` | `MCQueueOrder` | `TypeOK`, `SlotConservation`, `NoBarging`, `WaitersLinked`, `OneExtraAdmission`, `AgedDrain`, `GrantsInOrder`, `ImplementsPool` | 5 requests, 2 slots, 3 ranks, ages to 2 |
| `queue_liveness` | `MCQueue` | `NoStarvation` | 4 requests, 1 slot, 2 ranks |
| `stream_safety` | `MCDashboardStream` | `StreamTypeOK`, `NoLostRepaint`, `ThrottleExpires`, `StripTellsTheTruth`, `EventuallyRepainted` | 3 requests, 1 slot, 1 stream |
| `stream_counters` | `MCDashboardStream` | `NoLostCounterRepaint`, violated | 2 requests, 1 stream |
| `live_safety` | `MCLiveHub` | `TypeOK`, `RetireIsRaceFree`, `NewestSnapshotDelivered`, `NoCallMissed` | 2 viewers, 2 writers, 2 actors, 2 events |
| `live_converges` | `MCLiveHub` | `ExcessBounded`, `ShownConverges`, `RetiredActorsEnd` | 1 viewer, 2 writers, 3 events, a 1-place buffer, 1 failed read, 1 midnight |
| `live_orphan` | `MCLiveHub` | `RunsUntilLastLeaves`, violated | 2 viewers |
| `live_zeros` | `MCLiveHub` | `NeverShowsZeros`, violated | 1 viewer, 1 stored token, 1 failed read |
| `front_door` | `MCFrontDoor` | `CountIsExact`, `RetryAfterIsExact`, `AtMostTwoWindows`, `ServesSound`, `DashboardGuarded`, `OnlyBatchesAreMetered` | 20 environments, arrays of up to 5 tokens, 3 elements at most, limits 1 and 3, windows of 2 s of 3 ticks |
| `usage_figures` | `MCUsageFigures` | `FiguresTypeOK`, `NestedFigures`, `LifetimeBracketed`, `ExhaustionIsFinal`, `BarsFit`, `ScreenAgrees` | 3 keys of which 1 is not there, 2 events, days of 2 ticks, weeks of 3 days, 4 months |
| `gateway_budget` | `MCGateway` | `GatewayTypeOK`, `OvershootBounded`, `SlotsCoverCalls` | 1 key, 1 operator, 2 requests, 1 slot, budgets 1, 2 and unlimited |
| `gateway_revocation` | `MCGateway` | `ImplementsAccess`, `RevokedShutOut`, `RevokedKeyDrains`, `RequestsEnd` | 1 key, 2 operators, 2 requests, 1 slot |

What the less obvious ones say:

- `GrantsInOrder` states the two scheduling rules of `internal/queue/doc.go` for each slot
  handed over, and of everybody who is queued, while `popLocked` compares class heads only.
  A promotion goes to the one parked longest, needs a wait past the window, a flag that is
  down and somebody else first by rank; any other grant goes to the first by rank, and only
  when no promotion is due.
- `OneExtraAdmission` and `AgedDrain` are the two halves of `internal/queue/doc.go`:
  the first by rank is passed at most once, and an aged waiter at most twice for each
  request that can stand before it, plus once.
- `NoLostRepaint` is "nothing is lost, only merged" (`server.go`): whenever the painted
  pressure is wrong there is a signal in the channel, a missed change with a timer
  armed, or a paint about to happen. `EventuallyRepainted` is checked without assuming
  the heartbeat, so it is the event path alone that delivers.
- `NoCallMissed` says that with nothing failing and room in the buffer a live report,
  the credits waiting for it and the calls under way account for every stored token.
  `ShownConverges` says that once recording stops the viewer ends up with the stored
  figure, through dropped credits, a failed read and a midnight. It is checked with one
  viewer: with two it fails for the reason `live_orphan` shows.
- `ExcessBounded` is the error in the other direction, on the way there. A reload may read a
  call whose credit has yet to come, so for a while that call counts twice. However many
  reloads, failed reads and actors there are this does not accumulate: no viewer sees
  more than the store holds plus a full credits channel plus one call per writer. Three
  events fill a channel of one and occupy two writers, so the bound can be reached.
- `OvershootBounded` is the README's "a key can overshoot its budget by the tokens of
  whatever requests are already in flight when the allowance is crossed", made exact:
  used tokens stay below `BudgetCap` plus one call's tokens for each request past the
  check at that moment. Operators may change the budget and its period meanwhile;
  `metered` excludes periods in which some request passed without a budget.
- `GatewayTypeOK` includes `StoreTypeOK`: no row carries a limit that refuses everything.
- `ImplementsAccess` is the whole life of a key: issued at most once, revoked for good
  although an update that read the row earlier writes it back, and let in only while it
  is issued and active. Exit and restart are one step in which everybody leaves.
- `RevokedShutOut` is "revocation needs no restart": from the moment a key is revoked the
  requests past authentication are among those that were past it then. The updates that
  were about to write the row back and the requests that were about to read it are what
  could break it. `RevokedKeyDrains` adds that those requests end.
- `CountIsExact` compares the walk with `Inputs`: for every array the early answer leads to
  the same verdict as the full one, and an answer that lets the batch through is the
  exact number. `OnlyBatchesAreMetered` carries it to the limiter.
- `ServesSound` is the agreement of three copies of the same bounds: `config.validate`,
  `Limits.Validate` and the panics of `queue.New`.
- `DashboardGuarded` says that the dashboard opens to the password the environment holds,
  with the configured, non-blank user, and that such a request opens nothing else.
- `NestedFigures` and `LifetimeBracketed` are about reports whose five sums are five
  queries. They hold for two reasons that a change could undo: every window ends at the
  `now` taken before the first query, so that only late inserts can move a sum, and
  `BuildReport` goes from the narrow windows to the wide ones, so that what was stored
  in between is in the later, wider sum. A week that begins in the past month is not
  contained in this month; the property says what it is contained in.
- `ExhaustionIsFinal`: the check sums one window, a panel adds three. Once anyone has
  seen a key exhausted in a budget period, nobody who starts to look later in that period
  sees it otherwise.
- `ScreenAgrees`: the panel, the sidebar row and the masthead come from reads of different
  age. `since` is the oldest of them: the masthead never exceeds what has been stored from
  the start of that day on.
- `BarsFit`: the integer arithmetic of bars and meters, with the peak of a sidebar
  that was read long before the row it scales.
- `SlotsCoverCalls` relates pipeline and pool on every path: error, panic, hang-up
  while parked, hang-up just after the grant.

### Bounds, and why they are enough

`Tick` stops while a waiter is at `MaxAge`, which exceeds the promotion window, so
aged and fresh waiters, and aged ones of different ages, occur together; nothing
distinguishes ages beyond the window except their order. Five requests on two slots
leave three waiters, the least with which a promotion, a strict pick and a waiter left
behind occur together, with two slots to lose. `MaxEvents`, `MaxActors`,
`MaxFailures` and `MaxMidnights` limit how often the environment acts: two actors are
enough for a credit to reach a retired one, and one failure and one midnight for each
fallback. `MaxSpent` lets no call succeed for a key that has spent that much; in
`gateway_budget` it is one above `BudgetCap`, so a call let in after the budget is used
up would still be charged. In
`gateway_revocation` a call costs nothing, so it never limits. The limiter has
windows of two seconds of three ticks each, so a denial can come on a whole second, just
after one and just before one. `front_door` takes requests one at a time: before the budget
check they share nothing but the limiter, whose mutex takes them one at a time as well.
Its arrays are all those of up to two tokens and three longer ones (a nested value
inside another, more elements than `MaxElements` that are all numbers, and a mixed array
around a nested one); its environments set one setting out of bounds, one beyond where
there is a next value, or combine the two that meet (user and password, environment and
`.env`). What one array or environment does is independent of the others. `usage_figures` begins on
a Sunday and two ticks later it is Monday, and the first of a month, so that a
day, a week and a month end under a read; `MaxReads` is one read at a time, because
reads of different readers do not share anything but the table and what they leave on the
screen, which stays between them. One of two events may be there from the past month.
`Opened` is a key that is revoked, with a lifetime budget, and a key that is not there;
the page `GET /admin` picks is that of the other key, with a monthly budget. `CounterMod` is 2 where counters wrap, 1 where they are irrelevant.
Requests, viewers and writers are interchangeable; symmetry is used only in runs
without liveness properties. The hub's runs turn deadlock checking off because they
stop when events and actors are used up, and `usage_figures` keeps deadlock checking on
because a reader can always start again; everywhere else deadlock is checked too.

### Fairness

- Queue: a granted goroutine is scheduled, an admitted request gives its slot back (the
  HTTP client has a timeout and `release()` is deferred), the clock advances. Arrivals,
  hang-ups and watchers are free.
- Stream: the goroutine of a connected stream runs and its timer fires. Go's `select`
  chooses uniformly among ready cases, so a case that is ready again and again is
  taken: strong fairness. The heartbeat is not assumed.
- Hub: goroutines that can run do, the resync ticker ticks, selects are as above, and a
  handler whose client has gone returns. No new calls, viewers or midnights are
  assumed.
- Gateway: a handler step that stays possible is taken (the store answers or fails, the
  upstream call times out). A parked request is handed a slot if slots keep
  being handed over: this is `NoStarvation` of `Queue`, which the abstract `Pool` does
  not promise by itself. Clients, operators, signals and the calendar are free.

### Where code and documentation disagree

Three runs end in a violation; each is a finding in `PROJECT.json`.

1. `stream_counters`. A granted request adds to `admitted` and `promoted` when its
   goroutine resumes, without a signal, though the grant's signal may already have been
   consumed. The README says the queue "signals every admission". The strip's counters
   are corrected only by the next change or the heartbeat.
2. `live_orphan`. A key's actor runs under the request context of the viewer who
   started it. When that viewer leaves first, the goroutine ends while the actor stays
   in the map with its other viewers, who get no more updates. `internal/live/doc.go`
   says "the last one to leave stops it".
3. `live_zeros`. When an actor's first read fails there is no last snapshot to fall back
   on and zeros are published, which the comment on `reload` says should not happen.

Some comments are not literally true, without a run of their own:

- `internal/web/view.go:375-376` says the figures of other keys "do not move" while a
  stream is open. They do, the stream just keeps the ones it read; `ScreenAgrees` says
  what remains true.
- `cmd/gateway/main.go:91-92` says the limits on the public page "cannot drift" from what
  keys get. `ragctl create` is another process and reads its own environment.
- `internal/domain/usage/usage.go` calls the windows "cumulative and nested". This week is
  not within this month when it began in the last one.

## 4. Proofs

All proofs hold for every value of the constants that satisfies the named assumptions:
`QueueAssumption` (finite requests, positive capacity and window, as `queue.New`
insists), `KeyStoreAssumption` (sound defaults, as `config.validate` insists; numeric
limits; known flags), `GatewayAssumption` (finite requests, positive capacity, no
finite budget above `BudgetCap`), `StartupAssumption` (numeric variables are numbers, empty,
garbage or unset), `InputCountAssumption` (delimiters balance, because `json.Unmarshal` has
accepted the request), `RateAssumption` (positive limits and window; finitely many limits,
as a Go `int` has finitely many values), `FrontDoorAssumption`
(limits of a stored row are positive), `HubAssumption` (finite viewers and writers, a
buffer), and `CalendarAssumption` with `FiguresAssumption` (finite events, positive days, a
calendar whose months follow each other and are at least a week long).

**QueueProofs.** `TypeCorrect`, `SlotsConserved`, `NobodyBarges`, `ListsAreExact`,
`ListsAreFIFO`, `SlotsGoInOrder`, `NoSlotIdles`, `GateImplementsPool`. The inductive invariant `IInv` is the conjunction
of `TypeOK`, `SlotConservation`, `NoBarging`, `WaitersLinked`, `ClassesAreFIFO` (along a class
list nobody is older than somebody in front) and `AgesAreWaits` (only a parked request has an age). None is
inductive alone: handing a slot to the head of a class conserves slots only if heads are
parked and linked once; an arrival at the tail keeps a class in order only if it starts
at age zero; and `NoBarging` survives an arrival on the slow path only because `waiting`
counts exactly the parked. The central lemma is about `ReleaseLocked`, which three
actions share. The refinement maps `Busy` to `running` and `Waiting` to `parked`; each
action is a step of `Pool` or a stutter. `NoSlotIdles` combines two of the properties into
what an operator would say of them: while anybody waits, all of the capacity is claimed.
`SlotsGoInOrder` is where the heads are shown to speak for everybody (`HeadsDecide`): every
parked request is in some class, whose head is at least as old and of the same rank. The
head of the top class is therefore first by rank of all and the oldest head has waited
longest of all; a promoted head is not first by rank because the top head, another request,
is (`PromotedIsPassedUp`). `GrantOrder` then follows `ReleaseLocked` branch by branch, and
the other actions grant nothing.

**GatewayProofs.** `GatewayTypeCorrect`, `StoreTypeCorrect`, `OvershootIsBounded`,
`SlotsAreCovered`, `GatewayImplementsAccess`, `RevocationStays`, `RevokedAreShutOut`, from the invariant `GInv`, which
has two parts.

- `StoreInv`: the store's type invariant, and that an update in progress carries limits
  that validate (`OpsSound`) for a row that exists (`OpsOnRows`), and that a row which
  does not exist is not revoked (`UnissuedActive`). Without the second, a late write could
  store a zero limit; without the last, a create could undo a revocation.
- `RInv`: types, `SlotInv` (`SlotsCoverCalls`, and that parked requests wait at
  `parked` and run nowhere) and `OverInv`. `OvershootBounded` says nothing of requests
  yet to be charged, so `OverInv` sets one call's tokens aside for each of them:
  `used + MaxTokens * |Chargeable| < BudgetCap + MaxTokens * cohort` once the sum has
  reached the cap. Charging a request moves tokens from one term to the other; nobody
  joins `Chargeable` afterwards because the check refuses; a month's end and a restart
  only shrink it. On the step that reaches the cap, `cohort` is exactly
  `|Chargeable|` and the sum before was below the cap.

`RevokedAreShutOut` is the safety half of `RevokedKeyDrains`. It is a temporal formula about
two moments, so it is proved from two facts about a step: a revoked row stays revoked, and a
step in whose first state the row is revoked lets no request of that key in (only
`Authenticate` lets anybody in, and it reads the row in the same step).

`GatewayImplementsAccess` maps each step of the gateway to one of `Access` or a stutter. A
command moves one key's `StatusOf` and nobody inside; an update changes no status
because it writes limits alone, and `UnissuedActive` makes a create start from a key that is not
revoked. A handler's step moves at most its own request (`HandlersMoveOne`), in by `Admit`
when it was at `auth` and out by `Leave`; an exit is the `Leave` of everybody. `RevocationStays`
and `RevokedAreShutOut` are what remains of it for one key over time.

**QueueOrderProofs.** `FirstByRankIsNext`, `AgedAreDrained`. `TopInv`: who is first by rank
and has been passed was passed by a promotion, so the alternation flag is set and the next
pop is theirs. `AgedInv` is a potential: passes so far, plus two for each request that may
be served first for its age (`Ahead`), plus one while the flag is set, never exceeds the
bound. A promotion takes one off `Ahead` and sets the flag; a strict pick past an aged
request that is not itself the oldest is possible only with the flag set, and clears it;
newcomers are younger and never join. At the moment a request becomes aged, `Ahead` is
bounded because a request waits only while every slot is taken (`NoBarging`,
`SlotConservation` of `QueueProofs`).

**StreamProofs.** `StreamTypeCorrect`, `NoRepaintIsLost`, `TheThrottleExpires`,
`StripsAreTrue`, `StreamsLeaveTheGate`, `WatchedGateImplementsPool`. A step of a stream is a
step of the gate or leaves it alone, so `StreamSpec` implements `Spec` of `Queue`, and everything
proved of the gate alone, its refinement of `Pool` included, holds under any number of streams. `NoLostRepaint` is then inductive with the two others,
because every step of the gate that moves what a strip shows signals every watcher
(`GateSignals`). `StripTellsTheTruth` is a consequence of `IInv`: a strip reads two counters
and the class heads, and the heads are the oldest of their classes.

**LiveHubProofs.** `HubTypeCorrect`, `RetiringIsRaceFree`, `NewestIsDelivered`,
`NoCallIsMissed`, `ExcessIsBounded`, from `HubInv`. The first three hold for every buffer. The types need
`CountInv`, that a call is counted at most once as loaded and once as credited; the figures
would otherwise be unbounded. `NoCallIsMissed` assumes `BufferSize >= MaxEvents`, room for
every credit, which is what the property is about; `LossInv` counts as pending only
the calls that the actor in question will get, since a call routed to a retired actor is
lost to the next one, which has loaded it. `ExcessIsBounded` adds `ExcessInv`: until a midnight
every actor's report (and its last snapshot, which a failed read falls back on), the credits in
its channel and the calls still being accounted for stay together under the ceiling, and what
was sent from it stays under the same one. A recorded call raises both sides by one, a
credit moves from the calls to the channel and from there to the report, and a reload
starts again from the store with a channel that is at most full. It holds for every
buffer, without the assumption of `NoCallIsMissed`.

**FrontDoorProofs.** `StartupIsSound`, `DashboardIsGuarded`, `CountingIsExact`,
`RetryAfterHolds`, `BurstsAreBounded`, `BatchesAreMetered`, `FrontDoorTypeCorrect`, from
`FrontDoorInv`, the conjunction of
`StartupInv` (a configuration that is there is the one its environment resolves to and
`validate` accepts), `CountInv` (depth and count of the walk are those of the tokens
consumed, so no early exit can have been wrong), `RateInv` (types, `ToldInv`, `BurstInv`) and `CallInv` (the walk
runs under the batch limit of the call's own row, and only a count that the row allows
reaches the limiter).
`BurstInv` splits the last `Window` instants in two: what was admitted in the open
window, which is at most `count`, and what was admitted before it began, which is at most one
window's limit because all of it lies in the one window before. Neither half is
`AtMostTwoWindows`, and a roll turns the first into the second. `AtMostTwoWindows` sums a
function with a fold; `Aggregates` shows that this sum is the cardinality of the set of its
units, pairs of an instant and a number up to its value, without induction on the function,
and the proof then counts sets.

**UsageFiguresProofs.** `FiguresNest`, `LifetimesAreBracketed`, `ExhaustionStays`, from
`FiguresInv`; `FiguresTypeCorrect`, `BarsAreDrawn`, `TheScreenAgrees`, from it and `ShownInv`. A report under way is judged by `Figs`: the sums it has read and, for those it
has not, what they would be if read now. This completed report is sound (its windows nest, its
lifetime is bracketed) at every step: wider windows are read later and sums over ranges
that end before `now` only grow. `SpentInv` adds that a budget that has
once been seen used up is used up by what is in the table, at every later instant of the
period.

`ShownInv` is about what readers have put together. `ReadsShown`: every sum that has been read
is at most what the table still holds for its query, since events are never removed.
`ScreenShows`: the panel was read after its page's row for the same key, and so shows at least as
much; the masthead is the row plus what the sidebar says of the others, and these share no event
with the key's own, so that together they are at most what has been stored since the
earliest `StartOfDay` among them. `PanelFits` holds of the hub's last snapshot as well, since a
stream that opens later is primed with it. `BarsFit` is then arithmetic: `SideRow` scales by the
larger of the old peak and the row itself.

`MaxAge`, `MaxSpent` and the other bounds of the models are constants of the theorems
too: the proofs hold for each of their values.

Only model-checked: liveness (`NoStarvation`, `EventuallyRepainted`, `ShownConverges`,
`RetiredActorsEnd`, `RevokedKeyDrains`, `RequestsEnd`), which is outside the prover's
reach. Every other property of a passing run has a theorem. Some theorems go beyond the
runs: `FrontDoorTypeCorrect`, `StoreTypeCorrect`, `ListsAreFIFO`, `RevocationStays`,
`NoSlotIdles` and `StreamsLeaveTheGate` state what the proofs need or imply and no run repeats.

## 5. What is not modelled

- `parsePromptTokens`: it picks one of two numbers of a reply and keeps no state. The tokens
  of a call are any number in `Gateway`.
- The public pages (landing, articles, plans, discovery): text rendered once from
  configured numbers. The `templ` files are generated.
- Labels, number formatting, times in words, and the sentences a page shows.
- What a migration does to a schema, and two processes migrating at once: goose and the
  SQLite driver are external. Opening and migrating succeed or fail.
- How the driver encodes a time stamp, and daylight saving: days have equal length.
- The server's write deadline: `Relay` may lose the reply, the clock behind it is not
  modelled.
- The time of a revocation: a row only says whether it is revoked. Key rows also stand
  still in `UsageFigures`, so that a stream drawing the limits of the row it opened with
  shows nothing there.
- Settings that are never judged (listen address, database path, model, contact).
- Hash collisions between keys, and SQLite's own locking: a query is atomic or fails.

## 6. Plan

Done: the queue with its contract, its ordering bounds and proofs; stream and hub with
their proofs; limiter; the pipeline over the key store with its proofs; request decoding,
configuration, start and router with their proofs; reports and everything that reads them,
with proofs.

Next, in this order:

1. The write deadline of the server against time spent in the queue, which needs a clock
   shared by `Queue` and `Gateway`.
2. Key rows that change under an open stream, which composes `KeyStore` with
   `UsageFigures`.

## 7. Running it

    tlc -config queue_safety.cfg MCQueueOrder
    tlapm QueueProofs.tla
    tlapm GatewayProofs.tla
    tlapm FrontDoorProofs.tla
    tlapm QueueOrderProofs.tla
    tlapm StreamProofs.tla
    tlapm LiveHubProofs.tla
    tlapm UsageFiguresProofs.tla

The other runs are named in `PROJECT.json` with their module and configuration.
