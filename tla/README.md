# crank in TLA+

crank is a Go library for background jobs. A client pushes jobs onto named
queues in Redis; engine processes take them off, run a handler and retry,
bury or forget the job according to the outcome. This directory models the part
of it that decides what happens to a job, checks the model with TLC and proves
its main invariants with TLAPS.

Paths below are relative to `src/`.

## 1. The system

| part | state | operations | what makes it right |
|---|---|---|---|
| Job (`internal/payload/job.go`) | JID, queue, `Retry`, `RetryCount`, `State`, the bytes it was dequeued as | `NewJob`, `SetRetry`, `ToJSON`, `FromJSON` | counts stay in range; parsing and serialising give back the same bytes where Redis is searched by value |
| Redis broker (`internal/broker/redis_broker.go`) | lists `queue:<name>`, sorted sets `processing` (leases), `retry`, `dead`, `stat:*` | `Enqueue`, `Dequeue`, `Ack`, `ReapOrphanedJobs`, `AddToRetry`, `GetRetryJobs`, `RemoveFromRetry`, `AddToDead`, `Record*`, `DeleteKey`, `GetStats` | a job that was taken and not finished is leased |
| In-memory broker (`internal/broker/memory.go`) | the same, as slices of pointers | the same | the same, for tests and single processes |
| Processor (`internal/queue/processor.go`) | a context, an unbuffered channel; goroutines: one fetcher, N workers, retry loop, reaper loop, metrics loop | `Start`, `Stop`, and what the goroutines do | every job finishes; none is lost; its attempts are counted right; `Stop` returns |
| Circuit breaker (`internal/queue/breaker.go`) | per class: closed, open or half-open, recent failures, `openUntil`, probe used | `Allow`, `RecordSuccess`, `RecordFailure`, `IsOpen` | opens exactly when the window is full; comes back through one probe |
| Middleware (`internal/queue/middleware.go`) | none | recovery around logging around the breaker around the handler | outcomes reach the breaker and the processor |
| Client (`internal/client/client.go`) | the global client | `Enqueue`, `EnqueueWithOptions`, `SetGlobal` | a job reported as enqueued is enqueued; the global client has a live broker |
| Engine (`engine.go`) | `started`, `stopOnce`, chain, validator, registry | `Start`, `Stop`, `Use`, setters, `Stats`, `Health` | starts once, stops once; what a setter accepts takes effect; `Health` is truthful |
| Metrics (`internal/queue/metrics.go`) | buffered event channel, two totals | `emitEvent`, `metricsLoop`, `HandleJobEvent` | never blocks a worker; events in order, drops accounted for |
| Queue handle and statistics (`internal/queue/queue.go`) | none | `Size`, `Clear`, `GetStats` | close to the truth while jobs move |
| Worker registry (`engine.go`, `internal/queue/worker.go`) | class to worker | `Register`, `RegisterWorker`, `GetWorker` | a class may be added while jobs run |
| Validation, redaction (`internal/payload/`) | a default of each | `SetDefaultValidator`, `SetDefaultRedactor` | the engine-scoped validator rules |
| Configuration (`crank.go`, `options.go`, `internal/config/`, `internal/broker/factory.go`) | options, YAML file, environment | `New`, `QuickStart`, `NewTestEngine` | what was asked for is what runs; a failed call leaves nothing open |

How they interact. Everything shared between processes is in Redis, and a
process reaches it by calls that are atomic one by one; nothing is atomic across
two calls. Inside a process the goroutines share the channel, the context and
the breaker. `Stop` cancels the context and waits for all goroutines.

What is hard: jobs move between Redis structures in two calls (enqueue and ack,
remove and enqueue, reap and enqueue), so that another process, a stop, a crash
or a failing call can come between them; Redis is searched by the exact bytes of
a job whose fields change; leases run out under workers that are alive; two
retry loops read the same due jobs; results of old jobs reach a breaker that has
moved on. `PROJECT.json` lists these hazards with their lines.

## 2. Modules

| module | models | built on |
|---|---|---|
| `Payload` | the job, as struct (`Job`) and as stored JSON (`Bytes`), and the conversions with their clamps | |
| `RedisBroker` | the Redis keys as variables, one operator per broker call | `Payload` |
| `Processor` | engines, their goroutines, clients, faults, time; the properties | `RedisBroker` |
| `CircuitBreaker` | breaker and breaker middleware under concurrent workers | |
| `MemoryBroker` | the in-memory broker: lists of pointers, searched by JID | |
| `MemoryEngine` | the processor over it, as the test harness builds it | `MemoryBroker` |
| `Delivery` | abstract: what an accepted job may expect of any broker | |
| `JobLifecycle` | abstract: the life of one job in a healthy engine | |
| `Engine` | one engine object: setters, `Start`, `Stop`, `Health`, registry, validators, metrics channel | |
| `RetrySet` | the retry set with scores, several engines' retry loops, `GetStats` | |
| `Configuration` | constructors, options, YAML, dialling, the global client, weights | |
| `MCProcessor`, `MCCircuitBreaker`, `MCMemoryEngine`, `MCEngine`, `MCRetrySet`, `MCConfiguration` | values for the constants | |
| `ProcessorProofs` | types, retry budget and attempts, for any number of engines | `Processor` |
| `DeliveryProofs` | no job lost, refinement of `Delivery` | `ProcessorProofs` |
| `LeaseProofs` | theorems for one engine, refinement of `JobLifecycle`; crashes of any engine | `DeliveryProofs` |
| `BreakerProofs`, `EngineProofs`, `RetrySetProofs`, `ConfigurationProofs`, `MemoryProofs` | theorems | the module each is named after (`MemoryEngine` for the last) |

### Payload and RedisBroker

`ToJSON` drops `RawPayload`; `FromJSON` clamps and defaults as the code does.
`RawOrSerialize` is what `Ack` searches for. The job has the fields that crank reads
or changes on a job's way; `Args`, timestamps and the rest, which are carried along,
are left out, so that their round trip through JSON is assumed. Lists are sequences (LPUSH appends,
RPOP takes the head); a sorted set is a set of members plus the subset whose
score has been passed by the clock: `expired` for leases, `due` for retries.
Adding a member that is already there renews its score, as ZADD does, so two
leases on equal bytes are one. A call with a limit may return any subset of that
size (`Batches`), since scores are not kept: this allows every order of scores.

### Processor

Each goroutine has a program counter whose values are the points between two
broker calls; an action is one call with the local work up to the next one.

| code | actions |
|---|---|
| `fetcher` | `FetcherTop` (context, cursor), `FetcherPoll` (Dequeue), `FetcherSend` (channel), `FetcherHandBack`, `FetcherFallback`, `FetcherAck` (shutdown) |
| `worker`, `processJob`, `handleFailure` | `JobSucceeds`, `JobFails`, `JobMeetsOpenCircuit`, `WorkerSchedules`, `WorkerAcks`, `WorkerExits` |
| `retryLoop` | `RetryTick`, `RetrySkips`, `RetryRemoves`, `RetryEnqueues`, `RetryFallsBack`, `RetryExits` |
| `reaperLoop` | `ReaperTick`, `ReaperSkips`, `ReaperEnqueues`, `ReaperExits` |
| `Start`, `Stop` | `Start`, `Stop` (cancel), `StopReturns` (`wg.Wait`); a restart is a new process |
| `Client.Enqueue*`, `Queue.Clear` | `ClientEnqueue`, `ClearQueue` |
| environment | `Crash`, `OrphanLeaseExpires`, `HeldLeaseExpires`, `BackoffEnds` |

A call that returns an error may or may not have been done (`Call`). A call with
the engine's context fails without effect once `Stop` has cancelled it
(`CallWithEngineContext`), unless it was under way. A Go `select` with several
ready cases chooses freely: after `Stop`, a send to an idle worker or a tick may
still win. Batches are handled in any order, where the code has one order: the
scores that fix it are not kept.

The handler is abstract: it returns one of `Outcomes`. "circuit open" is what
the breaker middleware returns; `CircuitBreaker` says when. An attempt that
panics, times out, finds no worker or fails validation is an "error".

Disturbances (failing call, crash, stop, lease lost by a live holder, cleared
queue) are bounded per kind by `Scenarios`, a set of bounds of which one must
cover the whole behaviour: `{stop:1, slow:1}` allows both in one behaviour,
`{stop:1}, {slow:1}` one or the other. The theorems quantify over `Scenarios`.

`client`, `succeeded` and `failures` are history: what a client was told, which
handlers returned nil, how often a handler failed.

### CircuitBreaker

The lock makes `Allow` and `Record*` atomic; between them the job runs, and the
worker remembers the class and, as history, whether it is a probe. The class map
has a capacity, with the three eviction passes as the set `Victims`. Time is a
counter that other steps do not advance. `trippedAt` and `recent` are history,
against which the window is checked. The recovery middleware is outside the
breaker's (`engine.go`, `newEngine`), hence a panic records nothing.

### MemoryBroker and MemoryEngine

The in-memory broker differs from Redis in what a stored job is: a pointer to
the struct the client made, not bytes. A job is therefore its JID, and the one
field that matters and changes, `RetryCount`, is shared: when a lease runs out
under a worker and the job runs a second time, two workers increment the same
counter without a lock. `JobFails` reads it, `WorkerCounts` writes it back, and
the comparison in `WorkerSchedules` may use the worker's own value or the other
one's (`CountSeen`): these are the outcomes the race can have on a word.
Leases are all equally long and appended in order, so they run out from the
front. There is one engine, no crash (nothing would survive it), no failing
call; `Enqueue` with a cancelled context fails, which is decided under the lock
and therefore exact. `Init` is the state after `NewTestEngine` and `Start`. The
branches of the two loops for unknown queues and the fallback of the hand-back
cannot be reached here and are left out.

### Delivery and JobLifecycle

`Delivery` is at-least-once delivery in five sets of jobs: accepted, kept,
performed, buried, withdrawn (cleared with a queue). A job leaves `kept` only by
being performed, buried or withdrawn. `Processor` and `MemoryEngine` both
implement it (`AtLeastOnce`): the mapping takes `kept` to the jobs that are in
some queue, set or goroutine, so that one statement covers the two brokers,
however differently they store a job. Over Redis it is checked with a stop and a
lost lease together; failing calls and crashes break it (see 5).

`JobLifecycle` says more of less: each job waits, runs, and is done or dead once
and for all, failures are counted in order, and there is never a second copy.
One engine implements it as long as leases outlive their holders
(`FollowsLifecycle`); two engines do not, because two retry loops may enqueue
the same due job. `Postpone` (open circuit) and `GiveUp` (the retry loop's
fallback) are steps of it that the code has as well.

### Engine

One `Engine` object in one process. `Start` is its three stages (the flag of the
engine, the flag of the processor with the wrapping of the chain, the launching
of one goroutine after the other, each with its `wg.Add`); `Stop` is `stopOnce`,
cancel, `wg.Wait`, close. Application goroutines call them, the setters and
`Health` in any order, and call `Stop` before, during and after `Start`.
`wg.Wait` may return before `Start` has added its first goroutine; goroutines
launched after that find the context cancelled. Or it sleeps, the goroutines launched
so far exit and wake it (`Exits`, `StopWakes`), and `Start` adds the next one before
it has looked: then `sync.WaitGroup` panics and the process ends (`Panicked`). The fetcher, the workers and the
retry loop move jobs between places, without broker failures: what jobs suffer
is the matter of `Processor`. `emitEvent` drops at capacity; `metricsLoop`
receives and handles in two steps. `WorkerExecutes` has the choice of the
validator, the registry look-up, and the error if one of them fails.

`Scenarios` picks which feature the application uses besides `Start` and `Stop`:
middleware, validators with the registry, metrics, or `Health`. These touch
disjoint state (no action reads the variables of two of them), so that exploring
one at a time with the full life cycle loses nothing.

### RetrySet

`Processor` abstracts scores to due or not due. Here they are kept, in whole
seconds against a clock in half seconds, since `AddToRetry` cuts the time of the
retry and `GetRetryJobs` the current time. A batch is a sequence: the lowest
scores first, ties in any order (Redis compares bytes), at most `RetryLimit`.

Engines may share queues. A retry loop whose batch is stale removes a member that is
gone, which is no error, and enqueues the job a second time; the model therefore has
copies of jobs, of which those with the same bytes are one member of a set. When all
`Copies` of a job are in use, one more is taken to run and end at once. Every call of the
loop may fail, done or not: after `RemoveFromRetry` it goes on with its batch
(`RetryRemoveFails`), after `Enqueue` it charges an attempt and stores the job again
(`RetryFallsBack`), and if that fails too the job is lost. An open circuit stores a job
again under the bytes it had. `failed` (bytes an engine could not remove) and `doubled`
(jobs that were enqueued twice, or stored again under bytes some batch still lists) are
history, for the two places where the code gives no order. `GetStats` is a sequence of
commands between which jobs move; `stats.moved` is history.

### Configuration

A constructor call has a request from `Requests`: which constructor, how reading
the file ends, broker kind, URL scheme, environment, TLS, queues with their
weights in the three forms (option, YAML sequence, YAML map) and numbers at, below
and beyond the limits. The call builds the config, opens the broker, pings it,
builds the engine; two calls interleave. `SetGlobalClient` is an action of the
application: at any moment it may install the client of any engine that was built, also
of a stopped one, or none. `Poll` is the fetcher's cursor over the
list that the weights expand to, and `polls` counts one round of it.

## 3. Runs

Deadlock is checked where the system never stops; after `Stop`, `MemoryEngine`
stutters by an action of its own (`Stopped`). `Engine`, `RetrySet` and
`Configuration` do come to an end (everything stopped, or the clock at its
bound), and their runs do not check it; `StopReturns` and
`RetriedUnlessCrowded` say there that nothing hangs.

| run | instance | result |
|---|---|---|
| `one_engine` | one engine, two workers, two jobs, retry 0 or 1, one stop and restart; fair | type correctness; no job runs twice at once; what is in hand is leased; `Stop` returns and leaves no lease; every job finishes; implements `JobLifecycle` |
| `handover` | two engines on one queue, one job, a stop and a lease lost by a live holder in one behaviour | no job lost; implements `Delivery` |
| `recovery` | two engines on one queue, one job that may fail, a crash or a lost lease; fair | a crash loses at most what a retry loop or reaper had in its hands; everything else finishes; dead only after all attempts |
| `faults` | two engines with different queues; a failing call and a stop, or a crash, or a lost lease, or a cleared queue; open circuits | the retry budget; removal by value works; a failing call loses a job only where its error is just logged |
| `breaker` | three classes in a map for two, three workers, one class panics, clock to 4 | trips exactly when the window is full; stays open; half-open has a probe |
| `memory` | one engine over the in-memory broker, two workers, two jobs, a stop, clears, one open circuit, one lease that runs out | a job is in exactly one place; leases match holders; statistics account for every job; with the lost lease, still none is lost and none dies early; implements `Delivery` |
| `lifecycle` | one engine object, a starter, two stoppers, two workers, a job with one retry, a channel for two events; fair | no goroutine with a job once `Stop` returned to anyone; middleware and validators in force; `Health` truthful; events in order and accounted for; `Stop` returns, unless it overtakes `Start` and panics; it never hangs |
| `configuration` | two constructor calls, about 110 requests | weights as asked for, workers and timeout exactly as the rules have it; a client is open as long as a call or an engine needs it; the global client, whoever set it, is connected until its engine stops; `Health` names what is polled |
| `retry_order` | two engines that share a queue, one of them with a second queue, three jobs in four copies, one retry, two jobs per tick, clock to 4; a failing call, open circuits, or a `GetStats`; fair | retries in order, unless a removal failed, and less than a second early, unless the job was doubled; none starves unless crowded out; statistics off by no more than the jobs that moved |
| `reaped_unserved` | engines with different queues, a crash | **violated**: the reaper of the wrong engine drops the job |
| `dead_by_stop` | one engine, one stop | **violated**: dead one attempt early |
| `breaker_panic` | one class, panics; fair | **violated**: half-open for ever after a probe panicked |

The three violated properties are in `PROJECT.json` under findings, each with the
line of the repository that says otherwise.

Why these bounds. The interesting cases need two holders of one job (two engines
or two workers), one retry (so that a job passes through every structure twice
and both sides of the comparison with `Retry` occur), and one or two
disturbances; a second job matters for batches, for the channel and for the
capacity of a tick, which `one_engine` and `memory` have (in the first,
`RetryLimit` and `ReapLimit` are 1, so that a tick leaves something behind).
`StatLimit` 1 makes the trim happen. For the breaker, a threshold of 2 within a
window of 1 and a reset time of 2 leave room before, at and after each edge on a
clock to 4; a map for two of three classes makes every eviction pass happen. In
`lifecycle` one attempt sends three events, so that a channel for two overflows
within an attempt as well as between two; the second stopper is the one that
waits for `stopOnce`. In `retry_order` the two jobs of queue qb fill a tick of the engine that does not
serve it, so that the job of queue qa is crowded out there in some behaviours and retried
in others; a second copy of that job is what two engines make of it; and a half second
exists in which cutting to seconds matters. Its five scenarios are a failing call with
jobs of two queues, one with two jobs of the same queue (which could overtake), two open
circuits, three jobs without faults, and `GetStats`. In `configuration` two calls are what
the global client and a closed custom broker need, and the requests hold every value at,
below and above each limit, and timeouts of half a second and of one and a half.

What bounds leave out, knowingly. `retry_order` has a spare copy of one job only; the
theorems are for any number. `handover` has no failing call and no crash:
`handleFailure` acks also after `AddToRetry` failed, and then the job is gone
(`faults` has this, and says that such logged failures are the only ones to lose a job).
`recovery` has no open circuit: `Postpone` stores the very bytes the job was
leased by, a late Ack may then take the lease of the next holder, and if that one
crashes the job is lost though it was held by a worker. No run combines a crash
with a stop: `Stop` between the reaper's two calls then loses the job as in
`reaped_unserved`, because the re-enqueue uses the cancelled context. `one_engine`
is the only run that claims `HeldIsLeased`: with two engines, the hand-back of a
stopping engine acks bytes that the other has dequeued meanwhile.

Fairness. Weak fairness of each goroutine: the Go scheduler runs what can run,
and `Perform` returns because its context has the job timeout (a handler that
ignores its context would block a worker and `Stop` as well; this is assumed
not to happen). Weak fairness of `Start`: something restarts a stopped engine.
Weak fairness of the clock: leases nobody holds and backoffs end. No fairness is
assumed of clients, of outcomes, of `Stop` or of faults. A select between a tick
and `ctx.Done` has no fairness of its own; a tick that wins does finite work,
and `StopCompletes` holds since the due jobs are finitely many. In `Engine` the
goroutines that `Start` launched and the calls of `Start` and `Stop` go on once
begun; nobody is forced to begin one. In `RetrySet` the clock and the retry loops go
on; nothing is assumed of jobs, of `Stop` or of `GetStats`.

## 4. Theorems

All are checked by TLAPS for any engines, workers, callers, jobs, queues, classes,
requests and limits. They assume only the ASSUMEs on constants (ranges of the
limits; values such as `NoJob` are not jobs; polling lists are not empty; workers,
and in `RetrySet` copies and queues, are finitely many; at the start a job has one copy;
a request gives its queues in the forms that its constructor reads) and, where stated, a restriction on what happens:

| restriction | meaning |
|---|---|
| `Reliable` | no Redis call fails, no process crashes, no queue is cleared |
| `Undisputed` | no Redis call fails, no engine is stopped |
| `Calm` | no Redis call fails, no process crashes, no lease runs out under its holder |
| `Alone` | there is at most one engine |
| `Breakerless` | the handler never answers "circuit open" |
| `Recovering` | `Undisputed` and `Breakerless`, no queue is cleared, at most one crash in a behaviour, every engine serves every queue |

Those on what happens are properties of `Scenarios`, which otherwise may be any set
of bounds. Each restriction is needed: section 3 says for each what happens without
it. As to the one crash: when the lease of a slow holder has run out, the engine
whose reaper took it crashes, and then the holder's engine crashes too, the job is
gone though the second engine's reaper and retry loop never had it (TLC finds this
in nine steps when `recovery` is given two crashes and a slow holder together).

### Processor: any number of engines

* `TypeCorrect`: `TypeOK`. Inductive as it is, because `TypeOK` says that the list
  of a queue holds jobs of that queue (which the hand-back relies on when it
  enqueues to `job.queue`) and that a goroutine holds a job exactly in the program
  points that use one.
* `NothingLost` (`Reliable`): `NoJobLost`. It counts leases and is not inductive: a
  lease may be stale, and an Ack may remove somebody else's. The invariant `Carried`
  drops leases and the reaper: every accepted job is done, stored in a queue, retry
  or dead, or in the hands of a fetcher, worker or retry loop that has yet to store
  it. Each step that takes a job from one of these places puts it in another, so
  that lost leases and stale acks do no harm; `DownIsIdle` says that a process that
  is down holds nothing, needed for `Start`.
* `FailuresLoseOnlyUnstored`: `FailedCallsLoseOnlyUnstored`, an action property, under all
  faults. In a step that is neither a crash nor the clearing of a queue a job that is done,
  stored or in hand (`Settled`) stays so, unless a call failed whose error the code
  only logs (`OnlyLogged`: `AddToRetry`, `AddToDead` and the retry loop's
  `RemoveFromRetry`), or a `Dequeue` failed after it was done, which leaves the job under
  a lease.
* `DeliversAtLeastOnce` (`Reliable`): `AtLeastOnce`, the refinement of `Delivery`.
  `Carried` is not enough for it: the abstract `kept` counts every copy, also
  a stale lease or an entry of a loop's batch, and when the last of them goes, the
  job must have been performed or buried. `CopiesSettled` says that every copy there
  is belongs to a job that is settled; what is settled stays so (`StepSettled`), and
  each step is shown to be a step of `Delivery` or none (`Maps`).
* `BudgetKept`: `RetryBudget`, under all faults. The invariant `Budget` adds what
  each goroutine holds: fetcher, worker in `perform`, retry loop and reaper hold jobs
  with an attempt left, a worker about to schedule holds a job that is runnable or
  dead with `retry + 1` attempts.
* `RetryRemovalWorks`: `RetryJobsRemovable`, under all faults, from `BudgetKept`: the
  clamps of `FromJSON` change nothing that the budget allows.
* `DeadOnlyAfterFailures` (`Undisputed`; crashes and lost leases allowed):
  `DeadAfterAllAttempts`. The invariant `AttemptsCounted` says of every stored or held
  copy that its `RetryCount` is at most the number of failures that happened.
  `NeverStopping` excludes the fallback of the retry loop, which counts an attempt
  that nobody made: the finding of `dead_by_stop`.

* `CrashesLoseOnlyUnleased` (`Recovering`; any number of slow holders and restarts):
  `CrashLosesOnlyUnleased`, an action property. With several engines `HeldIsLeased` is
  false: a lease that ran out may be the reaper's, and a late Ack may end the lease of
  the next holder. What survives the crash is some other copy. `AckBacked` says that
  for every Ack to come there is, outside fetchers and workers, a copy with a higher
  `RetryCount` than the bytes that will be acked, or the job has finished; so whatever
  lease the Ack ends, a copy is left. `HandBacked` concludes from it that all that a
  fetcher or a worker holds is finished, stored, leased, or with some retry loop or
  reaper. Both hold up to the first crash, which is what the property needs.

### Processor: one engine

* `NeverTwiceAtATime` (`Calm`, `Alone`): `OneExecutor`. It speaks of workers only and
  rests on `Placed`: a job is in at most one of a queue, the retry set, the fetcher,
  one worker and the retry loop (`Apart`), and the retry loop's batch is in the retry
  set still. Stops, restarts, clears and open circuits are allowed.
* `StopGivesLeasesBack` (`Calm`, `Alone`): `StopLeavesNoLease`, from `AllHeld` (every
  lease is of a job that a goroutine holds or is about to ack) and `DownIsIdle`.
* `LeasesAreKept` (`Calm`, `Alone`, `Breakerless`): `HeldIsLeased`. What could break it
  is a late Ack of an earlier attempt, which searches by bytes. `AckedOlder` says that
  whatever is about to be acked has a smaller `RetryCount` than every copy that can
  still run, hence other bytes. With an open circuit this is false, and so is the
  property: `Postpone` stores the job with the count it had.
* `FollowsTheLifecycle` (`Calm`, `Alone`): `FollowsLifecycle`, the refinement of
  `JobLifecycle`. The phase of a job is read off the places it is in, so that a step
  keeps to the life cycle when the job that moves is nowhere else (`Placed`) and has
  not finished before. `LifeInv` adds that every copy counts the failures so far
  (`FailuresCounted`, which bounds them by `MaxRetryCount`, as `JobLifecycle` does; that a
  job's own `Retry` is kept is said by `RetryBudget` and `DeadAfterAllAttempts`), that of a finished job no
  copy is left (`FinishedGone`), and that a job nobody has enqueued has no past
  (`NewIsNew`). Stops, restarts, clears, open circuits and the retry loop's fallback
  are among the steps.

### CircuitBreaker

* `BreakerTypeCorrect`: `TypeOK`, with the bound on the map: of a full map, the three
  passes of eviction always find a victim.
* `OpenStaysOpen`: `OpenForResetTimeout`, by `TripsSettled`: an open circuit is due
  `ResetTimeout` after its trip, and any other has that moment behind it.
* `NoTripMissed`: `ClosedMeansBelowThreshold`, and `NoFalseTrip`:
  `TripsOnlyWhenWindowFull` (an action property). The list that `RecordFailure` keeps
  is trimmed to the window; `recent` is the untrimmed history. `WindowsTracked` says
  that the list is a suffix of the history, and what the history has before it is too
  old to matter.
* `ProbeUnderWay`: `HalfOpenHasProbe`, inductive with `TypeOK`.

### Engine

All rest on `CoreInv`: the order in which `Start` launches goroutines, who is
running when a job is in hand, and that a job is in one place.

* `EngineTypeCorrect`: `TypeOK`, with the WaitGroup as the exact number of running
  goroutines and the channel within its capacity.
* `StopReturnsDrained`: `StoppedHoldsNoJob`. `wg.Wait` may see zero before `Start` has
  launched everything; `StopOrder` says that then too everything is `Drained`, which
  goroutines launched later preserve since the context is cancelled. A `Stop` that
  panics has not returned.
* `AcceptedSettersApply`: `SettersTakeEffect`, for middleware and validators; nothing
  reads what `SetRedactor` sets (see 5).
* `HealthAnswersTruthfully`: `HealthTruthful`, with `HealthInv` for what was read
  between the two steps of the call.
* `MetricsAccountForResults`: `EventsAccounted`, as an equation of cardinalities.
* `EventsHandledInOrder`: `EventsInOrder` (an action property). `OrderInv` gives every
  event a rank (three per attempt): ranks of one job increase from the last event
  handled through the one in hand and the channel to the next one that will be sent.

### Configuration

* `NoClientLeaks`: `ClientsOwned`, and `GlobalClientStaysConnected`:
  `GlobalClientServes`, by `ClientsInv`: only a call on its way to Redis dials
  (`BrokerFits`), the global client is of an engine that was built whether `QuickStart` or
  `SetGlobalClient` installed it (`GlobalBuilt`), and `closed` is the doing of a stopped
  engine over the custom broker, which is the exception that the property makes.
* `RequestsAreHonoured`: `RequestHonoured`, which says exactly what an engine runs with:
  as many workers as asked for within the limits; a timeout cut to whole seconds, capped
  in a file and not in an option, and the default where it is less than a second, also when it is
  positive (see 5). The numbers computed at the first step are carried to the end
  (`NumbersKept`, in the theorem `SettingsAreHonoured`); for the names of `Health`, the
  list of the call is the one its request expands to (`ListKept`).
* `WeightsAreRespected`: `WeightsRespected`. `RoundInv` says that at every cursor the
  polls counted so far are the places of the queue that the round has passed
  (`RoundsKept`). How often a queue is in the list, and which names are left after
  removing duplicates, is what the code's loops compute over the queues of the
  request: proved for lists of any length by induction over the rounds of the loop.

### RetrySet

* `RetriesNotEarly`: `NotEarly`, and `RetriesInOrder`: `NoOvertaking`, both action
  properties, whatever queues the engines share and however often calls fail. A batch is
  read long before its jobs are moved, and meanwhile other engines remove its members and
  workers store them anew. `OrderInv` says what stays true of it: its entries were due and
  are sorted (`EntriesDue`, `BatchSorted`), no member that waits comes before one of them
  but those listed earlier (`Foremost`), and what was moved last is not after what waits
  (`LastPassed`). Members an engine failed to remove are left out (`Own`): after such a failure
  the loop goes on, and a later job does overtake. `EarlyInv` is for `NotEarly`: a job
  that was not doubled exists in one copy (`OneCopy`), which has used up as many attempts as
  any bytes listed in a batch say (`CountsBehind`), so that a stale entry either misses it or
  lists a member that is due (`ListedDue`). Of a doubled job none of this is true, and it
  may be enqueued before its time.
* `StatsAreNearlyExact`: `StatsNearlyExact`. `GetStats` reads numbers; the invariant
  `StatsInv` says of which set of jobs each is the size (`Saw`), and that this set
  differs from the jobs there now only in jobs that moved since the call began.

### MemoryEngine

No restriction: the properties themselves say until when they hold.

* `TestEngineDelivers`: `AtLeastOnce`. `Carried` (accepted jobs are in `Safe` places)
  and the sets of places before and after each step; the reaper only adds copies.
* `TestEngineDeadAfterFailures`: `DeadAfterAllAttempts`. `CountsInv` bounds the shared
  counter and each worker's copy of it by the failures so far: the race loses updates
  and never invents one.
* `JobsAreConserved`: `Conserved`, and `LeasesAreHeld`: `LeasesMatchHolders`. `EvenInv`
  counts copies and leases over all lists and hands; what is read in a batch is still
  in the retry list (`BatchInRetry`).
* `StatsAccount`: `StatsAccountForJobs`, from `OnePlace`, `Carried` and
  `SuccessesCounted` (the counter is at least the number of jobs that succeeded).

What searching and filtering a list gives, here and in `Configuration`, is proved by
induction on positions, with a set in the place of the predicate (its least
counterexample exists since `<` is well founded): the library's induction theorems
take an operator, which the provers cannot instantiate.

### Only model-checked

Liveness, which is beyond the prover: `EveryJobFinishes`, `EveryKeptJobFinishes`,
`StopCompletes`, `StopReturns`, `RetriedUnlessCrowded`. Every other property of the
passing runs is proved.

## 5. Observations

Behaviour of the code that the models show and that no run reports as a
violation, for a reader who changes it:

* `processor.go:293`, `:302`: Ack after a failed `AddToRetry` or `AddToDead`.
* `processor.go:221`: the hand-back acks after it has enqueued the same bytes; the
  lease it removes may be another engine's. The job is not lost unless that
  engine crashes as well.
* `redis_broker.go:280`: a retry may come up to a second early.
* `processor.go:336`: where engines share a queue, a batch that was read before another
  engine took its jobs enqueues them a second time, and may take one from the set before
  its time if it was stored again under the same bytes. If the removal fails, the loop goes on, and a later
  job of the batch overtakes.
* `processor.go:141` to `:166`: a `Stop` that overtakes `Start` waits for a `WaitGroup` to
  which `Start` still adds. If the goroutines launched so far have exited by then and
  woken `Wait`, the next `wg.Add` makes it panic ("WaitGroup is reused before previous
  Wait has returned").
* `crank.go:54`: `WithTimeout(500ms)` gives a timeout of 8 s, since it is cut to whole
  seconds and zero means the default. `options.go:60` says that the option sets the timeout, and
  `tests/crank_e2e_test.go:492-496` uses 500 ms; that test passes, as it waits 10 s for
  the failure. The cap of a day is applied to YAML files (`config.go`) and not to options.
* A YAML file without queues: "default" is polled, and `Health` reports no queue.
* `engine.go:128`: `Stop` closes a custom broker, also one shared with another
  engine, and with it that engine's client, be it the global one.
* `client.go:24`: `SetGlobal` takes any client, also of an engine that has stopped.
* `Start` after `Stop` returns nil and starts goroutines that leave at once.
* `engine.go:132` calls the redactor "used by logging middleware"; the middleware
  is built in `newEngine` (`engine.go:66`) without it, and nothing reads it.
* A validation failure or an unknown class counts as a failure of its class in
  the circuit breaker, since the breaker wraps `execute`.

## 6. Not modelled

The predicates of the validators and the rewriting of redactors and of URLs:
pure functions of strings, sizes and nested values, which the model has reduced
to "valid or not". The text of YAML files and paths: how reading them ends is
modelled. Logging, the example. Retries inside go-redis (a call of the model may
already fail after having been done). Bytes in Redis that do not parse: no call
of crank stores any. The statistics entry is two Redis commands and one step
here. The data race between `Use` of one goroutine and `Start` of another on
`Chain.middlewares` does not exist (`SettersTakeEffect`); that of `wg.Add` with
`wg.Wait`, which the documentation of `WaitGroup` forbids, is taken as what the
implementation does: `Wait` returns when it sees zero, or panics when it was woken and
then does not. `Args` and the other fields of a job that crank only carries; their round trip
through JSON is assumed. `SetRedactor`, which sets what nothing reads.

## 7. Plan

Done: the job, both brokers, the processor, the breaker, the engine's life cycle
with its metrics, the order of the retry set, configuration; two abstract
specifications with refinements; all safety and action properties of the passing
runs proved. Left, in this order:

1. Crashes together with failing calls: which jobs are at risk when `Ack` follows a
   failed `AddToRetry` and the process dies.
2. The validators as predicates on small structured values.
