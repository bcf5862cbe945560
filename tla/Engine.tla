------------------------------- MODULE Engine -------------------------------
(***************************************************************************)
(* engine.go and the parts of internal/queue/processor.go that start, stop *)
(* and observe an engine: the setters that must come before Start, Start   *)
(* and Stop called from several goroutines of the application, the         *)
(* WaitGroup, Health, validation before a job runs, and the metrics        *)
(* channel between the workers and metricsLoop.                            *)
(*                                                                         *)
(* What happens to the jobs in the broker is the matter of Processor; here *)
(* a job waits, is in a goroutine's hands, awaits its retry, or is over.   *)
(* Broker calls do not fail, except Ping and those with a cancelled        *)
(* context; the breaker stays closed.                                      *)
(***************************************************************************)
EXTENDS Integers, Sequences, SequencesExt, FiniteSets

CONSTANTS
  JIDs,
  ValidJobs,  \* the jobs that the strict validator accepts
  Retry,      \* Job.Retry
  Workers,    \* worker goroutines
  Capacity,   \* of the metrics channel, max(10, 10 * cfg.Concurrency) in the code
  Starters,   \* application goroutines that call Engine.Start
  Stoppers,   \* application goroutines that call Engine.Stop
  MaxUse,     \* bound on calls of Engine.Use
  Scenarios,  \* what else the application may do in a run
  NoJob, NoChannel

Validators == {"none", "lenient", "strict"}
Loops == {"retryLoop", "reaperLoop", "metricsLoop"}
Goroutines == {"fetcher"} \cup Workers \cup Loops
Outcome == {"job_succeeded", "job_failed"}
EventType == Outcome \cup {"job_started", "job_retry_scheduled", "job_moved_to_dead"}
JobEvent == [type : EventType, jid : JIDs, attempt : Nat]

ASSUME EngineAssumption ==
  /\ ValidJobs \subseteq JIDs
  /\ Retry \in Nat /\ Capacity \in Nat \ {0} /\ MaxUse \in Nat
  /\ IsFiniteSet(Workers) /\ Workers \cap ({"fetcher"} \cup Loops) = {}
  /\ Scenarios \subseteq {"middleware", "validators", "metrics", "health"}
  /\ NoJob \notin JIDs \cup JobEvent /\ NoChannel \notin Seq(JobEvent)

VARIABLES
  scenario,
  chain, handler,    \* middlewares in the chain, and in the handler wrapped from it
  validator,         \* Processor.validator, and payload's default validator
  defaultValidator,
  registered,        \* the worker class is in the engine's registry or in the global one
  metrics,           \* a metrics handler is set
  events,            \* the metrics channel
  engineStarted,     \* Engine.started
  processorStarted,  \* Processor.started
  starter, stopper,  \* pc of each application goroutine
  launched,          \* how many goroutines Start has launched
  goroutine,         \* of each goroutine: "none", "running", "exited"
  wg,                \* Processor.wg
  cancelled,         \* the engine's context is done
  once,              \* Engine.stopOnce
  closed,            \* the broker is closed
  waiting, retrySet, retryCount,  \* the jobs in the broker
  fetcher, worker,   \* what these goroutines do, and their job
  handling,          \* the event that metricsLoop handles, if any
  totals,            \* InMemoryMetrics
  prober,            \* a call of Engine.Health, and its answer
  outcomes, lost,    \* history: results reported, and results whose event is gone
  seen               \* history: rank of the last event handled, per job

setup == <<scenario, chain, validator, defaultValidator, registered, metrics>>
started == <<engineStarted, processorStarted, handler, starter, launched>>
stopped == <<once, cancelled, closed>>
tasks == <<goroutine, wg, stopper>>
jobs == <<waiting, retrySet, retryCount>>
hands == <<fetcher, worker>>
channel == <<events, outcomes, lost>>
metering == <<handling, totals, seen>>
vars == <<setup, started, stopped, tasks, jobs, hands, channel, metering, prober>>

NoCall == [pc |-> "idle", started |-> FALSE, status |-> "none", since |-> "none"]

Init ==
  /\ scenario \in Scenarios
  /\ chain = 0 /\ handler = 0
  /\ validator = "none" /\ defaultValidator = "none"
  /\ registered = (scenario # "validators")
  /\ metrics = FALSE /\ events = NoChannel
  /\ engineStarted = FALSE /\ processorStarted = FALSE /\ launched = 0
  /\ starter = [s \in Starters |-> "idle"]
  /\ stopper = [s \in Stoppers |-> "idle"]
  /\ goroutine = [g \in Goroutines |-> "none"]
  /\ wg = 0 /\ cancelled = FALSE /\ once = "free" /\ closed = FALSE
  /\ waiting = JIDs /\ retrySet = {} /\ retryCount = [jid \in JIDs |-> 0]
  /\ fetcher = [pc |-> "top", job |-> NoJob]
  /\ worker = [w \in Workers |-> [pc |-> "idle", job |-> NoJob]]
  /\ handling = NoJob /\ prober = NoCall
  /\ totals = [t \in Outcome |-> 0]
  /\ outcomes = totals /\ lost = totals
  /\ seen = [jid \in JIDs |-> -1]

-----------------------------------------------------------------------------
(* Setters; a call that comes too late returns an error and changes nothing. *)

SetupOnly == UNCHANGED <<scenario, started, stopped, tasks, jobs, hands, outcomes, lost,
                         metering, prober>>

\* Faulty variant: Use does not ask whether the engine has started.
UseAnytime ==
  /\ chain < MaxUse
  /\ chain' = chain + 1
  /\ UNCHANGED <<validator, defaultValidator, registered, metrics, events>>
  /\ SetupOnly

Use ==
  /\ ~engineStarted
  /\ chain < MaxUse
  /\ chain' = chain + 1
  /\ UNCHANGED <<validator, defaultValidator, registered, metrics, events>>
  /\ SetupOnly

SetValidator(v) ==
  /\ ~engineStarted /\ ~processorStarted
  /\ validator' = v
  /\ UNCHANGED <<chain, defaultValidator, registered, metrics, events>>
  /\ SetupOnly

\* SetMetricsHandler(h), h being nil or not: the channel is made once and stays.
SetMetricsHandler(h) ==
  /\ ~processorStarted
  /\ metrics' = h
  /\ events' = IF h /\ events = NoChannel THEN <<>> ELSE events
  /\ UNCHANGED <<chain, validator, defaultValidator, registered>>
  /\ SetupOnly

\* payload.SetDefaultValidator, and Engine.Register and RegisterWorker: at any time.
SetDefaultValidator(v) ==
  /\ defaultValidator' = v
  /\ UNCHANGED <<chain, validator, registered, metrics, events>>
  /\ SetupOnly

Register ==
  /\ registered' = TRUE
  /\ UNCHANGED <<chain, validator, defaultValidator, metrics, events>>
  /\ SetupOnly

Setters ==
  \/ scenario = "middleware" /\ Use
  \/ scenario = "validators" /\ \/ \E v \in Validators : SetValidator(v)
                                \/ \E v \in Validators : SetDefaultValidator(v)
                                \/ Register
  \/ scenario = "metrics" /\ \E h \in BOOLEAN : SetMetricsHandler(h)

-----------------------------------------------------------------------------
(* Start. *)

StarterGoes(s, pc) == starter' = [starter EXCEPT ![s] = pc]

EngineStart(s) ==
  /\ starter[s] = "idle"
  /\ StarterGoes(s, IF engineStarted THEN "refused" ELSE "processor")
  /\ engineStarted' = TRUE
  /\ UNCHANGED <<processorStarted, handler, launched>>
  /\ UNCHANGED <<setup, stopped, tasks, jobs, hands, channel, metering, prober>>

ProcessorStart(s) ==
  /\ starter[s] = "processor"
  /\ StarterGoes(s, IF processorStarted THEN "refused" ELSE "launch")
  /\ processorStarted' = TRUE
  /\ handler' = IF processorStarted THEN handler ELSE chain
  /\ UNCHANGED <<engineStarted, launched>>
  /\ UNCHANGED <<setup, stopped, tasks, jobs, hands, channel, metering, prober>>

LaunchOrder ==
  <<"fetcher">> \o SetToSeq(Workers) \o <<"retryLoop", "reaperLoop">>
  \o (IF events = NoChannel THEN <<>> ELSE <<"metricsLoop">>)

\* Faulty variant: wg.Add(1) once, before the workers, instead of for each.
AddsNothing(g) == IF g \in Workers THEN 0 ELSE 1

\* The argument of wg.Add before the go statement of g.
Adds(g) == 1

\* wg.Add and the go statement, for one goroutine after the other.
Launch(s) ==
  LET g == LaunchOrder[launched + 1] IN
  /\ starter[s] = "launch"
  /\ launched' = launched + 1
  /\ goroutine' = [goroutine EXCEPT ![g] = "running"]
  /\ wg' = wg + Adds(g)
  /\ StarterGoes(s, IF launched' = Len(LaunchOrder) THEN "started" ELSE "launch")
  /\ UNCHANGED <<engineStarted, processorStarted, handler, stopper>>
  /\ UNCHANGED <<setup, stopped, jobs, hands, channel, metering, prober>>

Starter(s) == EngineStart(s) \/ ProcessorStart(s) \/ Launch(s)

-----------------------------------------------------------------------------
(* Stop. *)

StopperGoes(s, pc) == stopper' = [stopper EXCEPT ![s] = pc]

\* Faulty variant: the context is not cancelled.
StopForgetsCancel(s) ==
  /\ stopper[s] = "idle"
  /\ StopperGoes(s, IF once = "free" THEN "wait" ELSE "once")
  /\ once' = IF once = "free" THEN "running" ELSE once
  /\ UNCHANGED <<cancelled, closed>>

\* stopOnce.Do: the first caller runs the function, which cancels the context ...
StopCalled(s) ==
  /\ stopper[s] = "idle"
  /\ StopperGoes(s, IF once = "free" THEN "wait" ELSE "once")
  /\ once' = IF once = "free" THEN "running" ELSE once
  /\ cancelled' = TRUE
  /\ UNCHANGED closed

\* ... and the others wait for its end.
StopOnce(s) ==
  /\ stopper[s] = "once"
  /\ once = "done"
  /\ StopperGoes(s, "returned")
  /\ UNCHANGED <<once, cancelled, closed>>

\* wg.Wait finds that nothing is counted, ...
StopWaits(s) ==
  /\ stopper[s] = "wait"
  /\ wg = 0
  /\ StopperGoes(s, "close")
  /\ UNCHANGED <<once, cancelled, closed>>

\* ... or it slept, and the Done that brought the count to zero has woken it:
\* sync.WaitGroup panics ("reused before previous Wait has returned") if Start has
\* added to it since.
StopWakes(s) ==
  /\ stopper[s] = "woken"
  /\ StopperGoes(s, IF wg = 0 THEN "close" ELSE "panicked")
  /\ UNCHANGED <<once, cancelled, closed>>

\* Faulty variant: the broker stays open.
StopLeavesOpen(s) ==
  /\ stopper[s] = "close"
  /\ once' = "done"
  /\ StopperGoes(s, "returned")
  /\ UNCHANGED <<cancelled, closed>>

StopCloses(s) ==
  /\ stopper[s] = "close"
  /\ closed' = TRUE
  /\ once' = "done"
  /\ StopperGoes(s, "returned")
  /\ UNCHANGED cancelled

StopProceeds(s) ==
  StopOnce(s) \/ StopWaits(s) \/ StopWakes(s) \/ StopCloses(s)

Stopping(Step(_), s) ==
  Step(s) /\ UNCHANGED <<setup, started, goroutine, wg, jobs, hands, channel, metering, prober>>

-----------------------------------------------------------------------------
(* The metrics channel. *)

\* An event names the attempt it is about (history); the code sends the job's pointer.
NewEvent(type, jid) == [type |-> type, jid |-> jid, attempt |-> retryCount[jid]]

Add(counts, type) == IF type \in Outcome THEN [counts EXCEPT ![type] = @ + 1] ELSE counts

\* Faulty variant: a full channel makes room by forgetting its oldest event.
SendOverwriting(event) ==
  /\ events' = Append(IF Len(events) < Capacity THEN events ELSE Tail(events), event)
  /\ UNCHANGED lost

\* Faulty variant: each event is sent by a goroutine of its own.
SendAsync(event) ==
  IF Len(events) < Capacity
  THEN /\ \E i \in 1..Len(events) + 1 : events' = InsertAt(events, i, event)
       /\ UNCHANGED lost
  ELSE /\ lost' = Add(lost, event.type)
       /\ UNCHANGED events

\* The send gives up when the channel is full.
Send(event) ==
  IF Len(events) < Capacity
  THEN /\ events' = Append(events, event)
       /\ UNCHANGED lost
  ELSE /\ lost' = Add(lost, event.type)
       /\ UNCHANGED events

EmitEvent(type, jid) ==
  IF events = NoChannel THEN UNCHANGED channel
  ELSE Send(NewEvent(type, jid)) /\ outcomes' = Add(outcomes, type)

\* wg.Done; the last one wakes the caller of wg.Wait, if it is asleep by then.
Exits(g) ==
  /\ goroutine' = [goroutine EXCEPT ![g] = "exited"]
  /\ wg' = wg - Adds(g)
  /\ \/ UNCHANGED stopper
     \/ /\ wg' = 0
        /\ stopper' = [s \in Stoppers |-> IF stopper[s] = "wait" THEN "woken" ELSE stopper[s]]

MetricsReceive ==
  /\ goroutine["metricsLoop"] = "running" /\ handling = NoJob
  /\ events # <<>>
  /\ handling' = Head(events)
  /\ events' = Tail(events)
  /\ UNCHANGED <<totals, seen, outcomes, lost>>
  /\ UNCHANGED <<setup, started, stopped, tasks, jobs, hands, prober>>

\* The place of an event in the life of its job.
Rank(event) == 3 * event.attempt
  + CASE event.type = "job_started" -> 0
      [] event.type \in Outcome -> 1
      [] event.type \in {"job_retry_scheduled", "job_moved_to_dead"} -> 2

\* InMemoryMetrics.HandleJobEvent, if a handler is set.
MetricsHandle ==
  /\ handling # NoJob
  /\ handling' = NoJob
  /\ IF metrics
     THEN /\ totals' = Add(totals, handling.type)
          /\ seen' = [seen EXCEPT ![handling.jid] = Rank(handling)]
          /\ UNCHANGED lost
     ELSE /\ lost' = Add(lost, handling.type)
          /\ UNCHANGED <<totals, seen>>
  /\ UNCHANGED <<events, outcomes>>
  /\ UNCHANGED <<setup, started, stopped, tasks, jobs, hands, prober>>

\* A loop leaves; its tick, or an event, may win the select before that.
LoopExits(g) ==
  /\ goroutine[g] = "running" /\ cancelled
  /\ g = "metricsLoop" => handling = NoJob
  /\ Exits(g)
  /\ UNCHANGED <<setup, started, stopped, jobs, hands, channel, metering, prober>>

-----------------------------------------------------------------------------
(* fetcher(), worker() and retryLoop(), as far as they move jobs and events. *)

FetcherGoes(pc, jid) == fetcher' = [pc |-> pc, job |-> jid]

FetcherTop ==
  /\ goroutine["fetcher"] = "running" /\ fetcher.pc = "top"
  /\ IF cancelled THEN Exits("fetcher") /\ UNCHANGED fetcher
                  ELSE FetcherGoes("poll", NoJob) /\ UNCHANGED tasks
  /\ UNCHANGED <<setup, started, stopped, jobs, worker, channel, metering, prober>>

\* Dequeue: a job, or nothing within the second.
FetcherPoll ==
  /\ fetcher.pc = "poll"
  /\ \/ \E jid \in waiting : waiting' = waiting \ {jid} /\ FetcherGoes("send", jid)
     \/ waiting = {} /\ FetcherGoes("top", NoJob) /\ UNCHANGED waiting
  /\ UNCHANGED <<retrySet, retryCount, worker>>
  /\ UNCHANGED <<setup, started, stopped, tasks, channel, metering, prober>>

FetcherSend ==
  /\ fetcher.pc = "send"
  /\ \E w \in Workers :
       /\ goroutine[w] = "running" /\ worker[w].pc = "idle"
       /\ worker' = [worker EXCEPT ![w] = [pc |-> "begin", job |-> fetcher.job]]
  /\ FetcherGoes("top", NoJob)
  /\ UNCHANGED <<setup, started, stopped, tasks, jobs, channel, metering, prober>>

FetcherHandBack ==
  /\ fetcher.pc = "send" /\ cancelled
  /\ waiting' = waiting \cup {fetcher.job}
  /\ FetcherGoes("top", NoJob)
  /\ Exits("fetcher")
  /\ UNCHANGED <<retrySet, retryCount, worker>>
  /\ UNCHANGED <<setup, started, stopped, channel, metering, prober>>

Fetcher == FetcherTop \/ FetcherPoll \/ FetcherSend \/ FetcherHandBack

WorkerGoes(w, pc, jid) == worker' = [worker EXCEPT ![w] = [pc |-> pc, job |-> jid]]

Processing == UNCHANGED <<setup, started, stopped, tasks, fetcher, metering, prober>>

WorkerBegins(w) ==
  /\ worker[w].pc = "begin"
  /\ EmitEvent("job_started", worker[w].job)
  /\ WorkerGoes(w, "execute", worker[w].job)
  /\ UNCHANGED jobs
  /\ Processing

\* The engine-scoped validator, else the default one.
EffectiveValidator == IF validator # "none" THEN validator ELSE defaultValidator

\* execute(): validation, then the registries, then Perform begins or an error.
WorkerExecutes(w) ==
  LET jid == worker[w].job
      valid == EffectiveValidator = "strict" => jid \in ValidJobs
  IN
  /\ worker[w].pc = "execute"
  /\ WorkerGoes(w, IF valid /\ registered THEN "perform" ELSE "failed", jid)
  /\ UNCHANGED <<jobs, channel>>
  /\ Processing

JobSucceeds(w) ==
  /\ worker[w].pc = "perform"
  /\ EmitEvent("job_succeeded", worker[w].job)
  /\ WorkerGoes(w, "idle", NoJob)
  /\ UNCHANGED jobs
  /\ Processing

JobFails(w) ==
  /\ worker[w].pc \in {"perform", "failed"}
  /\ EmitEvent("job_failed", worker[w].job)
  /\ WorkerGoes(w, "schedule", worker[w].job)
  /\ UNCHANGED jobs
  /\ Processing

MayRetry(jid) == retryCount[jid] < Retry

\* handleFailure reports the next step, ...
WorkerReports(w) ==
  LET jid == worker[w].job IN
  /\ worker[w].pc = "schedule"
  /\ EmitEvent(IF MayRetry(jid) THEN "job_retry_scheduled" ELSE "job_moved_to_dead", jid)
  /\ WorkerGoes(w, "store", jid)
  /\ UNCHANGED jobs
  /\ Processing

\* ... and only then takes it.
WorkerStores(w) ==
  LET jid == worker[w].job IN
  /\ worker[w].pc = "store"
  /\ retrySet' = IF MayRetry(jid) THEN retrySet \cup {jid} ELSE retrySet
  /\ retryCount' = [retryCount EXCEPT ![jid] = @ + 1]
  /\ WorkerGoes(w, "idle", NoJob)
  /\ UNCHANGED <<waiting, channel>>
  /\ Processing

\* The fetcher has closed the channel.
WorkerExits(w) ==
  /\ goroutine[w] = "running" /\ worker[w].pc = "idle"
  /\ goroutine["fetcher"] = "exited"
  /\ Exits(w)
  /\ UNCHANGED <<setup, started, stopped, jobs, hands, channel, metering, prober>>

Worker(w) == \/ WorkerBegins(w) \/ WorkerExecutes(w) \/ JobSucceeds(w) \/ JobFails(w)
             \/ WorkerReports(w) \/ WorkerStores(w) \/ WorkerExits(w)

\* A tick of retryLoop: back to the queue, or, with a cancelled context, the
\* Enqueue fails and an attempt is charged.
RetryMoves ==
  /\ goroutine["retryLoop"] = "running" /\ ~closed
  /\ \E jid \in retrySet :
       IF ~cancelled
       THEN /\ waiting' = waiting \cup {jid} /\ retrySet' = retrySet \ {jid}
            /\ UNCHANGED retryCount
       ELSE /\ retrySet' = IF MayRetry(jid) THEN retrySet ELSE retrySet \ {jid}
            /\ retryCount' = [retryCount EXCEPT ![jid] = @ + 1]
            /\ UNCHANGED waiting
  /\ UNCHANGED <<setup, started, stopped, tasks, hands, channel, metering, prober>>

-----------------------------------------------------------------------------
(* Health. *)

\* The last of Start and Stop to have returned so far.
Moment ==
  IF \E s \in Stoppers : stopper[s] = "returned" THEN "stopped"
  ELSE IF \E s \in Starters : starter[s] = "started" THEN "started" ELSE "none"

HealthReads ==
  /\ scenario = "health"
  /\ prober.pc = "idle"
  /\ prober' = [pc |-> "ping", started |-> engineStarted, status |-> "none", since |-> Moment]

\* Ping fails on a closed broker, and when the network does.
HealthPings ==
  /\ prober.pc = "ping"
  /\ \E reachable \in BOOLEAN :
       /\ closed => ~reachable
       /\ prober' = [prober EXCEPT !.pc = "answered",
            !.status = IF ~reachable THEN "unreachable"
                       ELSE IF prober.started THEN "ok" ELSE "not started"]

HealthReturns ==
  /\ prober.pc = "answered"
  /\ prober' = NoCall

Health ==
  /\ HealthReads \/ HealthPings \/ HealthReturns
  /\ UNCHANGED <<setup, started, stopped, tasks, jobs, hands, channel, metering>>

-----------------------------------------------------------------------------
\* A panic in Stop ends the process.
Panicked == \E s \in Stoppers : stopper[s] = "panicked"

Next ==
  /\ ~Panicked
  /\ \/ Setters
     \/ \E s \in Starters : Starter(s)
     \/ \E s \in Stoppers : Stopping(StopCalled, s) \/ Stopping(StopProceeds, s)
     \/ \E g \in Loops : LoopExits(g)
     \/ MetricsReceive \/ MetricsHandle
     \/ Fetcher \/ RetryMoves
     \/ \E w \in Workers : Worker(w)
     \/ Health

Spec == Init /\ [][Next]_vars

\* Goroutines run on, Perform returns (it is given a deadline), the metrics
\* handler returns, and a select in a loop does not ignore its done context for
\* ever. Nobody has to call Start, Stop, Health or a setter.
Fairness ==
  /\ \A s \in Starters : WF_vars(~Panicked /\ (ProcessorStart(s) \/ Launch(s)))
  /\ \A s \in Stoppers : WF_vars(~Panicked /\ Stopping(StopProceeds, s))
  /\ \A g \in Loops : WF_vars(~Panicked /\ LoopExits(g))
  /\ WF_vars(~Panicked /\ (MetricsReceive \/ MetricsHandle))
  /\ WF_vars(~Panicked /\ Fetcher)
  /\ \A w \in Workers : WF_vars(~Panicked /\ Worker(w))

FairSpec == Spec /\ Fairness

-----------------------------------------------------------------------------
(* Properties. *)

\* The setters' fields, and what Start made of them.
SetupType ==
  /\ chain \in 0..MaxUse /\ handler \in 0..MaxUse
  /\ {validator, defaultValidator} \subseteq Validators
  /\ {registered, metrics} \subseteq BOOLEAN

\* The progress of Start and Stop.
LifeType ==
  /\ {engineStarted, processorStarted, cancelled, closed} \subseteq BOOLEAN
  /\ starter \in [Starters -> {"idle", "refused", "processor", "launch", "started"}]
  /\ launched \in 0..Len(LaunchOrder)
  /\ once \in {"free", "running", "done"}

\* The goroutines, of which the WaitGroup counts those that run, and who waits.
TasksType ==
  /\ goroutine \in [Goroutines -> {"none", "running", "exited"}]
  /\ wg = Cardinality({g \in Goroutines : goroutine[g] = "running"})
  /\ stopper \in [Stoppers -> {"idle", "once", "wait", "woken", "close",
                              "returned", "panicked"}]

\* The jobs and who has them.
JobsType ==
  /\ waiting \subseteq JIDs /\ retrySet \subseteq JIDs
  /\ retryCount \in [JIDs -> 0..Retry + 1]
  /\ fetcher \in [pc : {"top", "poll", "send"}, job : JIDs \cup {NoJob}]
  /\ worker \in [Workers -> [pc : {"idle", "begin", "execute", "perform", "failed",
                                  "schedule", "store"}, job : JIDs \cup {NoJob}]]

\* The metrics channel and the counts.
ChannelType ==
  /\ events # NoChannel => events \in Seq(JobEvent) /\ Len(events) <= Capacity
  /\ handling \in JobEvent \cup {NoJob}
  /\ {totals, outcomes, lost} \subseteq [Outcome -> Nat]
  /\ seen \in [JIDs -> Int]

\* The variables have the types of the fields they stand for, and the
\* WaitGroup counts the goroutines that run.
TypeOK == SetupType /\ LifeType /\ TasksType /\ JobsType /\ ChannelType

\* When Engine.Stop has returned to anyone, also to a caller that only waited
\* for stopOnce and also when Start was still launching goroutines, no
\* goroutine holds a job, and the broker is closed.
StoppedHoldsNoJob ==
  (\E s \in Stoppers : stopper[s] = "returned") =>
    /\ closed
    /\ fetcher.job = NoJob
    /\ \A w \in Workers : worker[w].job = NoJob

\* What a setter accepted takes effect on every job. All middlewares are around
\* it, though the check of Engine.started and the wrapping in Processor.Start are
\* under two different mutexes; and a job that the engine-scoped validator
\* rejects is not performed, whatever default validator is installed meanwhile.
SettersTakeEffect ==
  \A w \in Workers :
    /\ worker[w].pc \in {"execute", "perform"} => handler = chain
    /\ worker[w].pc = "perform" /\ validator = "strict" => worker[w].job \in ValidJobs

\* Health says "ok" only of an engine that had been started, and not stopped,
\* when the call began, and misses a Start only if none had returned by then.
HealthTruthful ==
  /\ prober.status = "ok" => prober.started /\ prober.since # "stopped"
  /\ prober.status = "not started" => prober.since # "started"

\* The handler sees the events of a job in the order of its life, though its
\* attempts are made by different workers and events may be dropped.
EventsInOrder ==
  [][\A jid \in JIDs : seen'[jid] # seen[jid] => seen'[jid] > seen[jid]]_seen

\* The events of a type in a channel, and in metricsLoop's hands.
Count(queue, type) == Cardinality({i \in DOMAIN queue : queue[i].type = type})
InHand(type) == IF handling # NoJob /\ handling.type = type THEN 1 ELSE 0

\* InMemoryMetrics, the events not handled yet and the drops at a full channel
\* account for every result; after Stop the channel may keep some for good.
EventsAccounted ==
  events # NoChannel =>
    \A t \in Outcome : totals[t] + InHand(t) + Count(events, t) + lost[t] = outcomes[t]

\* Some call of Stop has not returned, some has been woken in wg.Wait.
Called == \E s \in Stoppers : stopper[s] \notin {"idle", "returned"}
Woken == \E s \in Stoppers : stopper[s] \in {"woken", "panicked"}
StartReturned == \E s \in Starters : starter[s] = "started"

\* Stop returns to all its callers, also with the metrics channel full. It does so
\* for certain once Start has returned; when it overtakes a Start that still adds
\* to the WaitGroup, wg.Wait may be woken too early and the process panic, but
\* Stop never hangs.
StopReturns ==
  /\ Called ~> (~Called \/ Panicked)
  /\ (Called /\ ~Woken /\ StartReturned) ~> ~Called
=============================================================================
