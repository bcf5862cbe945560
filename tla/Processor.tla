----------------------------- MODULE Processor -----------------------------
(***************************************************************************)
(* internal/queue/processor.go over the Redis broker: any number of engine *)
(* processes sharing one Redis, each with its fetcher, its workers, its    *)
(* retry loop and its reaper, and the clients that enqueue.                *)
(*                                                                         *)
(* A step is one broker call together with the local work up to the next   *)
(* one: between two calls another goroutine, or another process, may run.  *)
(***************************************************************************)
EXTENDS RedisBroker

CONSTANTS
  Engines,         \* engine processes
  Concurrency,     \* workers per engine (cfg.Concurrency)
  PollList,        \* PollList[e]: the weighted queue list p.queues of engine e
  RetryOptions,    \* counts a client passes in JobOptions.Retry
  RetryLimit,      \* jobs per GetRetryJobs, 100 in the code
  ReapLimit,       \* jobs per ReapOrphanedJobs, 100 in the code
  Outcomes,        \* what a handler may return: "success", "error", "circuit open"
  Scenarios,       \* bounds, per kind, on the disturbances of one behaviour
  NoJob            \* the job of a goroutine that holds none

AllDisturbances ==
  {"error",   \* a Redis call returns an error, done or not done
   "crash",   \* an engine process dies
   "stop",    \* Engine.Stop is called
   "slow",    \* a lease runs out while a live goroutine still holds the job
   "clear"}   \* Queue.Clear is called

Slots == Engines \X (1..Concurrency)
QueueSet(e) == {PollList[e][i] : i \in DOMAIN PollList[e]}

ASSUME ProcessorAssumption ==
  /\ Concurrency \in Nat
  /\ \A e \in Engines : PollList[e] \in Seq(Queues) /\ PollList[e] # <<>>
  /\ RetryOptions \subseteq Int
  /\ RetryLimit \in Nat /\ ReapLimit \in Nat /\ StatLimit \in Nat
  /\ Scenarios \subseteq [AllDisturbances -> Nat]
  /\ NoJob \notin Job

VARIABLES
  status,     \* of each engine process
  fetcher,    \* the fetcher goroutine of each engine
  worker,     \* the worker goroutines
  retrier,    \* the retryLoop goroutine; batch: jobs of this tick still to handle
  reaper,     \* the reaperLoop goroutine
  client,     \* what the client was told about each JID
  succeeded,  \* history: JIDs whose handler has returned nil
  failures,   \* history: handler errors per JID, circuit-open answers not counted
  disturbed   \* disturbances so far, per kind

engineVars == <<status, fetcher, worker, retrier, reaper>>
history == <<client, succeeded, failures>>
vars == <<brokerVars, engineVars, history, disturbed>>

Fetchers == [pc : {"top", "poll", "send", "fallback", "ack", "exited"},
             job : Job \cup {NoJob}, cursor : Nat]
Workers  == [pc : {"idle", "perform", "schedule", "ack", "exited"},
             job : Job \cup {NoJob}]
Retriers == [pc : {"loop", "enqueue", "fallback", "exited"},
             job : Job \cup {NoJob}, batch : SUBSET Job]
Reapers  == [pc : {"loop", "exited"}, batch : SUBSET Job]

NoFetcher == [pc |-> "exited", job |-> NoJob, cursor |-> 0]
NoWorker  == [pc |-> "exited", job |-> NoJob]
NoRetrier == [pc |-> "exited", job |-> NoJob, batch |-> {}]
NoReaper  == [pc |-> "exited", batch |-> {}]

Init ==
  /\ BrokerInit
  /\ status = [e \in Engines |-> "down"]
  /\ fetcher = [e \in Engines |-> NoFetcher]
  /\ worker = [s \in Slots |-> NoWorker]
  /\ retrier = [e \in Engines |-> NoRetrier]
  /\ reaper = [e \in Engines |-> NoReaper]
  /\ client = [j \in JIDs |-> "none"]
  /\ succeeded = {}
  /\ failures = [j \in JIDs |-> 0]
  /\ disturbed = [kind \in AllDisturbances |-> 0]

-----------------------------------------------------------------------------
(* Broker calls as a goroutine makes them. *)

Disturb(kind) ==
  /\ disturbed' = [disturbed EXCEPT ![kind] = @ + 1]
  /\ \E most \in Scenarios : \A k \in AllDisturbances : disturbed'[k] <= most[k]

\* A call that returns err: an error does not tell whether Redis did the work.
Call(Command, err) ==
  \/ ~err /\ Command /\ UNCHANGED disturbed
  \/ err /\ Disturb("error") /\ (Command \/ UNCHANGED brokerVars)

\* A call made with the engine's own context, which Stop cancels: from then on
\* it fails without an effect, unless it was under way already.
CallWithEngineContext(e, Command, err) ==
  \/ Call(Command, err)
  \/ status[e] = "stopping" /\ err /\ UNCHANGED <<brokerVars, disturbed>>

-----------------------------------------------------------------------------
(* Client.Enqueue and Client.EnqueueWithOptions. *)

ClientEnqueue(jid, queue) ==
  /\ client[jid] = "none"
  /\ \E job \in {NewJob(jid, queue)}
             \cup {SetRetry(NewJob(jid, queue), n) : n \in RetryOptions},
        err \in BOOLEAN :
       /\ Call(Enqueue(queue, job), err)
       /\ client' = [client EXCEPT ![jid] = IF err THEN "failed" ELSE "accepted"]
  /\ UNCHANGED <<engineVars, succeeded, failures>>

\* Queue.Clear.
ClearQueue(queue) ==
  /\ queues[queue] # <<>>
  /\ Disturb("clear")
  /\ DeleteKey(queue)
  /\ UNCHANGED <<engineVars, history>>

-----------------------------------------------------------------------------
(* The life of an engine process. *)

\* New and Start in a fresh process.
Start(e) ==
  /\ status[e] = "down"
  /\ status' = [status EXCEPT ![e] = "running"]
  /\ fetcher' = [fetcher EXCEPT ![e] = [NoFetcher EXCEPT !.pc = "top"]]
  /\ worker' = [s \in Slots |-> IF s[1] = e THEN [NoWorker EXCEPT !.pc = "idle"]
                                            ELSE worker[s]]
  /\ retrier' = [retrier EXCEPT ![e] = [NoRetrier EXCEPT !.pc = "loop"]]
  /\ reaper' = [reaper EXCEPT ![e] = [NoReaper EXCEPT !.pc = "loop"]]
  /\ UNCHANGED <<brokerVars, history, disturbed>>

\* Stop cancels the context; from here on ctx.Done is ready in every select.
Stop(e) ==
  /\ status[e] = "running"
  /\ Disturb("stop")
  /\ status' = [status EXCEPT ![e] = "stopping"]
  /\ UNCHANGED <<brokerVars, fetcher, worker, retrier, reaper, history>>

\* wg.Wait returns.
StopReturns(e) ==
  /\ status[e] = "stopping"
  /\ fetcher[e].pc = "exited" /\ retrier[e].pc = "exited" /\ reaper[e].pc = "exited"
  /\ \A s \in Slots : s[1] = e => worker[s].pc = "exited"
  /\ status' = [status EXCEPT ![e] = "down"]
  /\ UNCHANGED <<brokerVars, fetcher, worker, retrier, reaper, history, disturbed>>

Crash(e) ==
  /\ status[e] # "down"
  /\ Disturb("crash")
  /\ status' = [status EXCEPT ![e] = "down"]
  /\ fetcher' = [fetcher EXCEPT ![e] = NoFetcher]
  /\ worker' = [s \in Slots |-> IF s[1] = e THEN NoWorker ELSE worker[s]]
  /\ retrier' = [retrier EXCEPT ![e] = NoRetrier]
  /\ reaper' = [reaper EXCEPT ![e] = NoReaper]
  /\ UNCHANGED <<brokerVars, history>>

-----------------------------------------------------------------------------
(* fetcher() *)

FetcherGoes(e, pc, job) ==
  fetcher' = [fetcher EXCEPT ![e] = [pc |-> pc, job |-> job, cursor |-> fetcher[e].cursor]]

FetcherPolls(e) ==
  fetcher' = [fetcher EXCEPT ![e] = [pc |-> "poll", job |-> NoJob,
                cursor |-> (fetcher[e].cursor + 1) % Len(PollList[e])]]

\* Faulty variant: the loop does not look at the context.
FetcherTopUnaware(e) ==
  /\ fetcher[e].pc = "top"
  /\ FetcherPolls(e)
  /\ UNCHANGED <<brokerVars, status, worker, retrier, reaper, history, disturbed>>

\* The head of the loop: leave if the context is done, else pick the next queue.
FetcherTop(e) ==
  /\ fetcher[e].pc = "top"
  /\ IF status[e] = "stopping"
     THEN FetcherGoes(e, "exited", NoJob)
     ELSE FetcherPolls(e)
  /\ UNCHANGED <<brokerVars, status, worker, retrier, reaper, history, disturbed>>

\* The queue that Dequeue polls: the one the cursor has just moved past.
PolledQueue(e) ==
  PollList[e][IF fetcher[e].cursor = 0 THEN Len(PollList[e]) ELSE fetcher[e].cursor]

\* Dequeue, which looks at the queue for a second, whatever the context says.
FetcherPoll(e) ==
  /\ fetcher[e].pc = "poll"
  /\ \/ \E err \in BOOLEAN :
          /\ Call(Dequeue(PolledQueue(e)), err)
          /\ IF err THEN FetcherGoes(e, "top", NoJob)
                    ELSE FetcherGoes(e, "send", DequeuedJob(PolledQueue(e)))
     \/ /\ queues[PolledQueue(e)] = <<>>
        /\ FetcherGoes(e, "top", NoJob)
        /\ UNCHANGED <<brokerVars, disturbed>>
  /\ UNCHANGED <<status, worker, retrier, reaper, history>>

\* The hand-over on the unbuffered channel; processJob begins.
FetcherSend(e) ==
  /\ fetcher[e].pc = "send"
  /\ \E s \in Slots :
       /\ s[1] = e /\ worker[s].pc = "idle"
       /\ worker' = [worker EXCEPT ![s] =
            [pc |-> "perform", job |-> [fetcher[e].job EXCEPT !.state = "active"]]]
  /\ FetcherGoes(e, "top", NoJob)
  /\ UNCHANGED <<brokerVars, status, retrier, reaper, history, disturbed>>

\* Faulty variant: the job is acked and not handed back.
FetcherDrops(e) ==
  /\ fetcher[e].pc = "send"
  /\ status[e] = "stopping"
  /\ FetcherGoes(e, "ack", fetcher[e].job)
  /\ UNCHANGED <<brokerVars, status, worker, retrier, reaper, history, disturbed>>

\* Faulty variant: the job is acked, handed back or not.
HandBackUnchecked(e) ==
  /\ fetcher[e].pc = "send"
  /\ status[e] = "stopping"
  /\ LET job == [fetcher[e].job EXCEPT !.state = "pending"] IN
       /\ \E err \in BOOLEAN : Call(Enqueue(job.queue, job), err)
       /\ FetcherGoes(e, "ack", job)
  /\ UNCHANGED <<status, worker, retrier, reaper, history>>

\* ctx.Done wins the select: hand the job back.  (Jobs are stored under their
\* own queue, so the queue the job came from is job.queue.)
FetcherHandBack(e) ==
  /\ fetcher[e].pc = "send"
  /\ status[e] = "stopping"
  /\ LET job == [fetcher[e].job EXCEPT !.state = "pending"] IN
       \E err \in BOOLEAN :
         /\ Call(Enqueue(job.queue, job), err)
         /\ FetcherGoes(e, IF err THEN "fallback" ELSE "ack", job)
  /\ UNCHANGED <<status, worker, retrier, reaper, history>>

FetcherFallback(e) ==
  /\ fetcher[e].pc = "fallback"
  /\ \E err \in BOOLEAN : Call(AddToRetry(fetcher[e].job), err)
  /\ FetcherGoes(e, "ack", fetcher[e].job)
  /\ UNCHANGED <<status, worker, retrier, reaper, history>>

FetcherAck(e) ==
  /\ fetcher[e].pc = "ack"
  /\ \E err \in BOOLEAN : Call(Ack(fetcher[e].job), err)
  /\ FetcherGoes(e, "exited", NoJob)
  /\ UNCHANGED <<status, worker, retrier, reaper, history>>

Fetcher(e) == \/ FetcherTop(e) \/ FetcherPoll(e) \/ FetcherSend(e)
              \/ FetcherHandBack(e) \/ FetcherFallback(e) \/ FetcherAck(e)

-----------------------------------------------------------------------------
(* worker(), processJob() and handleFailure() *)

WorkerGoes(s, pc, job) == worker' = [worker EXCEPT ![s] = [pc |-> pc, job |-> job]]

\* What the middleware chain around execute() may return: "error" stands for an
\* error of Perform, its panic, a timeout, no worker for the class, and a
\* validator's refusal.
HandlerMayReturn(outcome) == outcome \in Outcomes

\* The handler returned nil.
JobSucceeds(s) ==
  LET job == [worker[s].job EXCEPT !.state = "success"] IN
  /\ worker[s].pc = "perform"
  /\ HandlerMayReturn("success")
  /\ \E err \in BOOLEAN : Call(RecordSuccess(job), err)
  /\ succeeded' = succeeded \cup {job.jid}
  /\ WorkerGoes(s, "ack", job)
  /\ UNCHANGED <<status, fetcher, retrier, reaper, client, failures>>

\* Faulty variant: the last retry is not granted.
FailedJobEarly(job) ==
  [job EXCEPT !.retryCount = @ + 1,
              !.state = IF job.retryCount + 1 < job.retry THEN "failed" ELSE "dead"]

\* The job as handleFailure leaves it after an error of the handler.
FailedJob(job) ==
  [job EXCEPT !.retryCount = @ + 1,
              !.state = IF job.retryCount + 1 <= job.retry THEN "failed" ELSE "dead"]

\* The handler returned an error.
JobFails(s) ==
  LET job == FailedJob(worker[s].job) IN
  /\ worker[s].pc = "perform"
  /\ HandlerMayReturn("error")
  /\ \E err \in BOOLEAN : Call(RecordFailure(job), err)
  /\ failures' = [failures EXCEPT ![job.jid] = @ + 1]
  /\ WorkerGoes(s, "schedule", job)
  /\ UNCHANGED <<status, fetcher, retrier, reaper, client, succeeded>>

\* The breaker middleware answered ErrCircuitOpen: no attempt is used up.
JobMeetsOpenCircuit(s) ==
  LET job == [worker[s].job EXCEPT !.state = "pending"] IN
  /\ worker[s].pc = "perform"
  /\ HandlerMayReturn("circuit open")
  /\ \E err \in BOOLEAN : Call(RecordFailure(job), err)
  /\ WorkerGoes(s, "schedule", job)
  /\ UNCHANGED <<status, fetcher, retrier, reaper, history>>

\* AddToRetry or AddToDead; an error is logged and the job acked all the same.
WorkerSchedules(s) ==
  LET job == worker[s].job IN
  /\ worker[s].pc = "schedule"
  /\ \E err \in BOOLEAN :
       IF job.state = "dead" THEN Call(AddToDead(job), err)
                             ELSE Call(AddToRetry(job), err)
  /\ WorkerGoes(s, "ack", job)
  /\ UNCHANGED <<status, fetcher, retrier, reaper, history>>

WorkerAcks(s) ==
  /\ worker[s].pc = "ack"
  /\ \E err \in BOOLEAN : Call(Ack(worker[s].job), err)
  /\ WorkerGoes(s, "idle", NoJob)
  /\ UNCHANGED <<status, fetcher, retrier, reaper, history>>

\* The fetcher has closed the channel.
WorkerExits(s) ==
  /\ worker[s].pc = "idle"
  /\ fetcher[s[1]].pc = "exited"
  /\ WorkerGoes(s, "exited", NoJob)
  /\ UNCHANGED <<brokerVars, status, fetcher, retrier, reaper, history, disturbed>>

Worker(s) == \/ JobSucceeds(s) \/ JobFails(s) \/ JobMeetsOpenCircuit(s)
             \/ WorkerSchedules(s) \/ WorkerAcks(s) \/ WorkerExits(s)

-----------------------------------------------------------------------------
(* retryLoop() *)

RetrierGoes(e, pc, job, batch) ==
  retrier' = [retrier EXCEPT ![e] = [pc |-> pc, job |-> job, batch |-> batch]]

\* A tick: GetRetryJobs.  A tick may win the select against ctx.Done.
RetryTick(e) ==
  /\ retrier[e].pc = "loop" /\ retrier[e].batch = {}
  /\ due # {}
  /\ \E batch \in Batches(due, RetryLimit) :
       RetrierGoes(e, "loop", NoJob, RetryJobs(batch))
  /\ UNCHANGED <<brokerVars, status, fetcher, worker, reaper, history, disturbed>>

\* A job of a queue this engine does not serve stays in the retry set.
RetrySkips(e) ==
  /\ retrier[e].pc = "loop"
  /\ \E job \in retrier[e].batch :
       /\ job.queue \notin QueueSet(e)
       /\ RetrierGoes(e, "loop", NoJob, retrier[e].batch \ {job})
  /\ UNCHANGED <<brokerVars, status, fetcher, worker, reaper, history, disturbed>>

RetryRemoves(e) ==
  /\ retrier[e].pc = "loop"
  /\ \E job \in retrier[e].batch, err \in BOOLEAN :
       LET rest == retrier[e].batch \ {job} IN
       /\ job.queue \in QueueSet(e)
       /\ Call(RemoveFromRetry(job), err)
       /\ IF err THEN RetrierGoes(e, "loop", NoJob, rest)
                 ELSE RetrierGoes(e, "enqueue", [job EXCEPT !.state = "pending"], rest)
  /\ UNCHANGED <<status, fetcher, worker, reaper, history>>

\* Faulty variant: dead one attempt early.
NotReenqueuedEarly(job) ==
  [job EXCEPT !.retryCount = @ + 1,
              !.state = IF job.retryCount + 1 >= job.retry THEN "dead" ELSE job.state]

\* The job after a failed re-enqueue: one attempt is used up.
NotReenqueued(job) ==
  [job EXCEPT !.retryCount = @ + 1,
              !.state = IF job.retryCount + 1 > job.retry THEN "dead" ELSE job.state]

RetryEnqueues(e) ==
  /\ retrier[e].pc = "enqueue"
  /\ LET job == retrier[e].job IN
       \E err \in BOOLEAN :
         /\ CallWithEngineContext(e, Enqueue(job.queue, job), err)
         /\ IF err THEN RetrierGoes(e, "fallback", NotReenqueued(job), retrier[e].batch)
                   ELSE RetrierGoes(e, "loop", NoJob, retrier[e].batch)
  /\ UNCHANGED <<status, fetcher, worker, reaper, history>>

RetryFallsBack(e) ==
  /\ retrier[e].pc = "fallback"
  /\ LET job == retrier[e].job IN
       \E err \in BOOLEAN :
         IF job.state = "dead" THEN Call(AddToDead(job), err)
                               ELSE Call(AddToRetry(job), err)
  /\ RetrierGoes(e, "loop", NoJob, retrier[e].batch)
  /\ UNCHANGED <<status, fetcher, worker, reaper, history>>

RetryExits(e) ==
  /\ retrier[e].pc = "loop" /\ retrier[e].batch = {}
  /\ status[e] = "stopping"
  /\ RetrierGoes(e, "exited", NoJob, {})
  /\ UNCHANGED <<brokerVars, status, fetcher, worker, reaper, history, disturbed>>

Retrier(e) == \/ RetryTick(e) \/ RetrySkips(e) \/ RetryRemoves(e)
              \/ RetryEnqueues(e) \/ RetryFallsBack(e) \/ RetryExits(e)

-----------------------------------------------------------------------------
(* reaperLoop() *)

ReaperGoes(e, pc, batch) ==
  reaper' = [reaper EXCEPT ![e] = [pc |-> pc, batch |-> batch]]

\* A tick: ReapOrphanedJobs takes the jobs out of the processing set.
ReaperTick(e) ==
  /\ reaper[e].pc = "loop" /\ reaper[e].batch = {}
  /\ expired # {}
  /\ \E batch \in Batches(expired, ReapLimit), err \in BOOLEAN :
       /\ Call(ReapOrphanedJobs(batch), err)
       /\ ReaperGoes(e, "loop", IF err THEN {} ELSE OrphanedJobs(batch))
  /\ UNCHANGED <<status, fetcher, worker, retrier, history>>

\* A job of a queue this engine does not serve is passed over.
ReaperSkips(e) ==
  /\ \E job \in reaper[e].batch :
       /\ job.queue \notin QueueSet(e)
       /\ ReaperGoes(e, "loop", reaper[e].batch \ {job})
  /\ UNCHANGED <<brokerVars, status, fetcher, worker, retrier, history, disturbed>>

\* An error of this Enqueue is logged and the job passed over.
ReaperEnqueues(e) ==
  /\ \E job \in reaper[e].batch, err \in BOOLEAN :
       /\ job.queue \in QueueSet(e)
       /\ CallWithEngineContext(e, Enqueue(job.queue, job), err)
       /\ ReaperGoes(e, "loop", reaper[e].batch \ {job})
  /\ UNCHANGED <<status, fetcher, worker, retrier, history>>

ReaperExits(e) ==
  /\ reaper[e].pc = "loop" /\ reaper[e].batch = {}
  /\ status[e] = "stopping"
  /\ ReaperGoes(e, "exited", {})
  /\ UNCHANGED <<brokerVars, status, fetcher, worker, retrier, history, disturbed>>

Reaper(e) == ReaperTick(e) \/ ReaperSkips(e) \/ ReaperEnqueues(e) \/ ReaperExits(e)

-----------------------------------------------------------------------------
(* Time. *)

\* A goroutine of a live engine holds the job that was dequeued as data.
Held(data) ==
  \/ \E e \in Engines : fetcher[e].job # NoJob /\ fetcher[e].job.rawPayload = data
  \/ \E s \in Slots : worker[s].job # NoJob /\ worker[s].job.rawPayload = data

\* A lease nobody holds any more always runs out.
OrphanLeaseExpires(data) ==
  /\ ~Held(data)
  /\ LeaseExpires(data)
  /\ UNCHANGED <<engineVars, history, disturbed>>

\* A held one runs out when its holder is slow.
HeldLeaseExpires(data) ==
  /\ Held(data)
  /\ Disturb("slow")
  /\ LeaseExpires(data)
  /\ UNCHANGED <<engineVars, history>>

BackoffEnds(data) ==
  /\ RetryFallsDue(data)
  /\ UNCHANGED <<engineVars, history, disturbed>>

-----------------------------------------------------------------------------
Next ==
  \/ \E jid \in JIDs, queue \in Queues : ClientEnqueue(jid, queue)
  \/ \E queue \in Queues : ClearQueue(queue)
  \/ \E e \in Engines : Start(e) \/ Stop(e) \/ StopReturns(e) \/ Crash(e)
  \/ \E e \in Engines : Fetcher(e) \/ Retrier(e) \/ Reaper(e)
  \/ \E s \in Slots : Worker(s)
  \/ \E data \in processing : OrphanLeaseExpires(data) \/ HeldLeaseExpires(data)
  \/ \E data \in retry : BackoffEnds(data)

Spec == Init /\ [][Next]_vars

\* The Go scheduler runs every goroutine that can run; supervision restarts a
\* process that is down; time passes the end of every lease and backoff.
Fairness ==
  /\ \A e \in Engines : /\ WF_vars(Fetcher(e))
                         /\ WF_vars(Retrier(e))
                         /\ WF_vars(Reaper(e))
                         /\ WF_vars(Start(e))
                         /\ WF_vars(StopReturns(e))
  /\ \A s \in Slots : WF_vars(Worker(s))
  /\ WF_vars(\E data \in processing : OrphanLeaseExpires(data))
  /\ WF_vars(\E data \in retry : BackoffEnds(data))

FairSpec == Spec /\ Fairness

-----------------------------------------------------------------------------
(* Properties. *)

FetcherTypeOK ==
  /\ fetcher \in [Engines -> Fetchers]
  /\ \A e \in Engines :
       /\ fetcher[e].cursor \in 0..(Len(PollList[e]) - 1)
       /\ (fetcher[e].pc \in {"send", "fallback", "ack"}) <=> (fetcher[e].job # NoJob)

WorkerTypeOK ==
  /\ worker \in [Slots -> Workers]
  /\ \A s \in Slots :
       (worker[s].pc \in {"perform", "schedule", "ack"}) <=> (worker[s].job # NoJob)

RetrierTypeOK ==
  /\ retrier \in [Engines -> Retriers]
  /\ \A e \in Engines :
       (retrier[e].pc \in {"enqueue", "fallback"}) <=> (retrier[e].job # NoJob)

HistoryTypeOK ==
  /\ client \in [JIDs -> {"none", "accepted", "failed"}]
  /\ succeeded \in SUBSET JIDs
  /\ failures \in [JIDs -> Nat]
  /\ disturbed \in [AllDisturbances -> Nat]

\* Type correctness: what Redis stores and what each goroutine holds is well
\* formed, and a goroutine holds a job exactly where the code has one in hand.
TypeOK ==
  /\ BrokerTypeOK
  /\ status \in [Engines -> {"down", "running", "stopping"}]
  /\ FetcherTypeOK
  /\ WorkerTypeOK
  /\ RetrierTypeOK
  /\ reaper \in [Engines -> Reapers]
  /\ HistoryTypeOK

\* A stored job that may still run.
Runnable(data) == data.retryCount <= data.retry

\* Whatever goes wrong (crashes, failed calls, duplicates, lost leases), a job
\* that can still run has an attempt left, a dead one has used exactly
\* retry + 1 of them, and what waits in a queue or under a lease is pending:
\* the comparisons of handleFailure and of retryLoop's fallback agree.
RetryBudget ==
  /\ \A q \in Queues : \A i \in DOMAIN queues[q] :
       Runnable(queues[q][i]) /\ queues[q][i].state = "pending"
  /\ \A data \in processing : Runnable(data) /\ data.state = "pending"
  /\ \A data \in retry : Runnable(data) /\ data.state \in {"pending", "failed"}
  /\ \A data \in dead : data.retryCount = data.retry + 1 /\ data.state = "dead"

\* RemoveFromRetry deletes by value, after FromJSON has clamped the job that
\* GetRetryJobs read: parsing and serialising give back the very bytes in the
\* retry set, or the job would be enqueued again at every tick.
RetryJobsRemovable ==
  \A data \in retry : ToJSON(FromJSON(data)) = data

\* Where a job can be: in a Redis structure other than the leases, ...
Stored(jid) ==
  \/ \E q \in Queues : \E i \in DOMAIN queues[q] : queues[q][i].jid = jid
  \/ \E data \in retry : data.jid = jid
  \/ \E data \in dead : data.jid = jid

\* ... in the hands of a goroutine that has yet to store or to perform it, ...
FetcherHas(e, jid) == fetcher[e].pc \in {"send", "fallback"} /\ fetcher[e].job.jid = jid
WorkerHas(s, jid)  == worker[s].pc \in {"perform", "schedule"} /\ worker[s].job.jid = jid
RetrierHas(e, jid) == retrier[e].pc \in {"enqueue", "fallback"} /\ retrier[e].job.jid = jid

InHand(jid) ==
  \/ \E e \in Engines : FetcherHas(e, jid)
  \/ \E s \in Slots : WorkerHas(s, jid)
  \/ \E e \in Engines : RetrierHas(e, jid)

\* ... or under a lease, or just taken from an expired one.
Reclaimable(jid) ==
  \/ \E data \in processing : data.jid = jid
  \/ \E e \in Engines : \E job \in reaper[e].batch : job.jid = jid

Settled(jid) == jid \in succeeded \/ Stored(jid) \/ InHand(jid)

\* No job is lost: one whose enqueue the client was told to have succeeded has
\* been performed, or is stored, held or leased somewhere, at every moment, in
\* every order of the steps of fetchers, workers, retry loops and reapers.
NoJobLost ==
  \A jid \in JIDs : client[jid] = "accepted" => Settled(jid) \/ Reclaimable(jid)

\* No job runs on two workers at once.
OneExecutor ==
  \A s, t \in Slots :
    (s # t /\ worker[s].pc = "perform" /\ worker[t].pc = "perform")
      => worker[s].job.jid # worker[t].job.jid

\* A job that a goroutine has taken and not yet settled is under a lease, so
\* that a crash at this moment leaves it to the reaper.
HeldIsLeased ==
  /\ \A e \in Engines : fetcher[e].pc = "send" => fetcher[e].job.rawPayload \in processing
  /\ \A s \in Slots : worker[s].pc \in {"perform", "schedule"}
                        => worker[s].job.rawPayload \in processing

\* When Stop has returned (in the only engine), no lease is left behind:
\* nothing is "stuck for the full lease duration" (comment in fetcher()).
StopLeavesNoLease ==
  (\A e \in Engines : status[e] = "down") => processing = {}

\* A job is dead only after retry + 1 attempts that really failed.
DeadAfterAllAttempts ==
  \A data \in dead : failures[data.jid] >= data.retry + 1

\* The calls of this step whose failure the code only logs: the one that was to
\* store the job, and the one that took it out of the retry set.
OnlyLogged(jid) ==
  \/ \E s \in Slots : WorkerHas(s, jid) /\ worker'[s].pc = "ack"
  \/ \E e \in Engines : /\ FetcherHas(e, jid) /\ fetcher[e].pc = "fallback"
                         /\ fetcher'[e].pc = "ack"
  \/ \E e \in Engines : RetrierHas(e, jid) /\ retrier'[e].pc = "loop"
  \/ \E e \in Engines : \E job \in retrier[e].batch \ retrier'[e].batch : job.jid = jid

\* A Dequeue that failed here has left the job under a lease.
LeftLeased(jid) ==
  /\ \E e \in Engines : fetcher[e].pc = "poll" /\ fetcher'[e].pc = "top"
  /\ \E data \in processing' : data.jid = jid

\* A failing Redis call costs no job but at these places: a job that is done,
\* stored or in hand stays so in every step, crashes and cleared queues apart, or
\* a call that is only logged has failed; a failing Dequeue leaves its job leased.
FailedCallsLoseOnlyUnstored ==
  [][\A jid \in JIDs :
       /\ disturbed'["crash"] = disturbed["crash"] /\ disturbed'["clear"] = disturbed["clear"]
       /\ Settled(jid) /\ ~Settled(jid)'
       => /\ disturbed'["error"] # disturbed["error"]
          /\ OnlyLogged(jid) \/ LeftLeased(jid)]_vars

Finished(jid) == jid \in succeeded \/ \E data \in dead : data.jid = jid

\* Every accepted job is performed or dies, whoever is slow.
EveryJobFinishes ==
  \A jid \in JIDs : client[jid] = "accepted" ~> Finished(jid)

\* A crash loses no job but one that the retry loop or the reaper of the very
\* process had taken out of Redis and not yet put back: whatever its fetcher and
\* workers hold, and whatever other processes do, is leased, stored or held elsewhere.
CrashLosesOnlyUnleased ==
  [][\A e \in Engines, jid \in JIDs :
       /\ disturbed'["crash"] # disturbed["crash"]
       /\ status[e] # "down" /\ status'[e] = "down"
       /\ Settled(jid) \/ Reclaimable(jid)
       /\ ~RetrierHas(e, jid) /\ ~\E job \in reaper[e].batch : job.jid = jid
       => (Settled(jid) \/ Reclaimable(jid))']_vars

\* Whatever survives a crash still ends: every accepted job is performed or dies,
\* unless nothing in Redis or in a live process has it any more.
EveryKeptJobFinishes ==
  \A jid \in JIDs : client[jid] = "accepted" ~>
    (Finished(jid) \/ ~(Settled(jid) \/ Reclaimable(jid)))

\* Stop returns.
StopCompletes ==
  \A e \in Engines : status[e] = "stopping" ~> status[e] = "down"

-----------------------------------------------------------------------------
(* Refinements. *)

\* Jobs of which the system still has a copy.
Kept == {jid \in JIDs :
  \/ \E q \in Queues : \E i \in DOMAIN queues[q] : queues[q][i].jid = jid
  \/ \E data \in retry \cup processing : data.jid = jid
  \/ InHand(jid)
  \/ \E e \in Engines : \E job \in retrier[e].batch \cup reaper[e].batch : job.jid = jid}

Promise == INSTANCE Delivery WITH
  accepted <- {jid \in JIDs : client[jid] = "accepted"},
  kept <- Kept,
  performed <- succeeded,
  buried <- {data.jid : data \in dead},
  withdrawn <- {}

\* Engines that share Redis implement delivery at least once, however slow they
\* are and whenever they stop: no job gets lost, and none comes from nowhere, not
\* even as the copy that two retry loops make of it.
AtLeastOnce == Promise!Spec

Performing(jid) == \E s \in Slots : worker[s].pc = "perform" /\ worker[s].job.jid = jid

\* The job is in the dead set, or on its way there.
Dying(jid) ==
  \/ \E data \in dead : data.jid = jid
  \/ \E s \in Slots : WorkerHas(s, jid) /\ worker[s].job.state = "dead"
  \/ \E e \in Engines : RetrierHas(e, jid) /\ retrier[e].job.state = "dead"

Phase(jid) ==
  IF client[jid] = "none" THEN "new"
  ELSE IF Performing(jid) THEN "running"
  ELSE IF jid \in succeeded THEN "done"
  ELSE IF Dying(jid) THEN "dead" ELSE "waiting"

Life == INSTANCE JobLifecycle WITH
  phase <- [jid \in JIDs |-> Phase(jid)],
  attempts <- failures

\* In one engine whose leases hold, a job that is done or dead never runs again, and
\* its failures are counted one by one, at most one more than MaxRetryCount. (That they
\* stop at the job's own Retry is the matter of RetryBudget and DeadAfterAllAttempts.)
FollowsLifecycle == Life!Spec
=============================================================================
