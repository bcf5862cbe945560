---------------------------- MODULE MemoryEngine ----------------------------
(***************************************************************************)
(* The processor over the in-memory broker, as NewTestEngine builds it:    *)
(* one engine in one process, whose goroutines share the job structs.      *)
(*                                                                         *)
(* A job whose lease runs out under its worker is run again through the    *)
(* same pointer, so that two workers count attempts in one RetryCount      *)
(* without a lock: reading it and writing it are steps of their own, and a *)
(* later comparison may see either worker's value.  Of the other fields,   *)
(* State is written and never read, and Retry and Queue do not change.     *)
(*                                                                         *)
(* Calls of this broker fail only when it is closed, which happens after   *)
(* the goroutines are gone, or when their context is cancelled.  Only this *)
(* engine leases jobs, and all from queues it serves.                      *)
(***************************************************************************)
EXTENDS MemoryBroker, FiniteSets

CONSTANTS
  JIDs,
  Budgets,     \* values of Job.Retry, after its clamp
  Workers,     \* worker goroutines
  RetryLimit,  \* jobs per GetRetryJobs, 100 in the code
  MaxSlow,     \* bound on leases that run out under a live holder
  MaxFailed,   \* bound on failures recorded, for open circuits
  NoJob

ASSUME MemoryAssumption ==
  /\ Budgets \subseteq Nat
  /\ RetryLimit \in Nat /\ MaxSlow \in Nat /\ MaxFailed \in Nat
  /\ NoJob \notin JIDs /\ IsFiniteSet(Workers)

VARIABLES
  budget, retryCount,  \* the fields of each job struct
  status,              \* "running", "stopping" (context cancelled), "stopped"
  fetcher,
  worker,              \* count: the worker's copy of RetryCount
  retrier,             \* the same, and the rest of the batch of this tick
  reaper,              \* orphans of this tick still to enqueue
  accepted,            \* history: JIDs whose Enqueue has returned nil
  succeeded, cleared,  \* history: performed; dropped by Queue.Clear
  failures,            \* history: errors of the handler per JID
  slow                 \* leases that ran out under a live holder

engineVars == <<status, fetcher, worker, retrier, reaper>>
history == <<accepted, succeeded, cleared, failures, slow>>
vars == <<brokerVars, budget, retryCount, engineVars, history>>

Init ==
  /\ BrokerInit
  /\ budget = [j \in JIDs |-> 0]
  /\ retryCount = [j \in JIDs |-> 0]
  /\ status = "running"
  /\ fetcher = [pc |-> "top", job |-> NoJob]
  /\ worker = [w \in Workers |-> [pc |-> "idle", job |-> NoJob, count |-> 0]]
  /\ retrier = [pc |-> "loop", job |-> NoJob, count |-> 0, batch |-> <<>>]
  /\ reaper = [pc |-> "loop", batch |-> <<>>]
  /\ accepted = {} /\ succeeded = {} /\ cleared = {}
  /\ failures = [j \in JIDs |-> 0]
  /\ slow = 0

-----------------------------------------------------------------------------
(* The calls of the application. *)

ClientEnqueue(jid) ==
  /\ jid \notin accepted
  /\ Enqueue(jid)
  /\ \E n \in Budgets : budget' = [budget EXCEPT ![jid] = n]
  /\ accepted' = accepted \cup {jid}
  /\ UNCHANGED <<retryCount, engineVars, succeeded, cleared, failures, slow>>

ClearQueue ==
  /\ queue # <<>>
  /\ DeleteKey
  /\ cleared' = cleared \cup ToSet(queue)
  /\ UNCHANGED <<budget, retryCount, engineVars, accepted, succeeded, failures, slow>>

\* Engine.Stop: the processor first, then the broker.
Stop ==
  /\ status = "running"
  /\ status' = "stopping"
  /\ UNCHANGED <<brokerVars, budget, retryCount, fetcher, worker, retrier, reaper, history>>

StopReturns ==
  /\ status = "stopping"
  /\ fetcher.pc = "exited" /\ retrier.pc = "exited" /\ reaper.pc = "exited"
  /\ \A w \in Workers : worker[w].pc = "exited"
  /\ Close
  /\ status' = "stopped"
  /\ UNCHANGED <<budget, retryCount, fetcher, worker, retrier, reaper, history>>

-----------------------------------------------------------------------------
(* fetcher() *)

FetcherGoes(pc, jid) == fetcher' = [pc |-> pc, job |-> jid]

FetcherTop ==
  /\ fetcher.pc = "top"
  /\ FetcherGoes(IF status = "stopping" THEN "exited" ELSE "poll", NoJob)
  /\ UNCHANGED <<brokerVars, budget, retryCount, status, worker, retrier, reaper, history>>

FetcherPoll ==
  /\ fetcher.pc = "poll"
  /\ \/ Dequeue /\ FetcherGoes("send", Head(queue))
     \/ queue = <<>> /\ FetcherGoes("top", NoJob) /\ UNCHANGED brokerVars
  /\ UNCHANGED <<budget, retryCount, status, worker, retrier, reaper, history>>

FetcherSend ==
  /\ fetcher.pc = "send"
  /\ \E w \in Workers :
       /\ worker[w].pc = "idle"
       /\ worker' = [worker EXCEPT ![w] = [pc |-> "perform", job |-> fetcher.job, count |-> 0]]
  /\ FetcherGoes("top", NoJob)
  /\ UNCHANGED <<brokerVars, budget, retryCount, status, retrier, reaper, history>>

\* Faulty variant: the job is acked and not handed back.
FetcherDrops ==
  /\ fetcher.pc = "send"
  /\ status = "stopping"
  /\ FetcherGoes("ack", fetcher.job)
  /\ UNCHANGED <<brokerVars, budget, retryCount, status, worker, retrier, reaper, history>>

FetcherHandBack ==
  /\ fetcher.pc = "send"
  /\ status = "stopping"
  /\ Enqueue(fetcher.job)
  /\ FetcherGoes("ack", fetcher.job)
  /\ UNCHANGED <<budget, retryCount, status, worker, retrier, reaper, history>>

FetcherAck ==
  /\ fetcher.pc = "ack"
  /\ Ack(fetcher.job)
  /\ FetcherGoes("exited", NoJob)
  /\ UNCHANGED <<budget, retryCount, status, worker, retrier, reaper, history>>

Fetcher == FetcherTop \/ FetcherPoll \/ FetcherSend \/ FetcherHandBack \/ FetcherAck

-----------------------------------------------------------------------------
(* worker(), processJob() and handleFailure() *)

WorkerGoes(w, pc, jid, count) ==
  worker' = [worker EXCEPT ![w] = [pc |-> pc, job |-> jid, count |-> count]]

JobSucceeds(w) ==
  /\ worker[w].pc = "perform"
  /\ RecordSuccess
  /\ succeeded' = succeeded \cup {worker[w].job}
  /\ WorkerGoes(w, "ack", worker[w].job, 0)
  /\ UNCHANGED <<budget, retryCount, status, fetcher, retrier, reaper,
                 accepted, cleared, failures, slow>>

\* The handler returned an error; the worker reads RetryCount.
JobFails(w) ==
  LET jid == worker[w].job IN
  /\ worker[w].pc = "perform"
  /\ RecordFailure
  /\ failures' = [failures EXCEPT ![jid] = @ + 1]
  /\ WorkerGoes(w, "count", jid, retryCount[jid])
  /\ UNCHANGED <<budget, retryCount, status, fetcher, retrier, reaper,
                 accepted, succeeded, cleared, slow>>

JobMeetsOpenCircuit(w) ==
  /\ worker[w].pc = "perform"
  /\ failed < MaxFailed
  /\ RecordFailure
  /\ WorkerGoes(w, "postpone", worker[w].job, 0)
  /\ UNCHANGED <<budget, retryCount, status, fetcher, retrier, reaper, history>>

WorkerPostpones(w) ==
  /\ worker[w].pc = "postpone"
  /\ AddToRetry(worker[w].job)
  /\ WorkerGoes(w, "ack", worker[w].job, 0)
  /\ UNCHANGED <<budget, retryCount, status, fetcher, retrier, reaper, history>>

\* job.RetryCount++ writes back what was read.
WorkerCounts(w) ==
  LET jid == worker[w].job  count == worker[w].count + 1 IN
  /\ worker[w].pc = "count"
  /\ retryCount' = [retryCount EXCEPT ![jid] = count]
  /\ WorkerGoes(w, "schedule", jid, count)
  /\ UNCHANGED <<brokerVars, budget, status, fetcher, retrier, reaper, history>>

\* The values that a comparison of RetryCount may use: the one just written, or
\* what another goroutine has made of it.
CountSeen(own, jid) == {own, retryCount[jid]}

\* Faulty variant: the last retry is not granted.
MayRetryOnceLess(count, jid) == count < budget[jid]

MayRetry(count, jid) == count <= budget[jid]

WorkerSchedules(w) ==
  LET jid == worker[w].job IN
  /\ worker[w].pc = "schedule"
  /\ \E count \in CountSeen(worker[w].count, jid) :
       IF MayRetry(count, jid) THEN AddToRetry(jid) ELSE AddToDead(jid)
  /\ WorkerGoes(w, "ack", jid, 0)
  /\ UNCHANGED <<budget, retryCount, status, fetcher, retrier, reaper, history>>

WorkerAcks(w) ==
  /\ worker[w].pc = "ack"
  /\ Ack(worker[w].job)
  /\ WorkerGoes(w, "idle", NoJob, 0)
  /\ UNCHANGED <<budget, retryCount, status, fetcher, retrier, reaper, history>>

WorkerExits(w) ==
  /\ worker[w].pc = "idle"
  /\ fetcher.pc = "exited"
  /\ WorkerGoes(w, "exited", NoJob, 0)
  /\ UNCHANGED <<brokerVars, budget, retryCount, status, fetcher, retrier, reaper, history>>

Worker(w) == \/ JobSucceeds(w) \/ JobFails(w) \/ JobMeetsOpenCircuit(w)
             \/ WorkerPostpones(w) \/ WorkerCounts(w) \/ WorkerSchedules(w)
             \/ WorkerAcks(w) \/ WorkerExits(w)

-----------------------------------------------------------------------------
(* retryLoop() *)

RetrierGoes(pc, jid, count, batch) ==
  retrier' = [pc |-> pc, job |-> jid, count |-> count, batch |-> batch]

RetryTick ==
  /\ retrier.pc = "loop" /\ retrier.batch = <<>>
  /\ Due # <<>>
  /\ RetrierGoes("loop", NoJob, 0, RetryJobs(RetryLimit))
  /\ UNCHANGED <<brokerVars, budget, retryCount, status, fetcher, worker, reaper, history>>

RetryRemoves ==
  /\ retrier.pc = "loop" /\ retrier.batch # <<>>
  /\ RemoveFromRetry(Head(retrier.batch))
  /\ RetrierGoes("enqueue", Head(retrier.batch), 0, Tail(retrier.batch))
  /\ UNCHANGED <<budget, retryCount, status, fetcher, worker, reaper, history>>

\* Enqueue with the engine's context; if cancelled, the loop reads RetryCount.
RetryEnqueues ==
  LET jid == retrier.job IN
  /\ retrier.pc = "enqueue"
  /\ \/ /\ status = "running"
        /\ Enqueue(jid)
        /\ RetrierGoes("loop", NoJob, 0, retrier.batch)
     \/ /\ status = "stopping"
        /\ RetrierGoes("count", jid, retryCount[jid], retrier.batch)
        /\ UNCHANGED brokerVars
  /\ UNCHANGED <<budget, retryCount, status, fetcher, worker, reaper, history>>

RetryCounts ==
  LET jid == retrier.job  count == retrier.count + 1 IN
  /\ retrier.pc = "count"
  /\ retryCount' = [retryCount EXCEPT ![jid] = count]
  /\ RetrierGoes("fallback", jid, count, retrier.batch)
  /\ UNCHANGED <<brokerVars, budget, status, fetcher, worker, reaper, history>>

RetryFallsBack ==
  LET jid == retrier.job IN
  /\ retrier.pc = "fallback"
  /\ \E count \in CountSeen(retrier.count, jid) :
       IF MayRetry(count, jid) THEN AddToRetry(jid) ELSE AddToDead(jid)
  /\ RetrierGoes("loop", NoJob, 0, retrier.batch)
  /\ UNCHANGED <<budget, retryCount, status, fetcher, worker, reaper, history>>

RetryExits ==
  /\ retrier.pc = "loop" /\ retrier.batch = <<>>
  /\ status = "stopping"
  /\ RetrierGoes("exited", NoJob, 0, <<>>)
  /\ UNCHANGED <<brokerVars, budget, retryCount, status, fetcher, worker, reaper, history>>

Retrier == \/ RetryTick \/ RetryRemoves \/ RetryEnqueues
           \/ RetryCounts \/ RetryFallsBack \/ RetryExits

-----------------------------------------------------------------------------
(* reaperLoop() *)

ReaperTick ==
  /\ reaper.pc = "loop" /\ reaper.batch = <<>>
  /\ Orphans # <<>>
  /\ ReapOrphanedJobs
  /\ reaper' = [reaper EXCEPT !.batch = Orphans]
  /\ UNCHANGED <<budget, retryCount, status, fetcher, worker, retrier, history>>

\* Enqueue with the engine's context; if cancelled, the job is passed over.
ReaperEnqueues ==
  /\ reaper.batch # <<>>
  /\ \/ status = "running" /\ Enqueue(Head(reaper.batch))
     \/ status = "stopping" /\ UNCHANGED brokerVars
  /\ reaper' = [reaper EXCEPT !.batch = Tail(@)]
  /\ UNCHANGED <<budget, retryCount, status, fetcher, worker, retrier, history>>

ReaperExits ==
  /\ reaper.pc = "loop" /\ reaper.batch = <<>>
  /\ status = "stopping"
  /\ reaper' = [reaper EXCEPT !.pc = "exited"]
  /\ UNCHANGED <<brokerVars, budget, retryCount, status, fetcher, worker, retrier, history>>

Reaper == ReaperTick \/ ReaperEnqueues \/ ReaperExits

-----------------------------------------------------------------------------
\* A lease runs out; its holder is alive, since nothing here crashes.
LeaseRunsOut ==
  /\ slow < MaxSlow
  /\ LeaseExpires
  /\ slow' = slow + 1
  /\ UNCHANGED <<budget, retryCount, engineVars, accepted, succeeded, cleared, failures>>

BackoffEnds ==
  /\ RetryFallsDue
  /\ UNCHANGED <<budget, retryCount, engineVars, history>>

\* After Stop has returned nothing runs any more.
Stopped == status = "stopped" /\ UNCHANGED vars

Next ==
  \/ \E jid \in JIDs : ClientEnqueue(jid)
  \/ ClearQueue \/ Stop \/ StopReturns \/ Stopped
  \/ Fetcher \/ Retrier \/ Reaper
  \/ \E w \in Workers : Worker(w)
  \/ LeaseRunsOut \/ BackoffEnds

Spec == Init /\ [][Next]_vars

-----------------------------------------------------------------------------
(* Properties. *)

Entries(list, jid) == Cardinality({i \in DOMAIN list : list[i].jid = jid})
Pointers(list, jid) == Cardinality({i \in DOMAIN list : list[i] = jid})
One(b) == IF b THEN 1 ELSE 0

\* Goroutines that have the job and have yet to perform it or to store it.
Hands(jid) ==
  One(fetcher.pc = "send" /\ fetcher.job = jid)
  + Cardinality({w \in Workers : worker[w].pc \in {"perform", "postpone", "count", "schedule"}
                                 /\ worker[w].job = jid})
  + One(retrier.job = jid)

\* How often the job is somewhere.
Copies(jid) ==
  Pointers(queue, jid) + Entries(retry, jid) + Pointers(dead, jid) + Hands(jid)
  + One(jid \in succeeded) + One(jid \in cleared)

\* A job is conserved: as long as no lease runs out under its holder, an accepted
\* job is in exactly one place at every moment (a queue, the retry list, the dead
\* list, one goroutine, done, or cleared), although it moves between two of them in
\* two calls.
Conserved ==
  slow = 0 => \A jid \in accepted : Copies(jid) = 1

\* As long as no lease runs out, the processing list is exactly the jobs that the
\* fetcher and the workers hold, although Ack goes by JID.
LeasesMatchHolders ==
  slow = 0 => \A jid \in JIDs :
    Entries(processing, jid) = One(fetcher.job = jid)
                               + Cardinality({w \in Workers : worker[w].job = jid})

\* Attempts are never overcounted, whatever updates of RetryCount are lost or seen
\* late: before Stop, a dead job has really failed retry + 1 times.
DeadAfterAllAttempts ==
  status = "running" => \A i \in DOMAIN dead : failures[dead[i]] >= budget[dead[i]] + 1

\* What GetStats returns accounts for every accepted job but the one that the
\* retry loop is moving, as long as no lease runs out and no queue is cleared.
StatsAccountForJobs ==
  (slow = 0 /\ cleared = {}) =>
    GetStats.queues + GetStats.processing + GetStats.retry + GetStats.dead
      + GetStats.processed + One(retrier.job # NoJob) >= Cardinality(accepted)

-----------------------------------------------------------------------------
(* Refinement. *)

\* Jobs of which the engine still has a copy.
Kept ==
  ToSet(queue) \cup ToSet(retrier.batch) \cup ToSet(reaper.batch)
  \cup {jid \in JIDs : Hands(jid) + Entries(retry, jid) + Entries(processing, jid) > 0}

Promise == INSTANCE Delivery WITH
  kept <- Kept,
  performed <- succeeded,
  buried <- ToSet(dead),
  withdrawn <- cleared

\* The test engine keeps the same promise as engines over Redis, although its
\* goroutines share the job structs and jobs run twice when leases run out.
AtLeastOnce == Promise!Spec
=============================================================================
