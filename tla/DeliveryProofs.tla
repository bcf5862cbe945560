--------------------------- MODULE DeliveryProofs ---------------------------
(***************************************************************************)
(* No job is lost while no process crashes, no Redis call fails and nobody *)
(* clears a queue: however slow the goroutines are, however often engines  *)
(* are stopped and started, whatever queues they serve.                    *)
(*                                                                         *)
(* NoJobLost counts a leased job as not lost.  That is not inductive: a    *)
(* lease may be a stale one, of a job that somebody else has settled.  The *)
(* inductive invariant leaves leases and the reaper out: without crashes   *)
(* the goroutine that took a job carries it all the way, and everything    *)
(* the reaper does is to add copies.                                       *)
(*                                                                         *)
(* AtLeastOnce, the refinement of Delivery, needs in addition that every   *)
(* copy anywhere is of a settled job (CopiesSettled), so that a job that   *)
(* leaves the last of its places is performed or buried.                   *)
(*                                                                         *)
(* What each step keeps is shown for every step that is Quiet, in itself;  *)
(* of the others, those with a failing call, FailedCallsLoseOnlyUnstored   *)
(* says which of them may lose a job, without any restriction.             *)
(***************************************************************************)
EXTENDS ProcessorProofs

Reliable == Excluded("error") /\ Excluded("crash") /\ Excluded("clear")

Carried == \A jid \in JIDs : client[jid] = "accepted" => Settled(jid)

\* In this step no call fails, no process crashes and no queue is cleared.
Quiet == ~Disturb("error") /\ ~Disturb("crash") /\ ~Disturb("clear")

\* Under Reliable every step is so.
LEMMA NoErrors ==
  ASSUME TypeOK, Reliable
  PROVE  Quiet
BY ExcludedNeverHappens DEF Reliable, Quiet, AllDisturbances

-----------------------------------------------------------------------------
(* What the broker's commands do to the stored jobs. *)

\* Enqueue stores its job and removes nothing.
LEMMA EnqueueStores ==
  ASSUME BrokerTypeOK, NEW job \in Job, Enqueue(job.queue, job)
  PROVE  \A jid \in JIDs : jid = job.jid \/ Stored(jid) => Stored(jid)'
<1>. DEFINE q == job.queue
            data == ToJSON(job)
<1>1. /\ q \in Queues /\ data \in Bytes /\ data.jid = job.jid
      /\ queues' = [queues EXCEPT ![q] = Append(@, data)]
      /\ retry' = retry /\ dead' = dead
  BY ToJSONType DEF ToJSON, Job, Enqueue
<1>. HIDE DEF q, data
<1>2. /\ queues[q] \in Seq(Bytes)
      /\ queues'[q] = Append(queues[q], data)
      /\ \A r \in Queues \ {q} : queues'[r] = queues[r]
  BY <1>1 DEF BrokerTypeOK
<1>3. Len(queues[q]) + 1 \in DOMAIN queues'[q] /\ queues'[q][Len(queues[q]) + 1] = data
  BY <1>1, <1>2
<1>4. \A i \in DOMAIN queues[q] : i \in DOMAIN queues'[q] /\ queues'[q][i] = queues[q][i]
  BY <1>1, <1>2
<1>5. Stored(job.jid)'
  BY <1>1, <1>3 DEF Stored
<1>6. ASSUME NEW jid \in JIDs, Stored(jid)
      PROVE  Stored(jid)'
  <2>1. CASE \E r \in Queues : \E i \in DOMAIN queues[r] : queues[r][i].jid = jid
    <3>1. PICK r \in Queues : \E i \in DOMAIN queues[r] : queues[r][i].jid = jid
      BY <2>1
    <3>2. PICK i \in DOMAIN queues[r] : queues[r][i].jid = jid
      BY <3>1
    <3>3. i \in DOMAIN queues'[r] /\ queues'[r][i].jid = jid
      BY <1>2, <1>4, <3>2
    <3>. QED  BY <3>3 DEF Stored
  <2>. QED  BY <1>1, <1>6, <2>1 DEF Stored
<1>. QED  BY <1>5, <1>6

\* Dequeue removes from the queues only the job that it returns.
LEMMA DequeueKeeps ==
  ASSUME BrokerTypeOK, NEW q \in Queues, Dequeue(q)
  PROVE  \A jid \in JIDs : Stored(jid) => Stored(jid)' \/ jid = DequeuedJob(q).jid
<1>1. /\ queues[q] \in Seq(Bytes) /\ queues[q] # <<>>
      /\ queues'[q] = Tail(queues[q])
      /\ \A r \in Queues \ {q} : queues'[r] = queues[r]
      /\ retry' = retry /\ dead' = dead
      /\ DequeuedJob(q).jid = Head(queues[q]).jid
  BY DequeueType DEF BrokerTypeOK, Dequeue
<1>2. \A i \in DOMAIN queues[q] \ {1} :
        i - 1 \in DOMAIN queues'[q] /\ queues'[q][i - 1] = queues[q][i]
  BY <1>1
<1>3. ASSUME NEW jid \in JIDs, Stored(jid), jid # DequeuedJob(q).jid
      PROVE  Stored(jid)'
  <2>1. CASE \E r \in Queues : \E i \in DOMAIN queues[r] : queues[r][i].jid = jid
    <3>1. PICK r \in Queues : \E i \in DOMAIN queues[r] : queues[r][i].jid = jid
      BY <2>1
    <3>2. PICK i \in DOMAIN queues[r] : queues[r][i].jid = jid
      BY <3>1
    <3>3. r = q => i # 1
      BY <1>1, <1>3, <3>2
    <3>4. \E k \in DOMAIN queues'[r] : queues'[r][k].jid = jid
      BY <1>1, <1>2, <3>2, <3>3
    <3>. QED  BY <3>4 DEF Stored
  <2>. QED  BY <1>1, <1>3, <2>1 DEF Stored
<1>. QED  BY <1>3

\* Commands on leases and statistics do not touch the stored jobs.
LEMMA StoredElsewhere ==
  ASSUME UNCHANGED <<queues, retry, dead>>
  PROVE  \A jid \in JIDs : Stored(jid) => Stored(jid)'
BY DEF Stored

\* AddToRetry and AddToDead store their job and remove nothing.
LEMMA AddStores ==
  ASSUME NEW job \in Job, AddToRetry(job) \/ AddToDead(job)
  PROVE  \A jid \in JIDs : jid = job.jid \/ Stored(jid) => Stored(jid)'
<1>1. ToJSON(job).jid = job.jid
  BY DEF ToJSON
<1>. QED  BY <1>1 DEF AddToRetry, AddToDead, Stored

\* RemoveFromRetry removes only its job.
LEMMA RemoveKeeps ==
  ASSUME NEW job \in Job, RemoveFromRetry(job)
  PROVE  \A jid \in JIDs : Stored(jid) => Stored(jid)' \/ jid = job.jid
<1>1. ToJSON(job).jid = job.jid
  BY DEF ToJSON
<1>. QED  BY <1>1 DEF RemoveFromRetry, Stored

-----------------------------------------------------------------------------
(* Each goroutine carries the jobs on. *)

\* The steps of fetcher() settle the job they hold, or pass it on.
LEMMA FetcherCarries ==
  ASSUME TypeOK, Quiet, NEW e \in Engines, Fetcher(e), NEW jid \in JIDs, Settled(jid)
  PROVE  Settled(jid)'
<1>. USE DEF Quiet
<1>1. /\ fetcher \in [Engines -> Fetchers]
      /\ fetcher[e].pc \in {"send", "fallback", "ack"} => fetcher[e].job \in Job
      /\ BrokerTypeOK
  BY DEF TypeOK, FetcherTypeOK, Fetchers
<1>2. CASE FetcherTop(e)
  BY <1>1, <1>2, StoredElsewhere
     DEF FetcherTop, FetcherGoes, FetcherPolls, brokerVars, history, Settled, InHand,
         FetcherHas, WorkerHas, RetrierHas
<1>3. CASE FetcherPoll(e)
  <2>1. CASE Dequeue(PolledQueue(e)) /\ FetcherGoes(e, "send", DequeuedJob(PolledQueue(e)))
    <3>1. Stored(jid) => Stored(jid)' \/ jid = DequeuedJob(PolledQueue(e)).jid
      BY <1>1, <2>1, DequeueKeeps, PolledQueueType
    <3>2. jid = DequeuedJob(PolledQueue(e)).jid => FetcherHas(e, jid)'
      BY <1>1, <2>1 DEF FetcherGoes, FetcherHas
    <3>. QED  BY <1>1, <1>3, <2>1, <3>1, <3>2
              DEF FetcherPoll, FetcherGoes, history, Settled, InHand, FetcherHas, WorkerHas, RetrierHas
  <2>2. CASE FetcherGoes(e, "top", NoJob) /\ UNCHANGED brokerVars
    BY <1>1, <1>3, <2>2, StoredElsewhere
       DEF FetcherPoll, FetcherGoes, brokerVars, history, Settled, InHand, FetcherHas,
           WorkerHas, RetrierHas
  <2>. QED  BY <1>3, <2>1, <2>2 DEF FetcherPoll, Call
<1>4. CASE FetcherSend(e)
  <2>1. PICK s \in Slots : worker' = [worker EXCEPT ![s] =
               [pc |-> "perform", job |-> [fetcher[e].job EXCEPT !.state = "active"]]]
                           /\ worker[s].pc = "idle"
    BY <1>4 DEF FetcherSend
  <2>2. [fetcher[e].job EXCEPT !.state = "active"].jid = fetcher[e].job.jid
    BY <1>1, <1>4 DEF FetcherSend, Job
  <2>3. jid = fetcher[e].job.jid => WorkerHas(s, jid)'
    BY <2>1, <2>2 DEF WorkerHas, TypeOK, WorkerTypeOK
  <2>4. \A t \in Slots : WorkerHas(t, jid) => WorkerHas(t, jid)'
    BY <2>1 DEF WorkerHas, TypeOK, WorkerTypeOK
  <2>5. \A f \in Engines : FetcherHas(f, jid) => FetcherHas(f, jid)' \/ jid = fetcher[e].job.jid
    BY <1>1, <1>4 DEF FetcherSend, FetcherGoes, FetcherHas
  <2>. QED  BY <1>4, <2>3, <2>4, <2>5, StoredElsewhere
            DEF FetcherSend, brokerVars, history, Settled, InHand, RetrierHas
<1>5. CASE FetcherHandBack(e)
  <2>. DEFINE job == [fetcher[e].job EXCEPT !.state = "pending"]
  <2>1. job \in Job /\ job.jid = fetcher[e].job.jid
    BY <1>1, <1>5 DEF FetcherHandBack, Job, JobState
  <2>2. Enqueue(job.queue, job) /\ FetcherGoes(e, "ack", job)
    BY <1>5 DEF FetcherHandBack, Call
  <2>. HIDE DEF job
  <2>3. jid = job.jid \/ Stored(jid) => Stored(jid)'
    BY <1>1, <2>1, <2>2, EnqueueStores
  <2>4. \A f \in Engines : FetcherHas(f, jid) => FetcherHas(f, jid)' \/ jid = job.jid
    BY <1>1, <2>1, <2>2 DEF FetcherGoes, FetcherHas
  <2>. QED  BY <1>5, <2>3, <2>4
            DEF FetcherHandBack, history, Settled, InHand, WorkerHas, RetrierHas
<1>6. CASE FetcherFallback(e)
  <2>1. AddToRetry(fetcher[e].job) /\ fetcher[e].job \in Job
    BY <1>1, <1>6 DEF FetcherFallback, Call
  <2>2. jid = fetcher[e].job.jid \/ Stored(jid) => Stored(jid)'
    BY <2>1, AddStores
  <2>3. \A f \in Engines : FetcherHas(f, jid) => FetcherHas(f, jid)' \/ jid = fetcher[e].job.jid
    BY <1>1, <1>6 DEF FetcherFallback, FetcherGoes, FetcherHas
  <2>. QED  BY <1>6, <2>2, <2>3
            DEF FetcherFallback, history, Settled, InHand, WorkerHas, RetrierHas
<1>7. CASE FetcherAck(e)
  <2>1. Ack(fetcher[e].job)
    BY <1>7 DEF FetcherAck, Call
  <2>2. \A f \in Engines : FetcherHas(f, jid) => FetcherHas(f, jid)'
    BY <1>1, <1>7 DEF FetcherAck, FetcherGoes, FetcherHas
  <2>. QED  BY <1>7, <2>1, <2>2, StoredElsewhere
            DEF FetcherAck, Ack, history, Settled, InHand, WorkerHas, RetrierHas
<1>. QED  BY <1>2, <1>3, <1>4, <1>5, <1>6, <1>7 DEF Fetcher

\* What WorkerGoes does to the jobs in the hands of workers.
LEMMA WorkerGoesHas ==
  ASSUME TypeOK, NEW s \in Slots, NEW pc, NEW job, WorkerGoes(s, pc, job), NEW jid
  PROVE  /\ pc \in {"perform", "schedule"} /\ job.jid = jid => WorkerHas(s, jid)'
         /\ \A t \in Slots : WorkerHas(t, jid) => WorkerHas(t, jid)' \/ t = s
BY DEF TypeOK, WorkerTypeOK, WorkerGoes, WorkerHas

\* The steps of worker() record the job as done or store it before they ack it.
LEMMA WorkerCarries ==
  ASSUME TypeOK, Quiet, NEW s \in Slots, Worker(s), NEW jid \in JIDs, Settled(jid)
  PROVE  Settled(jid)'
<1>. USE DEF Quiet
<1>1. /\ worker[s].pc \in {"perform", "schedule", "ack"} => worker[s].job \in Job
      /\ BrokerTypeOK
  BY DEF TypeOK, WorkerTypeOK, Workers
<1>2. CASE JobSucceeds(s)
  <2>. DEFINE job == [worker[s].job EXCEPT !.state = "success"]
  <2>1. job.jid = worker[s].job.jid
    BY <1>1, <1>2 DEF JobSucceeds, Job
  <2>2. /\ RecordSuccess(job) /\ succeeded' = succeeded \cup {job.jid}
        /\ WorkerGoes(s, "ack", job)
    BY <1>2 DEF JobSucceeds, Call
  <2>. HIDE DEF job
  <2>3. \A t \in Slots : WorkerHas(t, jid) => WorkerHas(t, jid)' \/ jid = job.jid
    BY <2>1, <2>2, WorkerGoesHas DEF WorkerHas
  <2>. QED  BY <1>2, <2>2, <2>3, StoredElsewhere
            DEF JobSucceeds, RecordSuccess, Settled, InHand, FetcherHas, RetrierHas
<1>3. CASE JobFails(s)
  <2>. DEFINE job == FailedJob(worker[s].job)
  <2>1. job.jid = worker[s].job.jid
    BY <1>1, <1>3, FailedJobType DEF JobFails
  <2>2. RecordFailure(job) /\ WorkerGoes(s, "schedule", job)
    BY <1>3 DEF JobFails, Call
  <2>. HIDE DEF job
  <2>3. \A t \in Slots : WorkerHas(t, jid) => WorkerHas(t, jid)' \/ WorkerHas(s, jid)'
    BY <2>1, <2>2, WorkerGoesHas DEF WorkerHas
  <2>. QED  BY <1>3, <2>2, <2>3, StoredElsewhere
            DEF JobFails, RecordFailure, Settled, InHand, FetcherHas, RetrierHas
<1>4. CASE JobMeetsOpenCircuit(s)
  <2>. DEFINE job == [worker[s].job EXCEPT !.state = "pending"]
  <2>1. job.jid = worker[s].job.jid
    BY <1>1, <1>4 DEF JobMeetsOpenCircuit, Job
  <2>2. RecordFailure(job) /\ WorkerGoes(s, "schedule", job)
    BY <1>4 DEF JobMeetsOpenCircuit, Call
  <2>. HIDE DEF job
  <2>3. \A t \in Slots : WorkerHas(t, jid) => WorkerHas(t, jid)' \/ WorkerHas(s, jid)'
    BY <2>1, <2>2, WorkerGoesHas DEF WorkerHas
  <2>. QED  BY <1>4, <2>2, <2>3, StoredElsewhere
            DEF JobMeetsOpenCircuit, RecordFailure, history, Settled, InHand, FetcherHas, RetrierHas
<1>5. CASE WorkerSchedules(s)
  <2>1. /\ worker[s].job \in Job
        /\ AddToDead(worker[s].job) \/ AddToRetry(worker[s].job)
        /\ WorkerGoes(s, "ack", worker[s].job)
    BY <1>1, <1>5 DEF WorkerSchedules, Call
  <2>2. jid = worker[s].job.jid \/ Stored(jid) => Stored(jid)'
    BY <2>1, AddStores
  <2>3. \A t \in Slots : WorkerHas(t, jid) => WorkerHas(t, jid)' \/ jid = worker[s].job.jid
    BY <2>1, WorkerGoesHas DEF WorkerHas
  <2>. QED  BY <1>5, <2>2, <2>3
            DEF WorkerSchedules, history, Settled, InHand, FetcherHas, RetrierHas
<1>6. CASE WorkerAcks(s) \/ WorkerExits(s)
  <2>1. UNCHANGED <<queues, retry, dead>>
    BY <1>6 DEF WorkerAcks, WorkerExits, Call, Ack, brokerVars
  <2>2. \A t \in Slots : WorkerHas(t, jid) => WorkerHas(t, jid)'
    <3>1. ~WorkerHas(s, jid)
      BY <1>6 DEF WorkerAcks, WorkerExits, WorkerHas
    <3>2. WorkerGoes(s, "idle", NoJob) \/ WorkerGoes(s, "exited", NoJob)
      BY <1>6 DEF WorkerAcks, WorkerExits
    <3>. QED  BY <3>1, <3>2, WorkerGoesHas
  <2>. QED  BY <1>6, <2>1, <2>2, StoredElsewhere
            DEF WorkerAcks, WorkerExits, history, Settled, InHand, FetcherHas, RetrierHas
<1>. QED  BY <1>2, <1>3, <1>4, <1>5, <1>6 DEF Worker

\* What a move of the retry loop leaves in the hands of each engine.
LEMMA RetrierGoesHas ==
  ASSUME TypeOK, NEW e \in Engines, NEW pc, NEW job, NEW batch,
         RetrierGoes(e, pc, job, batch), NEW jid
  PROVE  /\ pc \in {"enqueue", "fallback"} /\ job.jid = jid => RetrierHas(e, jid)'
         /\ \A f \in Engines : RetrierHas(f, jid) => RetrierHas(f, jid)' \/ f = e
BY DEF TypeOK, RetrierTypeOK, RetrierGoes, RetrierHas

\* The steps of retryLoop() hold the job from its removal until it is stored.
LEMMA RetrierCarries ==
  ASSUME TypeOK, Quiet, NEW e \in Engines, Retrier(e), NEW jid \in JIDs, Settled(jid)
  PROVE  Settled(jid)'
<1>. USE DEF Quiet
<1>1. /\ retrier[e].pc \in {"enqueue", "fallback"} => retrier[e].job \in Job
      /\ retrier[e].batch \subseteq Job
      /\ BrokerTypeOK
  BY DEF TypeOK, RetrierTypeOK, Retriers
<1>2. CASE RetryTick(e) \/ RetrySkips(e) \/ RetryExits(e)
  <2>1. \A f \in Engines : RetrierHas(f, jid) => RetrierHas(f, jid)'
    <3>1. ~RetrierHas(e, jid)
      BY <1>2 DEF RetryTick, RetrySkips, RetryExits, RetrierHas
    <3>2. PICK pc, batch : RetrierGoes(e, pc, NoJob, batch)
      BY <1>2 DEF RetryTick, RetrySkips, RetryExits
    <3>. QED  BY <3>1, <3>2, RetrierGoesHas
  <2>. QED  BY <1>2, <2>1, StoredElsewhere
            DEF RetryTick, RetrySkips, RetryExits, brokerVars, history, Settled, InHand,
                FetcherHas, WorkerHas
<1>3. CASE RetryRemoves(e)
  <2>1. PICK job \in retrier[e].batch :
          /\ RemoveFromRetry(job)
          /\ RetrierGoes(e, "enqueue", [job EXCEPT !.state = "pending"], retrier[e].batch \ {job})
    BY <1>3 DEF RetryRemoves, Call
  <2>2. job \in Job /\ [job EXCEPT !.state = "pending"].jid = job.jid
    BY <1>1, <2>1 DEF Job
  <2>. DEFINE pending == [job EXCEPT !.state = "pending"]
  <2>3. jid = job.jid => RetrierHas(e, jid)'
    <3>1. pending.jid = job.jid /\ RetrierGoes(e, "enqueue", pending, retrier[e].batch \ {job})
      BY <2>1, <2>2
    <3>. HIDE DEF pending
    <3>. QED  BY <3>1, RetrierGoesHas
  <2>4. \A f \in Engines : RetrierHas(f, jid) => RetrierHas(f, jid)'
    BY <1>3, <2>1, RetrierGoesHas DEF RetryRemoves, RetrierHas
  <2>5. Stored(jid) => Stored(jid)' \/ jid = job.jid
    BY <2>1, <2>2, RemoveKeeps
  <2>. QED  BY <1>3, <2>3, <2>4, <2>5
            DEF RetryRemoves, history, Settled, InHand, FetcherHas, WorkerHas
<1>4. CASE RetryEnqueues(e)
  <2>1. retrier[e].job \in Job
    BY <1>1, <1>4 DEF RetryEnqueues
  <2>2. CASE /\ Enqueue(retrier[e].job.queue, retrier[e].job)
             /\ RetrierGoes(e, "loop", NoJob, retrier[e].batch)
    <3>1. jid = retrier[e].job.jid \/ Stored(jid) => Stored(jid)'
      BY <1>1, <2>1, <2>2, EnqueueStores
    <3>2. \A f \in Engines : RetrierHas(f, jid) => RetrierHas(f, jid)' \/ jid = retrier[e].job.jid
      BY <2>2, RetrierGoesHas DEF RetrierHas
    <3>. QED  BY <1>4, <3>1, <3>2
              DEF RetryEnqueues, history, Settled, InHand, FetcherHas, WorkerHas
  <2>3. CASE /\ UNCHANGED brokerVars
             /\ RetrierGoes(e, "fallback", NotReenqueued(retrier[e].job), retrier[e].batch)
    <3>1. NotReenqueued(retrier[e].job).jid = retrier[e].job.jid
      BY <2>1, FailedJobType
    <3>2. \A f \in Engines : RetrierHas(f, jid) => RetrierHas(f, jid)' \/ RetrierHas(e, jid)'
      BY <2>3, <3>1, RetrierGoesHas DEF RetrierHas
    <3>. QED  BY <1>4, <2>3, <3>2, StoredElsewhere
              DEF RetryEnqueues, brokerVars, history, Settled, InHand, FetcherHas, WorkerHas
  <2>. QED  BY <1>4, <2>2, <2>3 DEF RetryEnqueues, CallWithEngineContext, Call
<1>5. CASE RetryFallsBack(e)
  <2>1. /\ retrier[e].job \in Job
        /\ AddToDead(retrier[e].job) \/ AddToRetry(retrier[e].job)
        /\ RetrierGoes(e, "loop", NoJob, retrier[e].batch)
    BY <1>1, <1>5 DEF RetryFallsBack, Call
  <2>2. jid = retrier[e].job.jid \/ Stored(jid) => Stored(jid)'
    BY <2>1, AddStores
  <2>3. \A f \in Engines : RetrierHas(f, jid) => RetrierHas(f, jid)' \/ jid = retrier[e].job.jid
    BY <2>1, RetrierGoesHas DEF RetrierHas
  <2>. QED  BY <1>5, <2>2, <2>3
            DEF RetryFallsBack, history, Settled, InHand, FetcherHas, WorkerHas
<1>. QED  BY <1>2, <1>3, <1>4, <1>5 DEF Retrier

\* The reaper takes leases only, and what it enqueues comes on top.
LEMMA ReaperCarries ==
  ASSUME TypeOK, Quiet, NEW e \in Engines, Reaper(e), NEW jid \in JIDs, Settled(jid)
  PROVE  Settled(jid)'
<1>. USE DEF Quiet
<1>1. reaper[e].batch \subseteq Job /\ BrokerTypeOK
  BY DEF TypeOK, Reapers
<1>2. Stored(jid) => Stored(jid)'
  <2>1. CASE UNCHANGED <<queues, retry, dead>>
    BY <2>1, StoredElsewhere
  <2>2. CASE \E job \in reaper[e].batch : Enqueue(job.queue, job)
    BY <1>1, <2>2, EnqueueStores
  <2>. QED  BY <2>1, <2>2 DEF Reaper, ReaperTick, ReaperSkips, ReaperEnqueues, ReaperExits,
              CallWithEngineContext, Call, ReapOrphanedJobs, brokerVars
<1>. QED  BY <1>2 DEF Reaper, ReaperTick, ReaperSkips, ReaperEnqueues, ReaperExits, history,
            Settled, InHand, FetcherHas, WorkerHas, RetrierHas

-----------------------------------------------------------------------------
(* Processes that are down hold nothing, so that a start forgets nothing. *)

DownIsIdle ==
  \A e \in Engines : status[e] = "down" =>
    /\ fetcher[e].pc = "exited" /\ retrier[e].pc = "exited"
    /\ \A s \in Slots : s[1] = e => worker[s].pc = "exited"

\* A process that is down holds nothing.
LEMMA StepDownIsIdle ==
  ASSUME TypeOK, DownIsIdle, [Next]_vars
  PROVE  DownIsIdle'
<1>. USE DEF DownIsIdle
<1>1. /\ status \in [Engines -> {"down", "running", "stopping"}]
      /\ fetcher \in [Engines -> Fetchers] /\ worker \in [Slots -> Workers]
      /\ retrier \in [Engines -> Retriers]
  BY DEF TypeOK, FetcherTypeOK, WorkerTypeOK, RetrierTypeOK
<1>2. CASE UNCHANGED <<status, fetcher, worker, retrier>>
  BY <1>2
<1>3. ASSUME NEW e \in Engines, Start(e) \/ Stop(e) \/ StopReturns(e) \/ Crash(e)
      PROVE  DownIsIdle'
  <2>1. CASE Start(e)
    <3>1. /\ status' = [status EXCEPT ![e] = "running"]
          /\ \A f \in Engines \ {e} : fetcher'[f] = fetcher[f] /\ retrier'[f] = retrier[f]
          /\ \A s \in Slots : s[1] # e => worker'[s] = worker[s]
      BY <1>1, <2>1 DEF Start
    <3>. QED  BY <1>1, <3>1
  <2>2. CASE Stop(e)
    BY <1>1, <2>2 DEF Stop
  <2>3. CASE StopReturns(e)
    BY <1>1, <2>3 DEF StopReturns
  <2>4. CASE Crash(e)
    <3>1. /\ status' = [status EXCEPT ![e] = "down"]
          /\ fetcher'[e].pc = "exited" /\ retrier'[e].pc = "exited"
          /\ \A f \in Engines \ {e} : fetcher'[f] = fetcher[f] /\ retrier'[f] = retrier[f]
          /\ \A s \in Slots : IF s[1] = e THEN worker'[s].pc = "exited"
                                          ELSE worker'[s] = worker[s]
      BY <1>1, <2>4 DEF Crash, NoFetcher, NoRetrier, NoWorker
    <3>. QED  BY <1>1, <3>1
  <2>. QED  BY <1>3, <2>1, <2>2, <2>3, <2>4
<1>4. ASSUME NEW e \in Engines, Fetcher(e)
      PROVE  DownIsIdle'
  <2>1. fetcher[e].pc # "exited" /\ UNCHANGED <<status, retrier>>
    BY <1>4 DEF Fetcher, FetcherTop, FetcherPoll, FetcherSend, FetcherHandBack, FetcherFallback,
                FetcherAck
  <2>2. \A f \in Engines \ {e} : fetcher'[f] = fetcher[f]
    BY <1>1, <1>4 DEF Fetcher, FetcherTop, FetcherPoll, FetcherSend, FetcherHandBack,
                      FetcherFallback, FetcherAck, FetcherGoes, FetcherPolls
  <2>3. \A s \in Slots : s[1] # e => worker'[s] = worker[s]
    BY <1>1, <1>4 DEF Fetcher, FetcherTop, FetcherPoll, FetcherSend, FetcherHandBack,
                      FetcherFallback, FetcherAck
  <2>. QED  BY <2>1, <2>2, <2>3
<1>5. ASSUME NEW s \in Slots, Worker(s)
      PROVE  DownIsIdle'
  <2>1. worker[s].pc # "exited" /\ UNCHANGED <<status, fetcher, retrier>>
    BY <1>5 DEF Worker, JobSucceeds, JobFails, JobMeetsOpenCircuit, WorkerSchedules,
                WorkerAcks, WorkerExits
  <2>2. \A t \in Slots \ {s} : worker'[t] = worker[t]
    BY <1>1, <1>5 DEF Worker, JobSucceeds, JobFails, JobMeetsOpenCircuit, WorkerSchedules,
                      WorkerAcks, WorkerExits, WorkerGoes
  <2>3. s[1] \in Engines
    BY DEF Slots
  <2>. QED  BY <2>1, <2>2, <2>3
<1>6. ASSUME NEW e \in Engines, Retrier(e)
      PROVE  DownIsIdle'
  <2>1. retrier[e].pc # "exited" /\ UNCHANGED <<status, fetcher, worker>>
    BY <1>6 DEF Retrier, RetryTick, RetrySkips, RetryRemoves, RetryEnqueues, RetryFallsBack,
                RetryExits
  <2>2. \A f \in Engines \ {e} : retrier'[f] = retrier[f]
    BY <1>1, <1>6 DEF Retrier, RetryTick, RetrySkips, RetryRemoves, RetryEnqueues,
                      RetryFallsBack, RetryExits, RetrierGoes
  <2>. QED  BY <2>1, <2>2
<1>7. ASSUME NEW e \in Engines, Reaper(e)
      PROVE  UNCHANGED <<status, fetcher, worker, retrier>>
  BY <1>7 DEF Reaper, ReaperTick, ReaperSkips, ReaperEnqueues, ReaperExits
<1>. QED  BY <1>2, <1>3, <1>4, <1>5, <1>6, <1>7
          DEF Next, vars, engineVars, ClientEnqueue, ClearQueue, OrphanLeaseExpires,
              HeldLeaseExpires, BackoffEnds

\* Start finds nothing in hand, and Stop and StopReturns take nothing away.
LEMMA LifeCarries ==
  ASSUME TypeOK, DownIsIdle, Quiet, NEW e \in Engines,
         Start(e) \/ Stop(e) \/ StopReturns(e) \/ Crash(e), NEW jid \in JIDs, Settled(jid)
  PROVE  Settled(jid)'
<1>1. Stored(jid) => Stored(jid)'
  BY StoredElsewhere DEF Start, Stop, StopReturns, Crash, brokerVars
<1>2. CASE Start(e)
  <2>1. /\ fetcher[e].pc = "exited" /\ retrier[e].pc = "exited"
        /\ \A s \in Slots : s[1] = e => worker[s].pc = "exited"
    BY <1>2 DEF Start, DownIsIdle
  <2>2. /\ \A f \in Engines \ {e} : fetcher'[f] = fetcher[f] /\ retrier'[f] = retrier[f]
        /\ \A s \in Slots : s[1] # e => worker'[s] = worker[s]
    BY <1>2 DEF Start, TypeOK, FetcherTypeOK, RetrierTypeOK
  <2>. QED  BY <1>1, <1>2, <2>1, <2>2
            DEF Start, history, Settled, InHand, FetcherHas, WorkerHas, RetrierHas
<1>3. CASE Stop(e) \/ StopReturns(e)
  BY <1>1, <1>3 DEF Stop, StopReturns, history, Settled, InHand, FetcherHas, WorkerHas, RetrierHas
<1>4. CASE Crash(e)
  BY <1>4 DEF Crash, Quiet
<1>. QED  BY <1>2, <1>3, <1>4

\* What the client enqueues.
LEMMA NewJobType ==
  ASSUME NEW j \in JIDs, NEW q \in Queues,
         NEW job \in {NewJob(j, q)} \cup {SetRetry(NewJob(j, q), n) : n \in RetryOptions}
  PROVE  job \in Job /\ job.queue = q /\ job.jid = j
<1>1. NewJob(j, q) \in Job /\ NewJob(j, q).queue = q /\ NewJob(j, q).jid = j
  BY RetryAssumption DEF NewJob, Job, JobState
<1>2. ASSUME NEW n \in RetryOptions
      PROVE  LET new == SetRetry(NewJob(j, q), n)
             IN  new \in Job /\ new.queue = q /\ new.jid = j
  <2>1. Clamp(n) \in 0..MaxRetryCount
    BY ClampType, ProcessorAssumption
  <2>. QED  BY <1>1, <2>1 DEF SetRetry, NewJob, Job
<1>. QED  BY <1>1, <1>2

\* The client's Enqueue, when it does not fail: its job is stored under its queue.
LEMMA ClientEnqueues ==
  ASSUME TypeOK, Quiet, NEW j \in JIDs, NEW q \in Queues, ClientEnqueue(j, q)
  PROVE  /\ client[j] = "none" /\ client' = [client EXCEPT ![j] = "accepted"]
         /\ UNCHANGED <<engineVars, succeeded, failures>>
         /\ \E job \in Job : job.jid = j /\ Enqueue(job.queue, job)
<1>1. PICK job \in {NewJob(j, q)} \cup {SetRetry(NewJob(j, q), n) : n \in RetryOptions} :
        /\ Enqueue(q, job)
        /\ client' = [client EXCEPT ![j] = "accepted"]
  BY DEF ClientEnqueue, Call, Quiet
<1>2. job \in Job /\ job.queue = q /\ job.jid = j
  BY <1>1, NewJobType
<1>. QED  BY <1>1, <1>2 DEF ClientEnqueue

\* A settled job stays settled: somebody carries it on, or it is done or stored.
LEMMA StepSettled ==
  ASSUME TypeOK, DownIsIdle, Quiet, [Next]_vars, NEW jid \in JIDs, Settled(jid)
  PROVE  Settled(jid)'
<1>1. ASSUME NEW j \in JIDs, NEW q \in Queues, ClientEnqueue(j, q)
      PROVE  Settled(jid)'
  <2>1. Stored(jid) => Stored(jid)'
    BY <1>1, ClientEnqueues, EnqueueStores DEF TypeOK
  <2>. QED  BY <1>1, <2>1
            DEF ClientEnqueue, engineVars, Settled, InHand, FetcherHas, WorkerHas, RetrierHas
<1>2. ASSUME NEW e \in Engines, Start(e) \/ Stop(e) \/ StopReturns(e) \/ Crash(e)
      PROVE  Settled(jid)'
  BY <1>2, LifeCarries
<1>3. ASSUME NEW e \in Engines, Fetcher(e) \/ Retrier(e) \/ Reaper(e)
      PROVE  Settled(jid)'
  BY <1>3, FetcherCarries, RetrierCarries, ReaperCarries
<1>4. ASSUME NEW s \in Slots, Worker(s)
      PROVE  Settled(jid)'
  BY <1>4, WorkerCarries
<1>5. CASE UNCHANGED <<queues, retry, dead, succeeded, fetcher, worker, retrier>>
  BY <1>5, StoredElsewhere DEF Settled, InHand, FetcherHas, WorkerHas, RetrierHas
<1>6. ASSUME NEW q \in Queues, ClearQueue(q)
      PROVE  FALSE
  BY <1>6 DEF ClearQueue, Quiet
<1>. QED  BY <1>1, <1>2, <1>3, <1>4, <1>5, <1>6
          DEF Next, vars, brokerVars, engineVars, history, OrphanLeaseExpires, HeldLeaseExpires,
              BackoffEnds, LeaseExpires, RetryFallsDue

\* Only the client's Enqueue changes what the client was told.
LEMMA OnlyClientAccepts ==
  ASSUME [Next]_vars
  PROVE  client' = client \/ \E j \in JIDs, q \in Queues : ClientEnqueue(j, q)
BY DEF Next, vars, history, ClearQueue, Start, Stop, StopReturns, Crash, Fetcher, FetcherTop,
       FetcherPoll, FetcherSend, FetcherHandBack, FetcherFallback, FetcherAck, Worker,
       JobSucceeds, JobFails, JobMeetsOpenCircuit, WorkerSchedules, WorkerAcks, WorkerExits,
       Retrier, RetryTick, RetrySkips, RetryRemoves, RetryEnqueues, RetryFallsBack, RetryExits,
       Reaper, ReaperTick, ReaperSkips, ReaperEnqueues, ReaperExits, OrphanLeaseExpires,
       HeldLeaseExpires, BackoffEnds

\* Every job the client was told of is done, stored or in somebody's hands.
LEMMA StepCarried ==
  ASSUME TypeOK, DownIsIdle, Carried, Reliable, [Next]_vars
  PROVE  Carried'
<1>. SUFFICES ASSUME NEW jid \in JIDs, client'[jid] = "accepted"
              PROVE  Settled(jid)'
  BY DEF Carried
<1>1. CASE client[jid] = "accepted"
  BY <1>1, StepSettled, NoErrors DEF Carried
<1>2. CASE client[jid] # "accepted"
  <2>1. PICK j \in JIDs, q \in Queues : ClientEnqueue(j, q)
    BY <1>2, OnlyClientAccepts
  <2>2. j = jid
    BY <1>2, <2>1, ClientEnqueues, NoErrors DEF TypeOK, HistoryTypeOK
  <2>3. Stored(jid)'
    BY <2>1, <2>2, ClientEnqueues, NoErrors, EnqueueStores DEF TypeOK
  <2>. QED  BY <2>3 DEF Settled
<1>. QED  BY <1>1, <1>2

\* No job is lost: while no process crashes, no Redis call fails and no queue
\* is cleared, a job whose Enqueue returned nil is performed, stored or held at
\* every moment, for any engines, workers, queues served, retry counts, slowness
\* and any number of stops and restarts.
THEOREM NothingLost ==
  ASSUME Reliable
  PROVE  Spec => []NoJobLost
<1>1. Init => Carried /\ DownIsIdle
  BY DEF Init, Carried, DownIsIdle, NoFetcher, NoRetrier, NoWorker
<1>2. TypeOK /\ DownIsIdle /\ Carried /\ [Next]_vars => DownIsIdle' /\ Carried'
  BY StepDownIsIdle, StepCarried
<1>3. Carried => NoJobLost
  BY DEF Carried, NoJobLost
<1>. QED  BY <1>1, <1>2, <1>3, TypeCorrect, PTL DEF Spec

-----------------------------------------------------------------------------
(* Delivery at least once, as a refinement.  Under Reliable a step moves one   *)
(* job, if any, so that Kept loses at most that one.  It may lose it only when *)
(* the job is performed or buried; that is the invariant CopiesSettled: every  *)
(* copy there is, stale leases and the batches of the loops included, is of a  *)
(* job that is settled, hence settled after the step as well.                  *)

Queued(jid)     == \E q \in Queues : \E i \in DOMAIN queues[q] : queues[q][i].jid = jid
InRetry(jid)    == \E data \in retry : data.jid = jid
Leased(jid)     == \E data \in processing : data.jid = jid
Batched(e, jid) == \E job \in retrier[e].batch : job.jid = jid
Reaped(e, jid)  == \E job \in reaper[e].batch : job.jid = jid

\* Some copy of the job is somewhere.
Has(jid) ==
  \/ Queued(jid) \/ InRetry(jid) \/ Leased(jid)
  \/ \E e \in Engines : FetcherHas(e, jid) \/ RetrierHas(e, jid) \/ Batched(e, jid) \/ Reaped(e, jid)
  \/ \E s \in Slots : WorkerHas(s, jid)

CopiesSettled == \A jid \in Kept : Settled(jid)

\* A loop that has ended has no batch, and the loops of a process that is down have ended.
LoopsEmpty == \A e \in Engines :
  /\ retrier[e].pc = "exited" => retrier[e].batch = {}
  /\ reaper[e].pc = "exited" => reaper[e].batch = {}
  /\ status[e] = "down" => reaper[e].pc = "exited"

\* Kept is the set of jobs with a copy.
LEMMA KeptHas ==
  /\ \A jid : jid \in Kept <=> jid \in JIDs /\ Has(jid)
  /\ \A jid : jid \in Kept' <=> jid \in JIDs /\ Has(jid)'
<1>1. \A jid : jid \in Kept <=> jid \in JIDs /\ Has(jid)
  BY DEF Kept, Has, InHand, Queued, InRetry, Leased, Batched, Reaped
<1>2. \A jid : jid \in Kept' <=> jid \in JIDs /\ Has(jid)'
  BY DEF Kept, Has, InHand, Queued, InRetry, Leased, Batched, Reaped
<1>. QED  BY <1>1, <1>2

\* A place that does not change has the same jobs.
LEMMA SamePlaces ==
  /\ queues' = queues => \A jid : Queued(jid)' <=> Queued(jid)
  /\ retry' = retry => \A jid : InRetry(jid)' <=> InRetry(jid)
  /\ processing' = processing => \A jid : Leased(jid)' <=> Leased(jid)
  /\ fetcher' = fetcher => \A e, jid : FetcherHas(e, jid)' <=> FetcherHas(e, jid)
  /\ worker' = worker => \A s, jid : WorkerHas(s, jid)' <=> WorkerHas(s, jid)
  /\ retrier' = retrier => \A e, jid : /\ RetrierHas(e, jid)' <=> RetrierHas(e, jid)
                                       /\ Batched(e, jid)' <=> Batched(e, jid)
  /\ reaper' = reaper => \A e, jid : Reaped(e, jid)' <=> Reaped(e, jid)
BY DEF Queued, InRetry, Leased, FetcherHas, WorkerHas, RetrierHas, Batched, Reaped

\* What a fetcher has after a move.
LEMMA FetcherPlaces ==
  ASSUME TypeOK, NEW e \in Engines, NEW pc, NEW job, FetcherGoes(e, pc, job)
  PROVE  \A f \in Engines, jid \in JIDs :
           FetcherHas(f, jid)' <=> IF f = e THEN pc \in {"send", "fallback"} /\ job.jid = jid
                                            ELSE FetcherHas(f, jid)
BY DEF TypeOK, FetcherTypeOK, FetcherGoes, FetcherHas

\* What a worker has after a move.
LEMMA WorkerPlaces ==
  ASSUME TypeOK, NEW s \in Slots, NEW pc, NEW job, WorkerGoes(s, pc, job)
  PROVE  \A t \in Slots, jid \in JIDs :
           WorkerHas(t, jid)' <=> IF t = s THEN pc \in {"perform", "schedule"} /\ job.jid = jid
                                           ELSE WorkerHas(t, jid)
BY DEF TypeOK, WorkerTypeOK, WorkerGoes, WorkerHas

\* What a retry loop has after a move.
LEMMA RetrierPlaces ==
  ASSUME TypeOK, NEW e \in Engines, NEW pc, NEW job, NEW batch, RetrierGoes(e, pc, job, batch)
  PROVE  \A f \in Engines, jid \in JIDs :
           /\ RetrierHas(f, jid)' <=> IF f = e THEN pc \in {"enqueue", "fallback"} /\ job.jid = jid
                                               ELSE RetrierHas(f, jid)
           /\ Batched(f, jid)' <=> IF f = e THEN \E j \in batch : j.jid = jid ELSE Batched(f, jid)
BY DEF TypeOK, RetrierTypeOK, RetrierGoes, RetrierHas, Batched

\* What a reaper has after a move.
LEMMA ReaperPlaces ==
  ASSUME TypeOK, NEW e \in Engines, NEW pc, NEW batch, ReaperGoes(e, pc, batch)
  PROVE  \A f \in Engines, jid \in JIDs :
           Reaped(f, jid)' <=> IF f = e THEN \E j \in batch : j.jid = jid ELSE Reaped(f, jid)
BY DEF TypeOK, ReaperGoes, Reaped

\* Enqueue adds its job to the queued ones.
LEMMA EnqueueQueues ==
  ASSUME BrokerTypeOK, NEW job \in Job, Enqueue(job.queue, job)
  PROVE  \A jid \in JIDs : Queued(jid)' <=> Queued(jid) \/ jid = job.jid
<1>. DEFINE q == job.queue
            data == ToJSON(job)
<1>1. /\ q \in Queues /\ data \in Bytes /\ data.jid = job.jid
      /\ queues' = [queues EXCEPT ![q] = Append(@, data)]
  BY ToJSONType DEF ToJSON, Job, Enqueue
<1>. HIDE DEF q, data
<1>2. /\ queues[q] \in Seq(Bytes)
      /\ queues'[q] = Append(queues[q], data)
      /\ \A r \in Queues \ {q} : queues'[r] = queues[r]
  BY <1>1 DEF BrokerTypeOK
<1>3. Len(queues[q]) + 1 \in DOMAIN queues'[q] /\ queues'[q][Len(queues[q]) + 1] = data
  BY <1>1, <1>2
<1>4. \A i \in DOMAIN queues[q] : i \in DOMAIN queues'[q] /\ queues'[q][i] = queues[q][i]
  BY <1>1, <1>2
<1>5. \A i \in DOMAIN queues'[q] : i \in DOMAIN queues[q] \/ i = Len(queues[q]) + 1
  BY <1>1, <1>2
<1>. QED  BY <1>1, <1>2, <1>3, <1>4, <1>5 DEF Queued

\* Dequeue takes one copy of the job at the head of the queue.
LEMMA DequeueQueues ==
  ASSUME BrokerTypeOK, NEW q \in Queues, Dequeue(q)
  PROVE  /\ Queued(DequeuedJob(q).jid)
         /\ \A jid \in JIDs : /\ Queued(jid)' => Queued(jid)
                              /\ Queued(jid) => Queued(jid)' \/ jid = DequeuedJob(q).jid
         /\ \A jid \in JIDs : Leased(jid)' <=> Leased(jid) \/ jid = DequeuedJob(q).jid
<1>1. /\ queues[q] \in Seq(Bytes) /\ queues[q] # <<>>
      /\ queues'[q] = Tail(queues[q])
      /\ \A r \in Queues \ {q} : queues'[r] = queues[r]
      /\ processing' = processing \cup {Head(queues[q])}
      /\ DequeuedJob(q).jid = Head(queues[q]).jid
  BY DequeueType DEF BrokerTypeOK, Dequeue
<1>2. \A i \in DOMAIN queues[q] \ {1} :
        i - 1 \in DOMAIN queues'[q] /\ queues'[q][i - 1] = queues[q][i]
  BY <1>1
<1>3. \A i \in DOMAIN queues'[q] :
        i + 1 \in DOMAIN queues[q] /\ queues'[q][i] = queues[q][i + 1]
  BY <1>1
<1>4. 1 \in DOMAIN queues[q] /\ queues[q][1] = Head(queues[q])
  BY <1>1
<1>5. ASSUME NEW jid \in JIDs, Queued(jid), jid # DequeuedJob(q).jid
      PROVE  Queued(jid)'
  <2>1. PICK r \in Queues : \E i \in DOMAIN queues[r] : queues[r][i].jid = jid
    BY <1>5 DEF Queued
  <2>2. PICK i \in DOMAIN queues[r] : queues[r][i].jid = jid
    BY <2>1
  <2>3. r = q => i # 1
    BY <1>1, <1>4, <1>5, <2>2
  <2>4. \E k \in DOMAIN queues'[r] : queues'[r][k].jid = jid
    BY <1>1, <1>2, <2>2, <2>3
  <2>. QED  BY <2>4 DEF Queued
<1>6. ASSUME NEW jid \in JIDs, Queued(jid)'
      PROVE  Queued(jid)
  <2>1. PICK r \in Queues : \E i \in DOMAIN queues'[r] : queues'[r][i].jid = jid
    BY <1>6 DEF Queued
  <2>2. \E k \in DOMAIN queues[r] : queues[r][k].jid = jid
    <3>1. PICK i \in DOMAIN queues'[r] : queues'[r][i].jid = jid
      BY <2>1
    <3>2. CASE r = q
      <4>1. i + 1 \in DOMAIN queues[q] /\ queues'[q][i] = queues[q][i + 1]
        BY <1>3, <3>1, <3>2
      <4>. QED  BY <3>1, <3>2, <4>1
    <3>3. CASE r # q
      BY <1>1, <3>1, <3>3
    <3>. QED  BY <3>2, <3>3
  <2>. QED  BY <2>2 DEF Queued
<1>7. Queued(DequeuedJob(q).jid)
  BY <1>1, <1>4 DEF Queued
<1>8. \A jid \in JIDs : Leased(jid)' <=> Leased(jid) \/ jid = DequeuedJob(q).jid
  BY <1>1 DEF Leased
<1>. QED  BY <1>5, <1>6, <1>7, <1>8

\* A step takes copies away from no job but j, and brings none in.
Shrinks(j) ==
  \A jid \in JIDs : /\ Has(jid)' => Has(jid)
                    /\ Has(jid) => Has(jid)' \/ jid = j

\* A step is one of Delivery's, about job j.
Settles(j) ==
  \/ UNCHANGED <<succeeded, dead>>
  \/ Has(j) /\ succeeded' = succeeded \cup {j} /\ dead' = dead
  \/ Has(j) /\ succeeded' = succeeded /\ \E data \in Bytes : data.jid = j /\ dead' = dead \cup {data}

Maps == \E j : Shrinks(j) /\ Settles(j)

\* Ack ends one lease, if any.
LEMMA AckLeases ==
  ASSUME NEW job, Ack(job)
  PROVE  \A jid \in JIDs : /\ Leased(jid)' => Leased(jid)
                           /\ Leased(jid) => Leased(jid)' \/ jid = RawOrSerialize(job).jid
<1>1. processing' = processing \ {RawOrSerialize(job)}
  BY DEF Ack
<1>. QED  BY <1>1 DEF Leased

\* AddToRetry adds its job to the retry set.
LEMMA AddToRetryAdds ==
  ASSUME NEW job, AddToRetry(job)
  PROVE  \A jid \in JIDs : InRetry(jid)' <=> InRetry(jid) \/ jid = job.jid
<1>1. retry' = retry \cup {ToJSON(job)} /\ ToJSON(job).jid = job.jid
  BY DEF AddToRetry, ToJSON
<1>. QED  BY <1>1 DEF InRetry

\* AddToDead buries its job.
LEMMA AddToDeadBuries ==
  ASSUME NEW job \in Job, AddToDead(job)
  PROVE  \E data \in Bytes : data.jid = job.jid /\ dead' = dead \cup {data}
<1>1. ToJSON(job) \in Bytes /\ ToJSON(job).jid = job.jid
  BY ToJSONType DEF ToJSON
<1>. QED  BY <1>1 DEF AddToDead

\* The steps of fetcher().
LEMMA FetcherMaps ==
  ASSUME TypeOK, Reliable, NEW e \in Engines, Fetcher(e)
  PROVE  Maps
<1>. USE NoErrors, SamePlaces DEF Quiet
<1>1. /\ fetcher \in [Engines -> Fetchers]
      /\ fetcher[e].pc \in {"send", "fallback", "ack"} => fetcher[e].job \in Job
      /\ BrokerTypeOK
  BY DEF TypeOK, FetcherTypeOK, Fetchers
<1>2. CASE FetcherTop(e)
  <2>1. \A f \in Engines, jid \in JIDs : FetcherHas(f, jid)' <=> FetcherHas(f, jid)
    BY <1>1, <1>2 DEF FetcherTop, FetcherGoes, FetcherPolls, FetcherHas
  <2>2. Shrinks(NoJob)
    BY <1>2, <2>1 DEF FetcherTop, brokerVars, Shrinks, Has
  <2>. QED  BY <1>2, <2>2 DEF FetcherTop, brokerVars, history, Settles, Maps
<1>3. CASE FetcherPoll(e)
  <2>1. CASE Dequeue(PolledQueue(e)) /\ FetcherGoes(e, "send", DequeuedJob(PolledQueue(e)))
    <3>. DEFINE job == DequeuedJob(PolledQueue(e))
    <3>1. /\ Queued(job.jid)
          /\ \A jid \in JIDs : /\ Queued(jid)' => Queued(jid)
                               /\ Queued(jid) => Queued(jid)' \/ jid = job.jid
          /\ \A jid \in JIDs : Leased(jid)' <=> Leased(jid) \/ jid = job.jid
      BY <1>1, <2>1, DequeueQueues, PolledQueueType
    <3>2. \A f \in Engines, jid \in JIDs :
            FetcherHas(f, jid)' <=> IF f = e THEN job.jid = jid ELSE FetcherHas(f, jid)
      BY <2>1, FetcherPlaces
    <3>3. \A jid \in JIDs : ~FetcherHas(e, jid)
      BY <1>3 DEF FetcherPoll, FetcherHas
    <3>4. UNCHANGED <<retry, dead, worker, retrier, reaper, succeeded>>
      BY <1>3, <2>1 DEF FetcherPoll, Dequeue, history
    <3>. HIDE DEF job
    <3>5. Shrinks(job.jid)
      BY <3>1, <3>2, <3>3, <3>4 DEF Shrinks, Has
    <3>. QED  BY <3>4, <3>5 DEF Settles, Maps
  <2>2. CASE FetcherGoes(e, "top", NoJob) /\ UNCHANGED brokerVars
    <3>1. \A f \in Engines, jid \in JIDs : FetcherHas(f, jid)' <=> FetcherHas(f, jid)
      BY <1>1, <1>3, <2>2 DEF FetcherPoll, FetcherGoes, FetcherHas
    <3>2. Shrinks(NoJob)
      BY <1>3, <2>2, <3>1 DEF FetcherPoll, brokerVars, Shrinks, Has
    <3>. QED  BY <1>3, <2>2, <3>2 DEF FetcherPoll, brokerVars, history, Settles, Maps
  <2>. QED  BY <1>3, <2>1, <2>2 DEF FetcherPoll, Call
<1>4. CASE FetcherSend(e)
  <2>. DEFINE job == [fetcher[e].job EXCEPT !.state = "active"]
  <2>1. PICK s \in Slots : WorkerGoes(s, "perform", job) /\ worker[s].pc = "idle"
    BY <1>4 DEF FetcherSend, WorkerGoes
  <2>2. job.jid = fetcher[e].job.jid
    BY <1>1, <1>4 DEF FetcherSend, Job
  <2>. HIDE DEF job
  <2>3. \A t \in Slots, jid \in JIDs :
          WorkerHas(t, jid)' <=> IF t = s THEN job.jid = jid ELSE WorkerHas(t, jid)
    BY <2>1, WorkerPlaces
  <2>4. \A jid \in JIDs : ~WorkerHas(s, jid) /\ (FetcherHas(e, jid) <=> job.jid = jid)
    BY <1>4, <2>1, <2>2 DEF FetcherSend, FetcherHas, WorkerHas
  <2>5. \A f \in Engines, jid \in JIDs : FetcherHas(f, jid)' <=> f # e /\ FetcherHas(f, jid)
    BY <1>4, FetcherPlaces DEF FetcherSend
  <2>6. UNCHANGED <<queues, processing, retry, dead, retrier, reaper, succeeded>>
    BY <1>4 DEF FetcherSend, brokerVars, history
  <2>7. Shrinks(NoJob)
    BY <2>3, <2>4, <2>5, <2>6 DEF Shrinks, Has
  <2>. QED  BY <2>6, <2>7 DEF Settles, Maps
<1>5. CASE FetcherHandBack(e)
  <2>. DEFINE job == [fetcher[e].job EXCEPT !.state = "pending"]
  <2>1. job \in Job /\ job.jid = fetcher[e].job.jid
    BY <1>1, <1>5 DEF FetcherHandBack, Job, JobState
  <2>2. Enqueue(job.queue, job) /\ FetcherGoes(e, "ack", job)
    BY <1>5 DEF FetcherHandBack, Call
  <2>. HIDE DEF job
  <2>3. \A jid \in JIDs : Queued(jid)' <=> Queued(jid) \/ jid = job.jid
    BY <1>1, <2>1, <2>2, EnqueueQueues
  <2>4. \A jid \in JIDs : FetcherHas(e, jid) <=> job.jid = jid
    BY <1>5, <2>1 DEF FetcherHandBack, FetcherHas
  <2>5. \A f \in Engines, jid \in JIDs : FetcherHas(f, jid)' <=> f # e /\ FetcherHas(f, jid)
    BY <2>2, FetcherPlaces
  <2>6. UNCHANGED <<processing, retry, dead, worker, retrier, reaper, succeeded>>
    BY <1>5, <2>2 DEF FetcherHandBack, Enqueue, history
  <2>7. Shrinks(NoJob)
    BY <2>3, <2>4, <2>5, <2>6 DEF Shrinks, Has
  <2>. QED  BY <2>6, <2>7 DEF Settles, Maps
<1>6. CASE FetcherFallback(e)
  <2>. DEFINE job == fetcher[e].job
  <2>1. AddToRetry(job) /\ job \in Job /\ FetcherGoes(e, "ack", job)
    BY <1>1, <1>6 DEF FetcherFallback, Call
  <2>2. \A jid \in JIDs : FetcherHas(e, jid) <=> job.jid = jid
    BY <1>6 DEF FetcherFallback, FetcherHas
  <2>. HIDE DEF job
  <2>3. \A jid \in JIDs : InRetry(jid)' <=> InRetry(jid) \/ jid = job.jid
    BY <2>1, AddToRetryAdds
  <2>5. \A f \in Engines, jid \in JIDs : FetcherHas(f, jid)' <=> f # e /\ FetcherHas(f, jid)
    BY <2>1, FetcherPlaces
  <2>6. UNCHANGED <<queues, processing, dead, worker, retrier, reaper, succeeded>>
    BY <1>6, <2>1 DEF FetcherFallback, AddToRetry, history
  <2>7. Shrinks(NoJob)
    BY <2>2, <2>3, <2>5, <2>6 DEF Shrinks, Has
  <2>. QED  BY <2>6, <2>7 DEF Settles, Maps
<1>7. CASE FetcherAck(e)
  <2>. DEFINE data == RawOrSerialize(fetcher[e].job)
  <2>1. Ack(fetcher[e].job) /\ FetcherGoes(e, "exited", NoJob)
    BY <1>7 DEF FetcherAck, Call
  <2>2. \A jid \in JIDs : /\ Leased(jid)' => Leased(jid)
                          /\ Leased(jid) => Leased(jid)' \/ jid = data.jid
    BY <2>1, AckLeases
  <2>3. \A f \in Engines, jid \in JIDs : FetcherHas(f, jid)' <=> FetcherHas(f, jid)
    BY <1>1, <1>7 DEF FetcherAck, FetcherGoes, FetcherHas
  <2>4. UNCHANGED <<queues, retry, dead, worker, retrier, reaper, succeeded>>
    BY <1>7, <2>1 DEF FetcherAck, Ack, history
  <2>. HIDE DEF data
  <2>5. Shrinks(data.jid)
    BY <2>2, <2>3, <2>4 DEF Shrinks, Has
  <2>. QED  BY <2>4, <2>5 DEF Settles, Maps
<1>. QED  BY <1>2, <1>3, <1>4, <1>5, <1>6, <1>7 DEF Fetcher

\* The steps of worker().
LEMMA WorkerMaps ==
  ASSUME TypeOK, Reliable, NEW s \in Slots, Worker(s)
  PROVE  Maps
<1>. USE NoErrors, SamePlaces DEF Quiet
<1>1. /\ worker[s].pc \in {"perform", "schedule", "ack"} => worker[s].job \in Job
      /\ BrokerTypeOK
  BY DEF TypeOK, WorkerTypeOK, Workers
<1>2. CASE JobSucceeds(s)
  <2>. DEFINE job == [worker[s].job EXCEPT !.state = "success"]
  <2>1. job.jid = worker[s].job.jid
    BY <1>1, <1>2 DEF JobSucceeds, Job
  <2>2. /\ RecordSuccess(job) /\ succeeded' = succeeded \cup {job.jid}
        /\ WorkerGoes(s, "ack", job)
    BY <1>2 DEF JobSucceeds, Call
  <2>. HIDE DEF job
  <2>3. \A t \in Slots, jid \in JIDs : WorkerHas(t, jid)' <=> t # s /\ WorkerHas(t, jid)
    BY <2>2, WorkerPlaces
  <2>4. \A jid : WorkerHas(s, jid) <=> jid = job.jid
    BY <1>2, <2>1 DEF JobSucceeds, WorkerHas
  <2>5. UNCHANGED <<queues, processing, retry, dead, fetcher, retrier, reaper>>
    BY <1>2, <2>2 DEF JobSucceeds, RecordSuccess
  <2>6. Shrinks(job.jid)
    BY <2>3, <2>4, <2>5 DEF Shrinks, Has
  <2>7. Has(job.jid)
    BY <2>4 DEF Has
  <2>. QED  BY <2>2, <2>5, <2>6, <2>7 DEF Settles, Maps
<1>3. CASE JobFails(s) \/ JobMeetsOpenCircuit(s)
  <2>1. PICK job : /\ job.jid = worker[s].job.jid
                   /\ RecordFailure(job) /\ WorkerGoes(s, "schedule", job)
    <3>1. CASE JobFails(s)
      <4>1. FailedJob(worker[s].job).jid = worker[s].job.jid
        BY <1>1, <3>1, FailedJobType DEF JobFails
      <4>. QED  BY <3>1, <4>1 DEF JobFails, Call
    <3>2. CASE JobMeetsOpenCircuit(s)
      <4>1. [worker[s].job EXCEPT !.state = "pending"].jid = worker[s].job.jid
        BY <1>1, <3>2 DEF JobMeetsOpenCircuit, Job
      <4>. QED  BY <3>2, <4>1 DEF JobMeetsOpenCircuit, Call
    <3>. QED  BY <1>3, <3>1, <3>2
  <2>2. \A t \in Slots, jid \in JIDs :
          WorkerHas(t, jid)' <=> IF t = s THEN job.jid = jid ELSE WorkerHas(t, jid)
    BY <2>1, WorkerPlaces
  <2>3. \A jid : WorkerHas(s, jid) <=> jid = job.jid
    BY <1>3, <2>1 DEF JobFails, JobMeetsOpenCircuit, WorkerHas
  <2>4. UNCHANGED <<queues, processing, retry, dead, fetcher, retrier, reaper, succeeded>>
    BY <1>3, <2>1 DEF JobFails, JobMeetsOpenCircuit, RecordFailure, history
  <2>5. Shrinks(NoJob)
    BY <2>2, <2>3, <2>4 DEF Shrinks, Has
  <2>. QED  BY <2>4, <2>5 DEF Settles, Maps
<1>4. CASE WorkerSchedules(s)
  <2>. DEFINE job == worker[s].job
  <2>1. /\ job \in Job
        /\ AddToDead(job) \/ AddToRetry(job)
        /\ WorkerGoes(s, "ack", job)
    BY <1>1, <1>4 DEF WorkerSchedules, Call
  <2>2. \A jid : WorkerHas(s, jid) <=> jid = job.jid
    BY <1>4 DEF WorkerSchedules, WorkerHas
  <2>. HIDE DEF job
  <2>3. \A t \in Slots, jid \in JIDs : WorkerHas(t, jid)' <=> t # s /\ WorkerHas(t, jid)
    BY <2>1, WorkerPlaces
  <2>4. UNCHANGED <<queues, processing, fetcher, retrier, reaper, succeeded>>
    BY <1>4, <2>1 DEF WorkerSchedules, AddToDead, AddToRetry, history
  <2>5. CASE AddToRetry(job)
    <3>1. \A jid \in JIDs : InRetry(jid)' <=> InRetry(jid) \/ jid = job.jid
      BY <2>5, AddToRetryAdds
    <3>2. Shrinks(NoJob)
      BY <2>2, <2>3, <2>4, <3>1 DEF Shrinks, Has
    <3>. QED  BY <2>4, <2>5, <3>2 DEF AddToRetry, Settles, Maps
  <2>6. CASE AddToDead(job)
    <3>1. retry' = retry /\ Has(job.jid)
      BY <2>2, <2>6 DEF AddToDead, Has
    <3>2. Shrinks(job.jid)
      BY <2>2, <2>3, <2>4, <3>1 DEF Shrinks, Has
    <3>3. \E data \in Bytes : data.jid = job.jid /\ dead' = dead \cup {data}
      BY <2>1, <2>6, AddToDeadBuries
    <3>. QED  BY <2>4, <3>1, <3>2, <3>3 DEF Settles, Maps
  <2>. QED  BY <2>1, <2>5, <2>6
<1>5. CASE WorkerAcks(s)
  <2>. DEFINE data == RawOrSerialize(worker[s].job)
  <2>1. Ack(worker[s].job) /\ WorkerGoes(s, "idle", NoJob)
    BY <1>5 DEF WorkerAcks, Call
  <2>2. \A jid \in JIDs : /\ Leased(jid)' => Leased(jid)
                          /\ Leased(jid) => Leased(jid)' \/ jid = data.jid
    BY <2>1, AckLeases
  <2>3. \A t \in Slots, jid \in JIDs : WorkerHas(t, jid)' <=> t # s /\ WorkerHas(t, jid)
    BY <2>1, WorkerPlaces
  <2>4. \A jid \in JIDs : ~WorkerHas(s, jid)
    BY <1>5 DEF WorkerAcks, WorkerHas
  <2>5. UNCHANGED <<queues, retry, dead, fetcher, retrier, reaper, succeeded>>
    BY <1>5, <2>1 DEF WorkerAcks, Ack, history
  <2>. HIDE DEF data
  <2>6. Shrinks(data.jid)
    BY <2>2, <2>3, <2>4, <2>5 DEF Shrinks, Has
  <2>. QED  BY <2>5, <2>6 DEF Settles, Maps
<1>6. CASE WorkerExits(s)
  <2>1. \A t \in Slots, jid \in JIDs : WorkerHas(t, jid)' <=> t # s /\ WorkerHas(t, jid)
    BY <1>6, WorkerPlaces DEF WorkerExits
  <2>2. \A jid \in JIDs : ~WorkerHas(s, jid)
    BY <1>6 DEF WorkerExits, WorkerHas
  <2>3. UNCHANGED <<queues, processing, retry, dead, fetcher, retrier, reaper, succeeded>>
    BY <1>6 DEF WorkerExits, brokerVars, history
  <2>4. Shrinks(NoJob)
    BY <2>1, <2>2, <2>3 DEF Shrinks, Has
  <2>. QED  BY <2>3, <2>4 DEF Settles, Maps
<1>. QED  BY <1>2, <1>3, <1>4, <1>5, <1>6 DEF Worker

\* The steps of retryLoop().
LEMMA RetrierMaps ==
  ASSUME TypeOK, Reliable, NEW e \in Engines, Retrier(e)
  PROVE  Maps
<1>. USE NoErrors, SamePlaces DEF Quiet
<1>1. /\ retrier[e].pc \in {"enqueue", "fallback"} => retrier[e].job \in Job
      /\ retrier[e].batch \subseteq Job
      /\ BrokerTypeOK
  BY DEF TypeOK, RetrierTypeOK, Retriers
<1>2. CASE RetryTick(e)
  <2>1. PICK batch \in SUBSET retry : RetrierGoes(e, "loop", NoJob, RetryJobs(batch))
    BY <1>1, <1>2 DEF RetryTick, Batches, BrokerTypeOK
  <2>2. \A job \in RetryJobs(batch) : InRetry(job.jid)
    <3>1. \A data \in batch : FromJSON(data).jid = data.jid
      BY DEF FromJSON
    <3>. QED  BY <2>1, <3>1 DEF RetryJobs, InRetry
  <2>3. \A f \in Engines, jid \in JIDs :
          /\ RetrierHas(f, jid)' <=> f # e /\ RetrierHas(f, jid)
          /\ Batched(f, jid)' <=> IF f = e THEN \E j \in RetryJobs(batch) : j.jid = jid
                                           ELSE Batched(f, jid)
    BY <2>1, RetrierPlaces
  <2>4. \A jid \in JIDs : ~RetrierHas(e, jid) /\ ~Batched(e, jid)
    BY <1>2 DEF RetryTick, RetrierHas, Batched
  <2>5. UNCHANGED <<queues, processing, retry, dead, fetcher, worker, reaper, succeeded>>
    BY <1>2 DEF RetryTick, brokerVars, history
  <2>6. Shrinks(NoJob)
    BY <2>2, <2>3, <2>4, <2>5 DEF Shrinks, Has
  <2>. QED  BY <2>5, <2>6 DEF Settles, Maps
<1>3. CASE RetrySkips(e) \/ RetryExits(e)
  <2>1. PICK j, batch, pc :
          /\ pc \in {"loop", "exited"} /\ RetrierGoes(e, pc, NoJob, batch)
          /\ batch \subseteq retrier[e].batch
          /\ \A job \in retrier[e].batch \ batch : job.jid = j
    <3>1. CASE RetryExits(e)
      BY <3>1 DEF RetryExits
    <3>2. CASE RetrySkips(e)
      <4>1. PICK job \in retrier[e].batch :
              RetrierGoes(e, "loop", NoJob, retrier[e].batch \ {job})
        BY <3>2 DEF RetrySkips
      <4>. QED  BY <4>1
    <3>. QED  BY <1>3, <3>1, <3>2
  <2>2. \A f \in Engines, jid \in JIDs :
          /\ RetrierHas(f, jid)' <=> f # e /\ RetrierHas(f, jid)
          /\ Batched(f, jid)' <=> IF f = e THEN \E job \in batch : job.jid = jid
                                           ELSE Batched(f, jid)
    BY <2>1, RetrierPlaces
  <2>3. \A jid \in JIDs : ~RetrierHas(e, jid)
    BY <1>3 DEF RetrySkips, RetryExits, RetrierHas
  <2>4. \A jid \in JIDs : /\ Batched(e, jid)' => Batched(e, jid)
                          /\ Batched(e, jid) => Batched(e, jid)' \/ jid = j
    BY <2>1, <2>2 DEF Batched
  <2>5. UNCHANGED <<queues, processing, retry, dead, fetcher, worker, reaper, succeeded>>
    BY <1>3 DEF RetrySkips, RetryExits, brokerVars, history
  <2>6. Shrinks(j)
    BY <2>2, <2>3, <2>4, <2>5 DEF Shrinks, Has
  <2>. QED  BY <2>5, <2>6 DEF Settles, Maps
<1>4. CASE RetryRemoves(e)
  <2>1. PICK job \in retrier[e].batch :
          /\ RemoveFromRetry(job)
          /\ RetrierGoes(e, "enqueue", [job EXCEPT !.state = "pending"], retrier[e].batch \ {job})
    BY <1>4 DEF RetryRemoves, Call
  <2>. DEFINE pending == [job EXCEPT !.state = "pending"]
              rest == retrier[e].batch \ {job}
  <2>2. /\ pending.jid = job.jid /\ ToJSON(job).jid = job.jid
        /\ RetrierGoes(e, "enqueue", pending, rest)
    BY <1>1, <2>1 DEF Job, ToJSON
  <2>3. \A jid \in JIDs : /\ (\E k \in rest : k.jid = jid) => Batched(e, jid)
                          /\ Batched(e, jid) => jid = job.jid \/ \E k \in rest : k.jid = jid
    BY <2>1 DEF Batched
  <2>4. Batched(e, job.jid)
    BY <2>1 DEF Batched
  <2>5. \A jid \in JIDs : /\ InRetry(jid)' => InRetry(jid)
                          /\ InRetry(jid) => InRetry(jid)' \/ jid = job.jid
    <3>1. retry' = retry \ {ToJSON(job)}
      BY <2>1 DEF RemoveFromRetry
    <3>. QED  BY <2>2, <3>1 DEF InRetry
  <2>. HIDE DEF pending, rest
  <2>6. \A f \in Engines, jid \in JIDs :
          /\ RetrierHas(f, jid)' <=> IF f = e THEN job.jid = jid ELSE RetrierHas(f, jid)
          /\ Batched(f, jid)' <=> IF f = e THEN \E k \in rest : k.jid = jid
                                           ELSE Batched(f, jid)
    BY <2>2, RetrierPlaces
  <2>7. \A jid \in JIDs : ~RetrierHas(e, jid)
    BY <1>4 DEF RetryRemoves, RetrierHas
  <2>8. UNCHANGED <<queues, processing, dead, fetcher, worker, reaper, succeeded>>
    BY <1>4, <2>1 DEF RetryRemoves, RemoveFromRetry, history
  <2>9. Shrinks(job.jid)
    BY <2>3, <2>4, <2>5, <2>6, <2>7, <2>8 DEF Shrinks, Has
  <2>. QED  BY <2>8, <2>9 DEF Settles, Maps
<1>5. CASE RetryEnqueues(e) \/ RetryFallsBack(e)
  <2>. DEFINE job == retrier[e].job
  <2>1. /\ job \in Job
        /\ \A jid : RetrierHas(e, jid) <=> jid = job.jid
        /\ UNCHANGED <<fetcher, worker, reaper, succeeded>>
    BY <1>1, <1>5 DEF RetryEnqueues, RetryFallsBack, RetrierHas, history
  <2>2. \/ /\ RetryEnqueues(e) /\ UNCHANGED brokerVars
           /\ RetrierGoes(e, "fallback", NotReenqueued(job), retrier[e].batch)
        \/ /\ RetrierGoes(e, "loop", NoJob, retrier[e].batch)
           /\ Enqueue(job.queue, job) \/ AddToRetry(job) \/ AddToDead(job)
    BY <1>5 DEF RetryEnqueues, RetryFallsBack, CallWithEngineContext, Call
  <2>. HIDE DEF job
  <2>3. \A f \in Engines, jid \in JIDs : Batched(f, jid)' <=> Batched(f, jid)
    <3>1. \A f \in Engines, jid \in JIDs :
            Batched(f, jid)' <=> IF f = e THEN \E k \in retrier[e].batch : k.jid = jid
                                          ELSE Batched(f, jid)
      BY <2>2, RetrierPlaces
    <3>. QED  BY <3>1 DEF Batched
  <2>4. CASE /\ UNCHANGED brokerVars
             /\ RetrierGoes(e, "fallback", NotReenqueued(job), retrier[e].batch)
    <3>1. NotReenqueued(job).jid = job.jid
      BY <2>1, FailedJobType
    <3>2. \A f \in Engines, jid \in JIDs :
            RetrierHas(f, jid)' <=> IF f = e THEN job.jid = jid ELSE RetrierHas(f, jid)
      BY <2>4, <3>1, RetrierPlaces
    <3>3. UNCHANGED <<queues, processing, retry, dead>>
      BY <2>4 DEF brokerVars
    <3>4. Shrinks(NoJob)
      BY <2>1, <2>3, <3>2, <3>3 DEF Shrinks, Has
    <3>. QED  BY <2>1, <3>3, <3>4 DEF Settles, Maps
  <2>5. CASE /\ RetrierGoes(e, "loop", NoJob, retrier[e].batch)
             /\ Enqueue(job.queue, job) \/ AddToRetry(job) \/ AddToDead(job)
    <3>1. \A f \in Engines, jid \in JIDs : RetrierHas(f, jid)' <=> f # e /\ RetrierHas(f, jid)
      BY <2>5, RetrierPlaces
    <3>2. CASE Enqueue(job.queue, job)
      <4>1. \A jid \in JIDs : Queued(jid)' <=> Queued(jid) \/ jid = job.jid
        BY <1>1, <2>1, <3>2, EnqueueQueues
      <4>2. UNCHANGED <<processing, retry, dead>>
        BY <3>2 DEF Enqueue
      <4>3. Shrinks(NoJob)
        BY <2>1, <2>3, <3>1, <4>1, <4>2 DEF Shrinks, Has
      <4>. QED  BY <2>1, <4>2, <4>3 DEF Settles, Maps
    <3>3. CASE AddToRetry(job)
      <4>1. \A jid \in JIDs : InRetry(jid)' <=> InRetry(jid) \/ jid = job.jid
        BY <3>3, AddToRetryAdds
      <4>2. UNCHANGED <<queues, processing, dead>>
        BY <3>3 DEF AddToRetry
      <4>3. Shrinks(NoJob)
        BY <2>1, <2>3, <3>1, <4>1, <4>2 DEF Shrinks, Has
      <4>. QED  BY <2>1, <4>2, <4>3 DEF Settles, Maps
    <3>4. CASE AddToDead(job)
      <4>1. UNCHANGED <<queues, processing, retry>> /\ Has(job.jid)
        BY <2>1, <3>4 DEF AddToDead, Has
      <4>2. Shrinks(job.jid)
        BY <2>1, <2>3, <3>1, <4>1 DEF Shrinks, Has
      <4>3. \E data \in Bytes : data.jid = job.jid /\ dead' = dead \cup {data}
        BY <2>1, <3>4, AddToDeadBuries
      <4>. QED  BY <2>1, <4>1, <4>2, <4>3 DEF Settles, Maps
    <3>. QED  BY <2>5, <3>2, <3>3, <3>4
  <2>. QED  BY <2>2, <2>4, <2>5
<1>. QED  BY <1>2, <1>3, <1>4, <1>5 DEF Retrier

\* The steps of reaperLoop().
LEMMA ReaperMaps ==
  ASSUME TypeOK, Reliable, NEW e \in Engines, Reaper(e)
  PROVE  Maps
<1>. USE NoErrors, SamePlaces DEF Quiet
<1>1. reaper[e].batch \subseteq Job /\ BrokerTypeOK
  BY DEF TypeOK, Reapers
<1>2. CASE ReaperTick(e)
  <2>1. PICK batch \in SUBSET processing :
          ReapOrphanedJobs(batch) /\ ReaperGoes(e, "loop", OrphanedJobs(batch))
    BY <1>1, <1>2 DEF ReaperTick, Call, Batches, BrokerTypeOK
  <2>2. \A jid \in JIDs :
          (\E job \in OrphanedJobs(batch) : job.jid = jid) <=> \E data \in batch : data.jid = jid
    <3>1. \A data : [FromJSON(data) EXCEPT !.state = "pending", !.rawPayload = NoRaw].jid = data.jid
      BY DEF FromJSON
    <3>. QED  BY <3>1 DEF OrphanedJobs
  <2>3. \A f \in Engines, jid \in JIDs :
          Reaped(f, jid)' <=> IF f = e THEN \E data \in batch : data.jid = jid ELSE Reaped(f, jid)
    BY <2>1, <2>2, ReaperPlaces
  <2>4. \A jid \in JIDs : ~Reaped(e, jid)
    BY <1>2 DEF ReaperTick, Reaped
  <2>5. \A jid \in JIDs : Leased(jid) <=> Leased(jid)' \/ \E data \in batch : data.jid = jid
    BY <2>1 DEF ReapOrphanedJobs, Leased
  <2>6. UNCHANGED <<queues, retry, dead, fetcher, worker, retrier, succeeded>>
    BY <1>2, <2>1 DEF ReaperTick, ReapOrphanedJobs, history
  <2>7. Shrinks(NoJob)
    BY <2>3, <2>4, <2>5, <2>6 DEF Shrinks, Has
  <2>. QED  BY <2>6, <2>7 DEF Settles, Maps
<1>3. CASE ReaperSkips(e) \/ ReaperEnqueues(e) \/ ReaperExits(e)
  <2>. DEFINE Goes(job, batch, pc) ==
                /\ ReaperGoes(e, pc, batch)
                /\ batch \subseteq reaper[e].batch
                /\ \A k \in reaper[e].batch \ batch : k = job
                /\ UNCHANGED brokerVars \/ (job \in reaper[e].batch /\ Enqueue(job.queue, job))
  <2>1. PICK job, batch, pc : Goes(job, batch, pc)
    <3>1. CASE ReaperExits(e)
      <4>1. Goes(NoJob, {}, "exited")
        BY <3>1 DEF ReaperExits
      <4>. QED  BY <4>1
    <3>2. CASE ReaperSkips(e) \/ ReaperEnqueues(e)
      <4>1. PICK job \in reaper[e].batch :
              /\ ReaperGoes(e, "loop", reaper[e].batch \ {job})
              /\ UNCHANGED brokerVars \/ Enqueue(job.queue, job)
        BY <3>2 DEF ReaperSkips, ReaperEnqueues, CallWithEngineContext, Call
      <4>2. Goes(job, reaper[e].batch \ {job}, "loop")
        BY <4>1
      <4>. QED  BY <4>2
    <3>. QED  BY <1>3, <3>1, <3>2
  <2>2. \A f \in Engines, jid \in JIDs :
          Reaped(f, jid)' <=> IF f = e THEN \E k \in batch : k.jid = jid ELSE Reaped(f, jid)
    BY <2>1, ReaperPlaces
  <2>3. \A jid \in JIDs : /\ Reaped(e, jid)' => Reaped(e, jid)
                          /\ Reaped(e, jid) => Reaped(e, jid)' \/ jid = job.jid
    BY <2>1, <2>2 DEF Reaped
  <2>4. \A jid \in JIDs : /\ Queued(jid) => Queued(jid)'
                          /\ Queued(jid)' => Queued(jid) \/ Reaped(e, jid)
    <3>1. CASE UNCHANGED brokerVars
      BY <3>1 DEF brokerVars
    <3>2. CASE job \in reaper[e].batch /\ Enqueue(job.queue, job)
      <4>1. Reaped(e, job.jid)
        BY <3>2 DEF Reaped
      <4>. QED  BY <1>1, <3>2, <4>1, EnqueueQueues
    <3>. QED  BY <2>1, <3>1, <3>2
  <2>5. UNCHANGED <<processing, retry, dead>>
    BY <2>1 DEF brokerVars, Enqueue
  <2>6. UNCHANGED <<fetcher, worker, retrier, succeeded>>
    BY <1>3 DEF ReaperSkips, ReaperEnqueues, ReaperExits, history
  <2>7. Shrinks(job.jid)
    BY <2>2, <2>3, <2>4, <2>5, <2>6 DEF Shrinks, Has
  <2>. QED  BY <2>5, <2>6, <2>7 DEF Settles, Maps
<1>. QED  BY <1>2, <1>3 DEF Reaper

\* Starting and stopping a process moves no job.
LEMMA LifeMaps ==
  ASSUME TypeOK, DownIsIdle, LoopsEmpty, Reliable, NEW e \in Engines,
         Start(e) \/ Stop(e) \/ StopReturns(e) \/ Crash(e)
  PROVE  Maps
<1>. USE SamePlaces
<1>1. UNCHANGED <<queues, processing, retry, dead, succeeded>>
  BY DEF Start, Stop, StopReturns, Crash, brokerVars, history
<1>2. CASE Start(e)
  <2>1. /\ fetcher[e].pc = "exited" /\ retrier[e].pc = "exited" /\ retrier[e].batch = {}
        /\ reaper[e].batch = {}
        /\ \A s \in Slots : s[1] = e => worker[s].pc = "exited"
    BY <1>2 DEF Start, DownIsIdle, LoopsEmpty
  <2>2. /\ \A f \in Engines \ {e} : /\ fetcher'[f] = fetcher[f] /\ retrier'[f] = retrier[f]
                                    /\ reaper'[f] = reaper[f]
        /\ fetcher'[e].pc = "top" /\ retrier'[e].pc = "loop" /\ retrier'[e].batch = {}
        /\ reaper'[e].batch = {}
        /\ \A s \in Slots : IF s[1] = e THEN worker'[s].pc = "idle" ELSE worker'[s] = worker[s]
    BY <1>2 DEF Start, NoFetcher, NoWorker, NoRetrier, NoReaper,
                TypeOK, FetcherTypeOK, RetrierTypeOK
  <2>3. \A f \in Engines, jid \in JIDs : /\ FetcherHas(f, jid)' <=> FetcherHas(f, jid)
                                         /\ RetrierHas(f, jid)' <=> RetrierHas(f, jid)
                                         /\ Batched(f, jid)' <=> Batched(f, jid)
                                         /\ Reaped(f, jid)' <=> Reaped(f, jid)
    BY <2>1, <2>2 DEF FetcherHas, RetrierHas, Batched, Reaped
  <2>4. \A s \in Slots, jid \in JIDs : WorkerHas(s, jid)' <=> WorkerHas(s, jid)
    BY <2>1, <2>2 DEF WorkerHas
  <2>5. Shrinks(NoJob)
    BY <1>1, <2>3, <2>4 DEF Shrinks, Has
  <2>. QED  BY <1>1, <2>5 DEF Settles, Maps
<1>3. CASE Stop(e) \/ StopReturns(e)
  <2>1. Shrinks(NoJob)
    BY <1>1, <1>3 DEF Stop, StopReturns, Shrinks, Has
  <2>. QED  BY <1>1, <2>1 DEF Settles, Maps
<1>4. CASE Crash(e)
  BY <1>4, NoErrors DEF Crash, Quiet
<1>. QED  BY <1>2, <1>3, <1>4

\* Every step but the client's Enqueue is one of Delivery's, as Maps says.
LEMMA StepMaps ==
  ASSUME TypeOK, DownIsIdle, LoopsEmpty, Reliable, [Next]_vars
  PROVE  Maps \/ \E j \in JIDs, q \in Queues : ClientEnqueue(j, q)
<1>1. ASSUME NEW e \in Engines, Start(e) \/ Stop(e) \/ StopReturns(e) \/ Crash(e)
      PROVE  Maps
  BY <1>1, LifeMaps
<1>2. ASSUME NEW e \in Engines, Fetcher(e) \/ Retrier(e) \/ Reaper(e)
      PROVE  Maps
  BY <1>2, FetcherMaps, RetrierMaps, ReaperMaps
<1>3. ASSUME NEW s \in Slots, Worker(s)
      PROVE  Maps
  BY <1>3, WorkerMaps
<1>4. CASE UNCHANGED <<queues, processing, retry, dead, succeeded, fetcher, worker, retrier, reaper>>
  <2>1. Shrinks(NoJob)
    BY <1>4, SamePlaces DEF Shrinks, Has
  <2>. QED  BY <1>4, <2>1 DEF Settles, Maps
<1>5. ASSUME NEW q \in Queues, ClearQueue(q)
      PROVE  FALSE
  BY <1>5, NoErrors DEF ClearQueue, Quiet
<1>. QED  BY <1>1, <1>2, <1>3, <1>4, <1>5
          DEF Next, vars, brokerVars, engineVars, history, OrphanLeaseExpires, HeldLeaseExpires,
              BackoffEnds, LeaseExpires, RetryFallsDue

-----------------------------------------------------------------------------
(* The invariants of the refinement, and the refinement. *)

\* A loop that has ended has no batch.
LEMMA StepLoopsEmpty ==
  ASSUME TypeOK, LoopsEmpty, [Next]_vars
  PROVE  LoopsEmpty'
<1>. USE DEF LoopsEmpty
<1>1. /\ status \in [Engines -> {"down", "running", "stopping"}]
      /\ retrier \in [Engines -> Retriers] /\ reaper \in [Engines -> Reapers]
  BY DEF TypeOK, RetrierTypeOK
<1>2. CASE UNCHANGED <<status, retrier, reaper>>
  BY <1>2
<1>3. ASSUME NEW e \in Engines, Start(e)
      PROVE  LoopsEmpty'
  BY <1>1, <1>3 DEF Start, NoRetrier, NoReaper
<1>4. ASSUME NEW e \in Engines, Crash(e)
      PROVE  LoopsEmpty'
  BY <1>1, <1>4 DEF Crash, NoRetrier, NoReaper
<1>5. ASSUME NEW e \in Engines, Stop(e) \/ StopReturns(e)
      PROVE  LoopsEmpty'
  BY <1>1, <1>5 DEF Stop, StopReturns
<1>6. ASSUME NEW e \in Engines, Retrier(e)
      PROVE  LoopsEmpty'
  <2>1. /\ retrier'[e].pc = "exited" => retrier'[e].batch = {}
        /\ \A f \in Engines \ {e} : retrier'[f] = retrier[f]
    BY <1>1, <1>6 DEF Retrier, RetryTick, RetrySkips, RetryRemoves, RetryEnqueues,
                      RetryFallsBack, RetryExits, RetrierGoes
  <2>2. UNCHANGED <<status, reaper>>
    BY <1>6 DEF Retrier, RetryTick, RetrySkips, RetryRemoves, RetryEnqueues, RetryFallsBack,
                RetryExits
  <2>. QED  BY <2>1, <2>2
<1>7. ASSUME NEW e \in Engines, Reaper(e)
      PROVE  LoopsEmpty'
  <2>1. /\ reaper'[e].pc = "exited" => reaper'[e].batch = {}
        /\ \A f \in Engines \ {e} : reaper'[f] = reaper[f]
    BY <1>1, <1>7 DEF Reaper, ReaperTick, ReaperSkips, ReaperEnqueues, ReaperExits, ReaperGoes
  <2>2. reaper[e].pc # "exited" /\ UNCHANGED <<status, retrier>>
    BY <1>7 DEF Reaper, ReaperTick, ReaperSkips, ReaperEnqueues, ReaperExits
  <2>. QED  BY <2>1, <2>2
<1>8. ASSUME NEW e \in Engines, Fetcher(e)
      PROVE  UNCHANGED <<status, retrier, reaper>>
  BY <1>8 DEF Fetcher, FetcherTop, FetcherPoll, FetcherSend, FetcherHandBack, FetcherFallback,
              FetcherAck
<1>9. ASSUME NEW s \in Slots, Worker(s)
      PROVE  UNCHANGED <<status, retrier, reaper>>
  BY <1>9 DEF Worker, JobSucceeds, JobFails, JobMeetsOpenCircuit, WorkerSchedules, WorkerAcks,
              WorkerExits
<1>. QED  BY <1>2, <1>3, <1>4, <1>5, <1>6, <1>7, <1>8, <1>9
          DEF Next, vars, engineVars, ClientEnqueue, ClearQueue, OrphanLeaseExpires,
              HeldLeaseExpires, BackoffEnds

\* The client's Enqueue adds the copies of one job.
LEMMA ClientMaps ==
  ASSUME TypeOK, Reliable, NEW j \in JIDs, NEW q \in Queues, ClientEnqueue(j, q)
  PROVE  /\ Kept' = Kept \cup {j}
         /\ UNCHANGED <<dead, succeeded>>
         /\ Stored(j)'
<1>1. PICK job \in Job : job.jid = j /\ Enqueue(job.queue, job)
  BY ClientEnqueues, NoErrors
<1>2. UNCHANGED <<processing, retry, dead, succeeded, fetcher, worker, retrier, reaper>>
  BY <1>1, ClientEnqueues, NoErrors DEF Enqueue, engineVars
<1>3. BrokerTypeOK
  BY DEF TypeOK
<1>4. \A jid \in JIDs : Queued(jid)' <=> Queued(jid) \/ jid = j
  BY <1>1, <1>3, EnqueueQueues
<1>5. \A jid \in JIDs : Has(jid)' <=> Has(jid) \/ jid = j
  BY <1>2, <1>4, SamePlaces DEF Has
<1>6. Stored(j)'
  BY <1>1, <1>3, EnqueueStores
<1>. QED  BY <1>2, <1>5, <1>6, KeptHas

\* Every copy is of a settled job.
LEMMA StepCopiesSettled ==
  ASSUME TypeOK, DownIsIdle, LoopsEmpty, CopiesSettled, Reliable, [Next]_vars
  PROVE  CopiesSettled'
<1>. SUFFICES ASSUME NEW jid \in Kept'
              PROVE  Settled(jid)'
  BY DEF CopiesSettled
<1>1. jid \in JIDs
  BY KeptHas
<1>2. CASE jid \in Kept
  BY <1>1, <1>2, StepSettled, NoErrors DEF CopiesSettled
<1>3. CASE jid \notin Kept
  <2>1. ~Maps
    BY <1>1, <1>3, KeptHas DEF Maps, Shrinks
  <2>2. PICK j \in JIDs, q \in Queues : ClientEnqueue(j, q)
    BY <2>1, StepMaps
  <2>. QED  BY <1>3, <2>2, ClientMaps DEF Settled
<1>. QED  BY <1>2, <1>3

\* A step implements a step of Delivery, or none.
LEMMA StepImplements ==
  ASSUME TypeOK, DownIsIdle, LoopsEmpty, CopiesSettled, Reliable, [Next]_vars
  PROVE  [Promise!Next]_(Promise!vars)
<1>. DEFINE Accepted == {jid \in JIDs : client[jid] = "accepted"}
            Buried == {data.jid : data \in dead}
<1>1. ASSUME NEW j \in JIDs, NEW q \in Queues, ClientEnqueue(j, q)
      PROVE  Promise!Accept(j)
  <2>1. client[j] = "none" /\ client' = [client EXCEPT ![j] = "accepted"]
    BY <1>1, ClientEnqueues, NoErrors
  <2>2. j \notin Accepted /\ Accepted' = Accepted \cup {j}
    BY <2>1 DEF TypeOK, HistoryTypeOK
  <2>3. Kept' = Kept \cup {j} /\ UNCHANGED <<dead, succeeded>>
    BY <1>1, ClientMaps
  <2>. QED  BY <2>2, <2>3 DEF Promise!Accept
<1>2. ASSUME Maps, client' = client
      PROVE  [Promise!Next]_(Promise!vars)
  <2>1. PICK j : Shrinks(j) /\ Settles(j)
    BY <1>2 DEF Maps
  <2>2. Kept' \in {Kept, Kept \ {j}} /\ Kept \subseteq JIDs /\ Accepted' = Accepted
    <3>1. \A jid : jid \in Kept' => jid \in Kept
      BY <2>1, KeptHas DEF Shrinks
    <3>2. \A jid : jid \in Kept => jid \in Kept' \/ jid = j
      BY <2>1, KeptHas DEF Shrinks
    <3>3. Kept' = Kept \/ Kept' = Kept \ {j}
      BY <3>1, <3>2
    <3>. QED  BY <1>2, <3>3, KeptHas
  <2>. HIDE DEF Accepted
  <2>3. CASE UNCHANGED <<succeeded, dead>>
    <3>1. CASE Kept' = Kept
      BY <2>2, <2>3, <3>1 DEF Promise!vars, Accepted
    <3>2. CASE Kept' # Kept
      <4>1. Kept' = Kept \ {j} /\ j \in Kept /\ j \in JIDs
        BY <2>2, <3>2
      <4>2. Settled(j)'
        BY <4>1, StepSettled, NoErrors DEF CopiesSettled
      <4>3. ~Has(j)'
        BY <4>1, KeptHas
      <4>4. j \in succeeded \/ j \in Buried
        BY <2>3, <4>2, <4>3 DEF Settled, Stored, InHand, Has, Queued, InRetry
      <4>5. Promise!Release(j)
        BY <2>2, <2>3, <4>1, <4>4 DEF Promise!Release, Accepted
      <4>. QED  BY <4>1, <4>5 DEF Promise!Next
    <3>. QED  BY <3>1, <3>2
  <2>4. CASE Has(j) /\ succeeded' = succeeded \cup {j} /\ dead' = dead
    <3>1. CASE j \in JIDs
      <4>1. Promise!Perform(j)
        BY <2>2, <2>4, <3>1, KeptHas DEF Promise!Perform, Promise!MayRelease, Accepted
      <4>. QED  BY <3>1, <4>1 DEF Promise!Next
    <3>2. CASE j \notin JIDs
      <4>1. succeeded' \subseteq JIDs
        BY StepType DEF TypeOK, HistoryTypeOK
      <4>. QED  BY <2>4, <3>2, <4>1
    <3>. QED  BY <3>1, <3>2
  <2>5. CASE Has(j) /\ succeeded' = succeeded /\ \E data \in Bytes : data.jid = j /\ dead' = dead \cup {data}
    <3>1. PICK data \in Bytes : data.jid = j /\ dead' = dead \cup {data}
      BY <2>5
    <3>2. j \in JIDs /\ Buried' = Buried \cup {j}
      BY <3>1 DEF Bytes
    <3>3. Promise!Bury(j)
      BY <2>2, <2>5, <3>2, KeptHas DEF Promise!Bury, Promise!MayRelease, Accepted
    <3>. QED  BY <3>2, <3>3 DEF Promise!Next
  <2>. QED  BY <2>1, <2>3, <2>4, <2>5 DEF Settles
<1>3. client' = client \/ \E j \in JIDs, q \in Queues : ClientEnqueue(j, q)
  BY OnlyClientAccepts
<1>4. Maps \/ \E j \in JIDs, q \in Queues : ClientEnqueue(j, q)
  BY StepMaps
<1>5. CASE \E j \in JIDs, q \in Queues : ClientEnqueue(j, q)
  <2>1. PICK j \in JIDs : Promise!Accept(j)
    BY <1>1, <1>5
  <2>. QED  BY <2>1 DEF Promise!Next
<1>. QED  BY <1>2, <1>3, <1>4, <1>5

\* The inductive invariant of the theorem below.
DeliveryInv == TypeOK /\ DownIsIdle /\ LoopsEmpty /\ CopiesSettled

\* Under Reliable it always holds.
LEMMA DeliveryInvHolds ==
  ASSUME Reliable
  PROVE  Spec => []DeliveryInv
<1>1. Init => DownIsIdle /\ LoopsEmpty
  BY DEF Init, DownIsIdle, LoopsEmpty, NoFetcher, NoRetrier, NoWorker, NoReaper
<1>2. Init => Kept = {}
  BY DEF Init, BrokerInit, Kept, InHand, FetcherHas, WorkerHas, RetrierHas, NoFetcher, NoRetrier,
         NoWorker, NoReaper
<1>3. Init => DeliveryInv
  BY <1>1, <1>2, InitType DEF DeliveryInv, CopiesSettled
<1>4. DeliveryInv /\ [Next]_vars => DeliveryInv'
  BY StepType, StepDownIsIdle, StepLoopsEmpty, StepCopiesSettled DEF DeliveryInv
<1>. QED  BY <1>3, <1>4, PTL DEF Spec

\* Engines over Redis implement delivery at least once, the specification
\* Delivery, while no process crashes, no Redis call fails and no queue is
\* cleared: however many engines there are, whatever queues they serve, however
\* slow they are, however many copies reapers and retry loops make of a job and
\* however often engines stop and start, an accepted job leaves the system only
\* performed or buried, and no job comes from nowhere.
THEOREM DeliversAtLeastOnce ==
  ASSUME Reliable
  PROVE  Spec => AtLeastOnce
<1>1. Init => Promise!Init
  <2>. SUFFICES ASSUME Init PROVE Promise!Init
    OBVIOUS
  <2>1. Kept = {}
    BY DEF Init, BrokerInit, Kept, InHand, FetcherHas, WorkerHas, RetrierHas, NoFetcher, NoRetrier,
           NoWorker, NoReaper
  <2>. QED  BY <2>1 DEF Init, BrokerInit, Promise!Init
<1>2. DeliveryInv /\ [Next]_vars => [Promise!Next]_(Promise!vars)
  BY StepImplements DEF DeliveryInv
<1>. QED  BY <1>1, <1>2, DeliveryInvHolds, PTL DEF Spec, AtLeastOnce, Promise!Spec

-----------------------------------------------------------------------------
(* FailedCallsLoseOnlyUnstored.  Steps without a failing call keep a settled   *)
(* job settled (StepSettled), so that only failing calls are left, each of     *)
(* which either did its work or left Redis as it was.                          *)

\* A failing call of the fetcher: the hand-back keeps the job for the fallback, and a
\* Dequeue that did its work leaves the job leased.
LEMMA FetcherFails ==
  ASSUME TypeOK, NEW e \in Engines, Fetcher(e), Disturb("error"), NEW jid \in JIDs, Settled(jid),
         ~Settled(jid)'
  PROVE  OnlyLogged(jid) \/ LeftLeased(jid)
<1>1. /\ fetcher \in [Engines -> Fetchers]
      /\ fetcher[e].pc \in {"send", "fallback", "ack"} => fetcher[e].job \in Job
      /\ BrokerTypeOK /\ disturbed' # disturbed
  BY DEF TypeOK, FetcherTypeOK, HistoryTypeOK, Fetchers, Disturb, AllDisturbances
<1>2. UNCHANGED <<retrier, client, succeeded>> /\ ~FetcherTop(e) /\ ~FetcherSend(e)
  BY <1>1 DEF Fetcher, FetcherTop, FetcherPoll, FetcherSend, FetcherHandBack, FetcherFallback,
              FetcherAck, history
<1>3. worker' = worker
  BY <1>2 DEF Fetcher, FetcherPoll, FetcherHandBack, FetcherFallback, FetcherAck
<1>4. ~Stored(jid)' /\ \A f \in Engines : ~FetcherHas(f, jid)'
  BY DEF Settled, InHand
<1>5. Stored(jid) \/ \E f \in Engines : FetcherHas(f, jid)
  BY <1>2, <1>3 DEF Settled, InHand, WorkerHas, RetrierHas
<1>6. CASE FetcherPoll(e)
  <2>1. fetcher[e].pc = "poll" /\ FetcherGoes(e, "top", NoJob)
        /\ (Dequeue(PolledQueue(e)) \/ UNCHANGED brokerVars)
    BY <1>1, <1>6 DEF FetcherPoll, Call
  <2>2. fetcher'[e].pc = "top" /\ \A f \in Engines : FetcherHas(f, jid) => FetcherHas(f, jid)'
    BY <1>1, <2>1 DEF FetcherGoes, FetcherHas
  <2>3. Stored(jid) /\ Dequeue(PolledQueue(e))
    BY <1>4, <1>5, <2>1, <2>2, StoredElsewhere DEF brokerVars
  <2>4. jid = DequeuedJob(PolledQueue(e)).jid
    BY <1>1, <1>4, <2>3, DequeueKeeps, PolledQueueType
  <2>5. \E data \in processing' : data.jid = jid
    <3>1. PICK data : data = Head(queues[PolledQueue(e)])
      OBVIOUS
    <3>2. DequeuedJob(PolledQueue(e)).jid = data.jid
      BY <3>1 DEF DequeuedJob, FromJSON
    <3>3. data \in processing'
      BY <2>3, <3>1 DEF Dequeue
    <3>. QED  BY <2>4, <3>2, <3>3
  <2>. QED  BY <2>1, <2>2, <2>5 DEF LeftLeased
<1>7. CASE FetcherHandBack(e)
  <2>. DEFINE job == [fetcher[e].job EXCEPT !.state = "pending"]
  <2>1. job \in Job /\ job.jid = fetcher[e].job.jid
    BY <1>1, <1>7 DEF FetcherHandBack, Job, JobState
  <2>2. /\ Enqueue(job.queue, job) \/ UNCHANGED brokerVars
        /\ FetcherGoes(e, "fallback", job)
    BY <1>1, <1>7 DEF FetcherHandBack, Call
  <2>. HIDE DEF job
  <2>3. Stored(jid) => Stored(jid)'
    BY <1>1, <2>1, <2>2, EnqueueStores, StoredElsewhere DEF brokerVars
  <2>4. \A f \in Engines : FetcherHas(f, jid) => FetcherHas(f, jid)'
    BY <1>1, <2>1, <2>2 DEF FetcherGoes, FetcherHas
  <2>. QED  BY <1>4, <1>5, <2>3, <2>4
<1>8. CASE FetcherFallback(e)
  <2>1. /\ fetcher[e].pc = "fallback" /\ fetcher[e].job \in Job
        /\ AddToRetry(fetcher[e].job) \/ UNCHANGED brokerVars
        /\ FetcherGoes(e, "ack", fetcher[e].job)
    BY <1>1, <1>8 DEF FetcherFallback, Call
  <2>2. Stored(jid) => Stored(jid)'
    BY <2>1, AddStores, StoredElsewhere DEF brokerVars
  <2>3. fetcher'[e].pc = "ack" /\ \A f \in Engines : FetcherHas(f, jid) => FetcherHas(f, jid)' \/ f = e
    BY <1>1, <2>1 DEF FetcherGoes, FetcherHas
  <2>. QED  BY <1>4, <1>5, <2>1, <2>2, <2>3 DEF OnlyLogged
<1>9. CASE FetcherAck(e)
  <2>1. UNCHANGED <<queues, retry, dead>>
    BY <1>9 DEF FetcherAck, Call, Ack, brokerVars
  <2>2. \A f \in Engines : FetcherHas(f, jid) => FetcherHas(f, jid)'
    BY <1>1, <1>9 DEF FetcherAck, FetcherGoes, FetcherHas
  <2>. QED  BY <1>4, <1>5, <2>1, <2>2, StoredElsewhere
<1>. QED  BY <1>2, <1>6, <1>7, <1>8, <1>9 DEF Fetcher

\* A failing call of a worker: the statistics and the Ack cost nothing.
LEMMA WorkerFails ==
  ASSUME TypeOK, NEW s \in Slots, Worker(s), Disturb("error"), NEW jid \in JIDs, Settled(jid),
         ~Settled(jid)'
  PROVE  OnlyLogged(jid)
<1>1. /\ worker[s].pc \in {"perform", "schedule", "ack"} => worker[s].job \in Job
      /\ worker \in [Slots -> Workers] /\ BrokerTypeOK /\ disturbed' # disturbed
  BY DEF TypeOK, WorkerTypeOK, HistoryTypeOK, Workers, Disturb, AllDisturbances
<1>2. UNCHANGED <<fetcher, retrier>> /\ succeeded \subseteq succeeded' /\ ~WorkerExits(s)
  BY <1>1 DEF Worker, JobSucceeds, JobFails, JobMeetsOpenCircuit, WorkerSchedules, WorkerAcks,
              WorkerExits, history
<1>3. ~Stored(jid)' /\ jid \notin succeeded' /\ \A t \in Slots : ~WorkerHas(t, jid)'
  BY DEF Settled, InHand
<1>4. Stored(jid) \/ \E t \in Slots : WorkerHas(t, jid)
  BY <1>2, <1>3 DEF Settled, InHand, FetcherHas, RetrierHas
<1>5. CASE JobSucceeds(s) \/ JobFails(s) \/ JobMeetsOpenCircuit(s) \/ WorkerAcks(s)
  <2>1. UNCHANGED <<queues, retry, dead>>
    BY <1>5 DEF JobSucceeds, JobFails, JobMeetsOpenCircuit, WorkerAcks, Call, RecordSuccess,
                RecordFailure, Ack, brokerVars
  <2>2. ~Stored(jid)
    BY <1>3, <2>1, StoredElsewhere
  <2>3. \A t \in Slots : t # s => worker'[t] = worker[t]
    BY <1>1, <1>5 DEF JobSucceeds, JobFails, JobMeetsOpenCircuit, WorkerAcks, WorkerGoes
  <2>4. WorkerHas(s, jid)
    BY <1>3, <1>4, <2>2, <2>3 DEF WorkerHas
  <2>5. worker[s].job.jid = jid /\ worker[s].pc \in {"perform", "schedule"} /\ worker[s].job \in Job
    BY <1>1, <2>4 DEF WorkerHas
  <2>6. CASE JobSucceeds(s)
    <3>1. [worker[s].job EXCEPT !.state = "success"].jid = jid
      BY <2>5 DEF Job
    <3>. QED  BY <1>3, <2>6, <3>1 DEF JobSucceeds
  <2>7. CASE JobFails(s)
    <3>1. FailedJob(worker[s].job).jid = jid
      BY <2>5, FailedJobType
    <3>2. WorkerGoes(s, "schedule", FailedJob(worker[s].job))
      BY <2>7 DEF JobFails
    <3>. QED  BY <1>3, <3>1, <3>2, WorkerGoesHas
  <2>8. CASE JobMeetsOpenCircuit(s)
    <3>1. PICK job : job = [worker[s].job EXCEPT !.state = "pending"]
      OBVIOUS
    <3>2. job.jid = jid
      BY <2>5, <3>1 DEF Job
    <3>3. WorkerGoes(s, "schedule", job)
      BY <2>8, <3>1 DEF JobMeetsOpenCircuit
    <3>. QED  BY <1>3, <3>2, <3>3, WorkerGoesHas
  <2>9. CASE WorkerAcks(s)
    BY <2>5, <2>9 DEF WorkerAcks
  <2>. QED  BY <1>5, <2>6, <2>7, <2>8, <2>9
<1>6. CASE WorkerSchedules(s)
  <2>1. /\ worker[s].job \in Job
        /\ AddToDead(worker[s].job) \/ AddToRetry(worker[s].job) \/ UNCHANGED brokerVars
        /\ WorkerGoes(s, "ack", worker[s].job)
    BY <1>1, <1>6 DEF WorkerSchedules, Call
  <2>2. Stored(jid) => Stored(jid)'
    BY <2>1, AddStores, StoredElsewhere DEF brokerVars
  <2>3. worker'[s].pc = "ack" /\ \A t \in Slots : WorkerHas(t, jid) => WorkerHas(t, jid)' \/ t = s
    BY <1>1, <2>1 DEF WorkerGoes, WorkerHas
  <2>. QED  BY <1>3, <1>4, <2>2, <2>3 DEF OnlyLogged
<1>. QED  BY <1>2, <1>5, <1>6 DEF Worker

\* A failing call of the retry loop: a failing Enqueue keeps the job for the fallback.
LEMMA RetrierFails ==
  ASSUME TypeOK, NEW e \in Engines, Retrier(e), Disturb("error"), NEW jid \in JIDs, Settled(jid),
         ~Settled(jid)'
  PROVE  OnlyLogged(jid)
<1>1. /\ retrier[e].pc \in {"enqueue", "fallback"} => retrier[e].job \in Job
      /\ retrier \in [Engines -> Retriers] /\ retrier[e].batch \subseteq Job
      /\ BrokerTypeOK /\ disturbed' # disturbed
  BY DEF TypeOK, RetrierTypeOK, HistoryTypeOK, Retriers, Disturb, AllDisturbances
<1>2. /\ UNCHANGED <<fetcher, worker, succeeded>>
      /\ ~RetryTick(e) /\ ~RetrySkips(e) /\ ~RetryExits(e)
  BY <1>1 DEF Retrier, RetryTick, RetrySkips, RetryRemoves, RetryEnqueues, RetryFallsBack,
              RetryExits, history
<1>3. ~Stored(jid)' /\ \A f \in Engines : ~RetrierHas(f, jid)'
  BY DEF Settled, InHand
<1>4. Stored(jid) \/ \E f \in Engines : RetrierHas(f, jid)
  BY <1>2 DEF Settled, InHand, FetcherHas, WorkerHas
<1>5. CASE RetryRemoves(e)
  <2>1. PICK job \in retrier[e].batch :
          /\ RemoveFromRetry(job) \/ UNCHANGED brokerVars
          /\ RetrierGoes(e, "loop", NoJob, retrier[e].batch \ {job})
          /\ retrier[e].pc = "loop"
    BY <1>1, <1>5 DEF RetryRemoves, Call
  <2>2. \A f \in Engines : RetrierHas(f, jid) => RetrierHas(f, jid)'
    <3>1. ~RetrierHas(e, jid)
      BY <2>1 DEF RetrierHas
    <3>. QED  BY <2>1, <3>1, RetrierGoesHas
  <2>3. Stored(jid) /\ jid = job.jid
    BY <1>1, <1>3, <1>4, <2>1, <2>2, RemoveKeeps, StoredElsewhere DEF brokerVars
  <2>4. job \in retrier[e].batch \ retrier'[e].batch
    BY <1>1, <2>1 DEF RetrierGoes
  <2>. QED  BY <2>3, <2>4 DEF OnlyLogged
<1>6. CASE RetryEnqueues(e)
  <2>1. /\ retrier[e].job \in Job
        /\ Enqueue(retrier[e].job.queue, retrier[e].job) \/ UNCHANGED brokerVars
        /\ RetrierGoes(e, "fallback", NotReenqueued(retrier[e].job), retrier[e].batch)
    BY <1>1, <1>6 DEF RetryEnqueues, CallWithEngineContext, Call
  <2>2. Stored(jid) => Stored(jid)'
    BY <1>1, <2>1, EnqueueStores, StoredElsewhere DEF brokerVars
  <2>3. NotReenqueued(retrier[e].job).jid = retrier[e].job.jid
    BY <2>1, FailedJobType
  <2>4. \A f \in Engines : RetrierHas(f, jid) => RetrierHas(f, jid)' \/ RetrierHas(e, jid)'
    BY <2>1, <2>3, RetrierGoesHas DEF RetrierHas
  <2>. QED  BY <1>3, <1>4, <2>2, <2>4
<1>7. CASE RetryFallsBack(e)
  <2>1. /\ retrier[e].job \in Job
        /\ AddToDead(retrier[e].job) \/ AddToRetry(retrier[e].job) \/ UNCHANGED brokerVars
        /\ RetrierGoes(e, "loop", NoJob, retrier[e].batch)
    BY <1>1, <1>7 DEF RetryFallsBack, Call
  <2>2. Stored(jid) => Stored(jid)'
    BY <2>1, AddStores, StoredElsewhere DEF brokerVars
  <2>3. /\ retrier'[e].pc = "loop"
        /\ \A f \in Engines : RetrierHas(f, jid) => RetrierHas(f, jid)' \/ f = e
    BY <1>1, <2>1 DEF RetrierGoes, RetrierHas
  <2>. QED  BY <1>3, <1>4, <2>2, <2>3 DEF OnlyLogged
<1>. QED  BY <1>2, <1>5, <1>6, <1>7 DEF Retrier

\* The reaper's calls, failing or not, and the client's Enqueue take no stored job away.
LEMMA OthersFail ==
  ASSUME TypeOK, NEW jid \in JIDs, Settled(jid),
         \/ \E e \in Engines : Reaper(e)
         \/ \E j \in JIDs, q \in Queues : ClientEnqueue(j, q)
  PROVE  Settled(jid)'
<1>1. Stored(jid) => Stored(jid)'
  <2>1. CASE UNCHANGED <<queues, retry, dead>>
    BY <2>1, StoredElsewhere
  <2>2. CASE \E job \in Job : Enqueue(job.queue, job)
    BY <2>2, EnqueueStores DEF TypeOK
  <2>3. ASSUME NEW e \in Engines, Reaper(e)
        PROVE  Stored(jid) => Stored(jid)'
    <3>1. reaper[e].batch \subseteq Job
      BY DEF TypeOK, Reapers
    <3>. QED  BY <2>1, <2>2, <2>3, <3>1 DEF Reaper, ReaperTick, ReaperSkips, ReaperEnqueues, ReaperExits,
                CallWithEngineContext, Call, ReapOrphanedJobs, brokerVars
  <2>4. ASSUME NEW j \in JIDs, NEW q \in Queues, ClientEnqueue(j, q)
        PROVE  Stored(jid) => Stored(jid)'
    <3>1. PICK job \in {NewJob(j, q)} \cup {SetRetry(NewJob(j, q), n) : n \in RetryOptions} :
            Enqueue(q, job) \/ UNCHANGED brokerVars
      BY <2>4 DEF ClientEnqueue, Call
    <3>2. job \in Job /\ job.queue = q
      BY NewJobType, <3>1
    <3>. QED  BY <2>1, <2>2, <3>1, <3>2 DEF brokerVars
  <2>. QED  BY <2>3, <2>4
<1>2. UNCHANGED <<fetcher, worker, retrier, succeeded>>
  BY DEF Reaper, ReaperTick, ReaperSkips, ReaperEnqueues, ReaperExits, ClientEnqueue, engineVars, history
<1>. QED  BY <1>1, <1>2 DEF Settled, InHand, FetcherHas, WorkerHas, RetrierHas

\* A failing Redis call costs no job, with any engines, on any queues, after any number of
\* crashes, failures, lost leases, stops and cleared queues: in a step that is no crash and
\* clears no queue, a job that is done, stored or in hand stays so, unless a call failed whose
\* error the code only logs (storing a job in the retry or the dead set, removing one from the
\* retry set) or a Dequeue failed, whose job is left leased.
THEOREM FailuresLoseOnlyUnstored ==
  Spec => FailedCallsLoseOnlyUnstored
<1>1. Init => DownIsIdle
  BY DEF Init, DownIsIdle, NoFetcher, NoRetrier, NoWorker
<1>2. TypeOK /\ DownIsIdle /\ [Next]_vars => DownIsIdle'
  BY StepDownIsIdle
<1>3. ASSUME TypeOK, DownIsIdle, [Next]_vars, NEW jid \in JIDs,
             disturbed'["crash"] = disturbed["crash"], disturbed'["clear"] = disturbed["clear"],
             Settled(jid), ~Settled(jid)'
      PROVE  disturbed'["error"] # disturbed["error"] /\ (OnlyLogged(jid) \/ LeftLeased(jid))
  <2>1. disturbed \in [AllDisturbances -> Nat]
    BY <1>3 DEF TypeOK, HistoryTypeOK
  <2>2. \A kind \in AllDisturbances : Disturb(kind) => disturbed'[kind] # disturbed[kind]
    BY <2>1 DEF Disturb
  <2>3. ~Disturb("crash") /\ ~Disturb("clear")
    BY <1>3, <2>2 DEF AllDisturbances
  <2>4. Disturb("error")
    BY <1>3, <2>3, StepSettled DEF Quiet
  <2>5. disturbed'["error"] # disturbed["error"]
    BY <2>2, <2>4 DEF AllDisturbances
  <2>6. disturbed'["stop"] = disturbed["stop"] /\ disturbed'["slow"] = disturbed["slow"]
    BY <2>1, <2>4 DEF Disturb, AllDisturbances
  <2>7. ~Disturb("stop") /\ ~Disturb("slow")
    BY <2>2, <2>6 DEF AllDisturbances
  <2>8. CASE \E e \in Engines : Fetcher(e) \/ Retrier(e)
    BY <1>3, <2>4, <2>5, <2>8, FetcherFails, RetrierFails
  <2>9. CASE \E s \in Slots : Worker(s)
    BY <1>3, <2>4, <2>5, <2>9, WorkerFails
  <2>10. CASE \/ \E e \in Engines : Reaper(e)
              \/ \E j \in JIDs, q \in Queues : ClientEnqueue(j, q)
    BY <1>3, <2>10, OthersFail
  <2>11. ~ \E e \in Engines : Start(e) \/ Stop(e) \/ StopReturns(e) \/ Crash(e)
    BY <2>3, <2>5, <2>7 DEF Start, Stop, StopReturns, Crash
  <2>12. /\ ~ \E q \in Queues : ClearQueue(q)
         /\ ~ \E data \in processing : OrphanLeaseExpires(data) \/ HeldLeaseExpires(data)
         /\ ~ \E data \in retry : BackoffEnds(data)
    BY <2>3, <2>5, <2>7 DEF ClearQueue, OrphanLeaseExpires, HeldLeaseExpires, BackoffEnds
  <2>13. ~UNCHANGED vars
    BY <2>5 DEF vars
  <2>. QED  BY <1>3, <2>8, <2>9, <2>10, <2>11, <2>12, <2>13 DEF Next
<1>4. TypeOK /\ DownIsIdle /\ [Next]_vars
        => [\A jid \in JIDs :
              /\ disturbed'["crash"] = disturbed["crash"] /\ disturbed'["clear"] = disturbed["clear"]
              /\ Settled(jid) /\ ~Settled(jid)'
              => /\ disturbed'["error"] # disturbed["error"]
                 /\ OnlyLogged(jid) \/ LeftLeased(jid)]_vars
  BY <1>3
<1>. QED  BY <1>1, <1>2, <1>4, TypeCorrect, PTL DEF Spec, FailedCallsLoseOnlyUnstored
=============================================================================
