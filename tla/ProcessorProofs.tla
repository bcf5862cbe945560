-------------------------- MODULE ProcessorProofs --------------------------
(***************************************************************************)
(* What Processor promises for every number of engines, workers, queues    *)
(* and jobs, every retry count and every bound: its types, the retry       *)
(* budget of every job, and the attempts behind a death.                   *)
(***************************************************************************)
EXTENDS Processor, TLAPS

-----------------------------------------------------------------------------
(* The operators of Payload. *)

\* Clamp brings every count into the range of valid ones ...
LEMMA ClampType ==
  ASSUME NEW n \in Int
  PROVE  Clamp(n) \in 0..MaxRetryCount
BY RetryAssumption DEF Clamp

\* ... and leaves valid ones alone.
LEMMA ClampValid ==
  ASSUME NEW n \in 0..MaxRetryCount
  PROVE  Clamp(n) = n
BY RetryAssumption DEF Clamp

\* Serialising a job gives bytes for the same job and queue.
LEMMA ToJSONType ==
  ASSUME NEW job \in Job
  PROVE  ToJSON(job) \in Bytes
BY DEF ToJSON, Job, Bytes

\* Parsing bytes gives a job.
LEMMA FromJSONType ==
  ASSUME NEW data \in Bytes
  PROVE  /\ FromJSON(data) \in Job
         /\ FromJSON(data).jid = data.jid
         /\ FromJSON(data).queue = data.queue
<1>1. data.retry \in Int /\ data.retryCount \in Int
  BY RetryAssumption DEF Bytes
<1>2. Clamp(data.retry) \in 0..MaxRetryCount /\ Clamp(data.retryCount) \in Nat
  BY <1>1, ClampType, RetryAssumption
<1>. QED  BY <1>2 DEF FromJSON, Job, Bytes, JobState

\* The bytes that Ack removes.
LEMMA RawOrSerializeType ==
  ASSUME NEW job \in Job
  PROVE  RawOrSerialize(job) \in Bytes
BY ToJSONType DEF RawOrSerialize, Job

-----------------------------------------------------------------------------
(* The commands of RedisBroker keep the stored data well formed. *)

\* Enqueue under the job's own queue.
LEMMA EnqueueType ==
  ASSUME BrokerTypeOK, NEW job \in Job, Enqueue(job.queue, job)
  PROVE  BrokerTypeOK'
<1>1. ToJSON(job) \in Bytes /\ ToJSON(job).queue = job.queue /\ job.queue \in Queues
  BY ToJSONType DEF ToJSON, Job
<1>. QED  BY <1>1 DEF BrokerTypeOK, Enqueue

\* Dequeue, and the job it returns.
LEMMA DequeueType ==
  ASSUME BrokerTypeOK, NEW q \in Queues, Dequeue(q)
  PROVE  /\ BrokerTypeOK'
         /\ DequeuedJob(q) \in Job
         /\ DequeuedJob(q).rawPayload = Head(queues[q])
         /\ DequeuedJob(q).jid = Head(queues[q]).jid
<1>1. Head(queues[q]) \in Bytes /\ Tail(queues[q]) \in Seq(Bytes)
  BY DEF BrokerTypeOK, Dequeue
<1>2. BrokerTypeOK'
  BY <1>1 DEF BrokerTypeOK, Dequeue
<1>3. FromJSON(Head(queues[q])) \in Job /\ FromJSON(Head(queues[q])).jid = Head(queues[q]).jid
  BY <1>1, FromJSONType
<1>. QED  BY <1>1, <1>2, <1>3 DEF DequeuedJob, Job

\* Ack keeps the types.
LEMMA AckType ==
  ASSUME BrokerTypeOK, NEW job, Ack(job)
  PROVE  BrokerTypeOK'
BY DEF BrokerTypeOK, Ack

\* ReapOrphanedJobs keeps the types.
LEMMA ReapType ==
  ASSUME BrokerTypeOK, NEW batch \in SUBSET processing, ReapOrphanedJobs(batch)
  PROVE  BrokerTypeOK'
BY DEF BrokerTypeOK, ReapOrphanedJobs

\* ReapOrphanedJobs returns jobs.
LEMMA OrphanedJobsType ==
  ASSUME BrokerTypeOK, NEW batch \in SUBSET processing
  PROVE  OrphanedJobs(batch) \in SUBSET Job
<1>1. ASSUME NEW data \in batch
      PROVE  [FromJSON(data) EXCEPT !.state = "pending", !.rawPayload = NoRaw] \in Job
  <2>1. data \in Bytes
    BY DEF BrokerTypeOK
  <2>2. FromJSON(data) \in Job
    BY <2>1, FromJSONType
  <2>. QED  BY <2>2 DEF Job, JobState
<1>. QED  BY <1>1 DEF OrphanedJobs

\* GetRetryJobs returns jobs.
LEMMA RetryJobsType ==
  ASSUME BrokerTypeOK, NEW batch \in SUBSET retry
  PROVE  RetryJobs(batch) \in SUBSET Job
<1>1. ASSUME NEW data \in batch
      PROVE  FromJSON(data) \in Job
  BY FromJSONType DEF BrokerTypeOK
<1>. QED  BY <1>1 DEF RetryJobs

\* AddToRetry keeps the types.
LEMMA AddToRetryType ==
  ASSUME BrokerTypeOK, NEW job \in Job, AddToRetry(job)
  PROVE  BrokerTypeOK'
BY ToJSONType DEF BrokerTypeOK, AddToRetry

\* RemoveFromRetry keeps the types.
LEMMA RemoveFromRetryType ==
  ASSUME BrokerTypeOK, NEW job, RemoveFromRetry(job)
  PROVE  BrokerTypeOK'
BY DEF BrokerTypeOK, RemoveFromRetry

\* AddToDead keeps the types.
LEMMA AddToDeadType ==
  ASSUME BrokerTypeOK, NEW job \in Job, AddToDead(job)
  PROVE  BrokerTypeOK'
BY ToJSONType DEF BrokerTypeOK, AddToDead

\* RecordSuccess and RecordFailure keep the types.
LEMMA RecordType ==
  ASSUME BrokerTypeOK, NEW job \in Job, RecordSuccess(job) \/ RecordFailure(job)
  PROVE  BrokerTypeOK'
<1>1. job.jid \in JIDs
  BY DEF Job
<1>. QED  BY <1>1 DEF BrokerTypeOK, RecordSuccess, RecordFailure, Batches

\* DeleteKey keeps the types.
LEMMA DeleteKeyType ==
  ASSUME BrokerTypeOK, NEW q \in Queues, DeleteKey(q)
  PROVE  BrokerTypeOK'
BY DEF BrokerTypeOK, DeleteKey

\* Passing time keeps the types.
LEMMA TimeType ==
  ASSUME BrokerTypeOK, NEW data, LeaseExpires(data) \/ RetryFallsDue(data)
  PROVE  BrokerTypeOK'
BY DEF BrokerTypeOK, LeaseExpires, RetryFallsDue

\* So does a call without an effect.
LEMMA BrokerUnchanged ==
  ASSUME BrokerTypeOK, UNCHANGED brokerVars
  PROVE  BrokerTypeOK'
BY DEF BrokerTypeOK, brokerVars

-----------------------------------------------------------------------------
(* Each goroutine keeps the types. *)

\* Local facts: the poll list of an engine, and the jobs goroutines hold.
LEMMA PolledQueueType ==
  ASSUME TypeOK, NEW e \in Engines
  PROVE  PolledQueue(e) \in Queues
<1>1. PollList[e] \in Seq(Queues) /\ Len(PollList[e]) \in Nat \ {0}
  BY ProcessorAssumption
<1>2. fetcher[e].cursor \in 0..(Len(PollList[e]) - 1)
  BY DEF TypeOK, FetcherTypeOK
<1>. QED  BY <1>1, <1>2 DEF PolledQueue

\* The cursor stays within the polling list.
LEMMA NextCursor ==
  ASSUME NEW n \in Nat \ {0}, NEW c \in 0..(n - 1)
  PROVE  (c + 1) % n \in 0..(n - 1)
OBVIOUS

\* A fetcher that moves to pc with job keeps its type.
LEMMA FetcherGoesType ==
  ASSUME FetcherTypeOK, NEW e \in Engines, NEW pc, NEW job, FetcherGoes(e, pc, job),
         \/ pc \in {"send", "fallback", "ack"} /\ job \in Job
         \/ pc \in {"top", "exited"} /\ job = NoJob
  PROVE  FetcherTypeOK'
BY ProcessorAssumption DEF FetcherTypeOK, FetcherGoes, Fetchers

\* A move of a worker with a job exactly where it needs one.
LEMMA WorkerGoesType ==
  ASSUME WorkerTypeOK, NEW s \in Slots, NEW pc, NEW job, WorkerGoes(s, pc, job),
         \/ pc \in {"perform", "schedule", "ack"} /\ job \in Job
         \/ pc \in {"idle", "exited"} /\ job = NoJob
  PROVE  WorkerTypeOK'
BY ProcessorAssumption DEF WorkerTypeOK, WorkerGoes, Workers

\* A move of the retry loop with a job exactly where it needs one.
LEMMA RetrierGoesType ==
  ASSUME RetrierTypeOK, NEW e \in Engines, NEW pc, NEW job, NEW batch \in SUBSET Job,
         RetrierGoes(e, pc, job, batch),
         \/ pc \in {"enqueue", "fallback"} /\ job \in Job
         \/ pc \in {"loop", "exited"} /\ job = NoJob
  PROVE  RetrierTypeOK'
BY ProcessorAssumption DEF RetrierTypeOK, RetrierGoes, Retriers

\* The steps of fetcher().
LEMMA FetcherType ==
  ASSUME TypeOK, NEW e \in Engines, Fetcher(e)
  PROVE  TypeOK'
<1>. USE DEF TypeOK
<1>1. CASE FetcherTop(e)
  <2>1. BrokerTypeOK'
    BY <1>1, BrokerUnchanged DEF FetcherTop
  <2>2. FetcherTypeOK'
    <3>1. CASE status[e] = "stopping"
      BY <1>1, <3>1, FetcherGoesType DEF FetcherTop
    <3>2. CASE status[e] # "stopping"
      <4>1. (fetcher[e].cursor + 1) % Len(PollList[e]) \in 0..(Len(PollList[e]) - 1)
        BY NextCursor, ProcessorAssumption DEF FetcherTypeOK
      <4>2. FetcherPolls(e)
        BY <1>1, <3>2 DEF FetcherTop
      <4>. QED  BY <4>1, <4>2 DEF FetcherPolls, FetcherTypeOK, Fetchers
    <3>. QED  BY <3>1, <3>2
  <2>. QED  BY <1>1, <2>1, <2>2 DEF FetcherTop, WorkerTypeOK, RetrierTypeOK, HistoryTypeOK, history
<1>2. CASE FetcherPoll(e)
  <2>. USE DEF FetcherPoll
  <2>1. BrokerTypeOK' /\ FetcherTypeOK' /\ disturbed' \in [AllDisturbances -> Nat]
    <3>1. ASSUME NEW err \in BOOLEAN, Call(Dequeue(PolledQueue(e)), err),
                 IF err THEN FetcherGoes(e, "top", NoJob)
                        ELSE FetcherGoes(e, "send", DequeuedJob(PolledQueue(e)))
          PROVE  BrokerTypeOK' /\ FetcherTypeOK' /\ disturbed' \in [AllDisturbances -> Nat]
      <4>1. BrokerTypeOK'
        BY <3>1, DequeueType, PolledQueueType, BrokerUnchanged DEF Call
      <4>2. FetcherTypeOK'
        <5>1. CASE err
          BY <3>1, <5>1, FetcherGoesType
        <5>2. CASE ~err
          BY <3>1, <5>2, FetcherGoesType, DequeueType, PolledQueueType DEF Call
        <5>. QED  BY <5>1, <5>2
      <4>3. disturbed' \in [AllDisturbances -> Nat]
        BY <3>1 DEF Call, Disturb, HistoryTypeOK
      <4>. QED  BY <4>1, <4>2, <4>3
    <3>2. CASE /\ FetcherGoes(e, "top", NoJob)
               /\ UNCHANGED <<brokerVars, disturbed>>
      BY <3>2, FetcherGoesType, BrokerUnchanged DEF HistoryTypeOK
    <3>. QED  BY <1>2, <3>1, <3>2
  <2>. QED  BY <1>2, <2>1 DEF WorkerTypeOK, RetrierTypeOK, HistoryTypeOK, history
<1>3. CASE FetcherSend(e)
  <2>. USE DEF FetcherSend
  <2>1. FetcherTypeOK' /\ BrokerTypeOK'
    BY <1>3, FetcherGoesType, BrokerUnchanged
  <2>2. fetcher[e].job \in Job
    BY <1>3 DEF FetcherTypeOK, Fetchers
  <2>3. [fetcher[e].job EXCEPT !.state = "active"] \in Job
    BY <2>2 DEF Job, JobState
  <2>4. PICK s \in Slots : WorkerGoes(s, "perform", [fetcher[e].job EXCEPT !.state = "active"])
    BY <1>3 DEF WorkerGoes
  <2>5. WorkerTypeOK'
    BY <2>3, <2>4, WorkerGoesType
  <2>. QED  BY <1>3, <2>1, <2>5 DEF RetrierTypeOK, HistoryTypeOK, history
<1>4. CASE FetcherHandBack(e)
  <2>. DEFINE job == [fetcher[e].job EXCEPT !.state = "pending"]
  <2>1. job \in Job
    <3>1. fetcher[e].job \in Job
      BY <1>4 DEF FetcherHandBack, FetcherTypeOK, Fetchers
    <3>. QED  BY <3>1 DEF Job, JobState
  <2>2. PICK err \in BOOLEAN : /\ Call(Enqueue(job.queue, job), err)
                               /\ FetcherGoes(e, IF err THEN "fallback" ELSE "ack", job)
    BY <1>4 DEF FetcherHandBack
  <2>. HIDE DEF job
  <2>3. BrokerTypeOK'
    BY <2>1, <2>2, EnqueueType, BrokerUnchanged DEF Call
  <2>4. FetcherTypeOK'
    BY <2>1, <2>2, FetcherGoesType
  <2>5. disturbed' \in [AllDisturbances -> Nat]
    BY <2>2 DEF Call, Disturb, HistoryTypeOK
  <2>. QED  BY <1>4, <2>3, <2>4, <2>5 DEF FetcherHandBack, WorkerTypeOK, RetrierTypeOK, HistoryTypeOK, history
<1>5. CASE FetcherFallback(e) \/ FetcherAck(e)
  <2>1. fetcher[e].job \in Job
    BY <1>5 DEF FetcherFallback, FetcherAck, FetcherTypeOK, Fetchers
  <2>2. BrokerTypeOK'
    BY <1>5, <2>1, AddToRetryType, AckType, BrokerUnchanged DEF FetcherFallback, FetcherAck, Call
  <2>3. FetcherTypeOK'
    BY <1>5, <2>1, FetcherGoesType DEF FetcherFallback, FetcherAck
  <2>4. disturbed' \in [AllDisturbances -> Nat]
    BY <1>5 DEF FetcherFallback, FetcherAck, Call, Disturb, HistoryTypeOK
  <2>. QED  BY <1>5, <2>2, <2>3, <2>4
            DEF FetcherFallback, FetcherAck, WorkerTypeOK, RetrierTypeOK, HistoryTypeOK, history
<1>. QED  BY <1>1, <1>2, <1>3, <1>4, <1>5 DEF Fetcher

\* handleFailure leaves a well-formed job.
LEMMA FailedJobType ==
  ASSUME NEW job \in Job
  PROVE  /\ FailedJob(job) \in Job /\ FailedJob(job).jid = job.jid
         /\ NotReenqueued(job) \in Job /\ NotReenqueued(job).jid = job.jid
<1>1. job.retryCount + 1 \in Nat
  BY DEF Job
<1>2. FailedJob(job).state \in JobState /\ NotReenqueued(job).state \in JobState
  BY DEF FailedJob, NotReenqueued, Job, JobState
<1>3. FailedJob(job) \in Job /\ FailedJob(job).jid = job.jid
  BY <1>1, <1>2 DEF FailedJob, Job
<1>4. NotReenqueued(job) \in Job /\ NotReenqueued(job).jid = job.jid
  BY <1>1, <1>2 DEF NotReenqueued, Job
<1>. QED  BY <1>3, <1>4

\* A handler has returned: the outcome is recorded and the job goes to pc.
LEMMA HandlerReturnsType ==
  ASSUME TypeOK, NEW s \in Slots, NEW job \in Job, NEW pc \in {"schedule", "ack"},
         \E err \in BOOLEAN : \/ Call(RecordSuccess(job), err)
                              \/ Call(RecordFailure(job), err),
         WorkerGoes(s, pc, job)
  PROVE  BrokerTypeOK' /\ WorkerTypeOK' /\ disturbed' \in [AllDisturbances -> Nat]
<1>1. BrokerTypeOK'
  BY RecordType, BrokerUnchanged DEF TypeOK, Call
<1>2. WorkerTypeOK'
  BY WorkerGoesType DEF TypeOK
<1>3. disturbed' \in [AllDisturbances -> Nat]
  BY DEF TypeOK, HistoryTypeOK, Call, Disturb
<1>. QED  BY <1>1, <1>2, <1>3

\* The steps of worker(), processJob() and handleFailure().
LEMMA WorkerType ==
  ASSUME TypeOK, NEW s \in Slots, Worker(s)
  PROVE  TypeOK'
<1>. USE DEF TypeOK
<1>1. worker[s].pc \in {"perform", "schedule", "ack"} => worker[s].job \in Job
  BY DEF WorkerTypeOK, Workers
<1>2. CASE JobSucceeds(s)
  <2>. DEFINE job == [worker[s].job EXCEPT !.state = "success"]
  <2>1. job \in Job
    <3>1. worker[s].job \in Job
      BY <1>1, <1>2 DEF JobSucceeds
    <3>. QED  BY <3>1 DEF Job, JobState
  <2>2. /\ \E err \in BOOLEAN : Call(RecordSuccess(job), err)
        /\ succeeded' = succeeded \cup {job.jid}
        /\ WorkerGoes(s, "ack", job)
    BY <1>2 DEF JobSucceeds
  <2>. HIDE DEF job
  <2>3. BrokerTypeOK' /\ WorkerTypeOK' /\ disturbed' \in [AllDisturbances -> Nat]
    BY <2>1, <2>2, HandlerReturnsType
  <2>4. succeeded' \in SUBSET JIDs
    BY <2>1, <2>2 DEF HistoryTypeOK, Job
  <2>. QED  BY <1>2, <2>3, <2>4 DEF JobSucceeds, FetcherTypeOK, RetrierTypeOK, HistoryTypeOK
<1>3. CASE JobFails(s)
  <2>. DEFINE job == FailedJob(worker[s].job)
  <2>1. job \in Job
    BY <1>1, <1>3, FailedJobType DEF JobFails
  <2>2. /\ \E err \in BOOLEAN : Call(RecordFailure(job), err)
        /\ failures' = [failures EXCEPT ![job.jid] = @ + 1]
        /\ WorkerGoes(s, "schedule", job)
    BY <1>3 DEF JobFails
  <2>. HIDE DEF job
  <2>3. BrokerTypeOK' /\ WorkerTypeOK' /\ disturbed' \in [AllDisturbances -> Nat]
    BY <2>1, <2>2, HandlerReturnsType
  <2>4. failures' \in [JIDs -> Nat]
    BY <2>1, <2>2 DEF HistoryTypeOK, Job
  <2>. QED  BY <1>3, <2>3, <2>4 DEF JobFails, FetcherTypeOK, RetrierTypeOK, HistoryTypeOK
<1>4. CASE JobMeetsOpenCircuit(s)
  <2>. DEFINE job == [worker[s].job EXCEPT !.state = "pending"]
  <2>1. job \in Job
    <3>1. worker[s].job \in Job
      BY <1>1, <1>4 DEF JobMeetsOpenCircuit
    <3>. QED  BY <3>1 DEF Job, JobState
  <2>2. /\ \E err \in BOOLEAN : Call(RecordFailure(job), err)
        /\ WorkerGoes(s, "schedule", job)
    BY <1>4 DEF JobMeetsOpenCircuit
  <2>. HIDE DEF job
  <2>3. BrokerTypeOK' /\ WorkerTypeOK' /\ disturbed' \in [AllDisturbances -> Nat]
    BY <2>1, <2>2, HandlerReturnsType
  <2>. QED  BY <1>4, <2>3
            DEF JobMeetsOpenCircuit, FetcherTypeOK, RetrierTypeOK, HistoryTypeOK, history
<1>5. CASE WorkerSchedules(s)
  <2>1. worker[s].job \in Job
    BY <1>1, <1>5 DEF WorkerSchedules
  <2>2. BrokerTypeOK'
    BY <1>5, <2>1, AddToDeadType, AddToRetryType, BrokerUnchanged DEF WorkerSchedules, Call
  <2>3. WorkerTypeOK'
    BY <1>5, <2>1, WorkerGoesType DEF WorkerSchedules
  <2>4. disturbed' \in [AllDisturbances -> Nat]
    BY <1>5 DEF WorkerSchedules, Call, Disturb, HistoryTypeOK
  <2>. QED  BY <1>5, <2>2, <2>3, <2>4
            DEF WorkerSchedules, FetcherTypeOK, RetrierTypeOK, HistoryTypeOK, history
<1>6. CASE WorkerAcks(s) \/ WorkerExits(s)
  <2>1. BrokerTypeOK'
    BY <1>6, AckType, BrokerUnchanged DEF WorkerAcks, WorkerExits, Call
  <2>2. WorkerTypeOK'
    BY <1>6, WorkerGoesType DEF WorkerAcks, WorkerExits
  <2>3. disturbed' \in [AllDisturbances -> Nat]
    BY <1>6 DEF WorkerAcks, WorkerExits, Call, Disturb, HistoryTypeOK
  <2>. QED  BY <1>6, <2>1, <2>2, <2>3
            DEF WorkerAcks, WorkerExits, FetcherTypeOK, RetrierTypeOK, HistoryTypeOK, history
<1>. QED  BY <1>2, <1>3, <1>4, <1>5, <1>6 DEF Worker

\* A cut of a set is a subset of it.
LEMMA BatchesType ==
  ASSUME NEW S, NEW limit, NEW batch \in Batches(S, limit)
  PROVE  batch \in SUBSET S
BY DEF Batches

\* The steps of retryLoop().
LEMMA RetrierType ==
  ASSUME TypeOK, NEW e \in Engines, Retrier(e)
  PROVE  TypeOK'
<1>. USE DEF TypeOK
<1>1. /\ retrier[e].pc \in {"enqueue", "fallback"} => retrier[e].job \in Job
      /\ retrier[e].batch \in SUBSET Job
  BY DEF RetrierTypeOK, Retriers
<1>2. SUFFICES BrokerTypeOK' /\ RetrierTypeOK' /\ disturbed' \in [AllDisturbances -> Nat]
  BY DEF Retrier, RetryTick, RetrySkips, RetryRemoves, RetryEnqueues, RetryFallsBack,
         RetryExits, FetcherTypeOK, WorkerTypeOK, HistoryTypeOK, history
<1>3. CASE RetryTick(e)
  <2>1. PICK batch \in Batches(due, RetryLimit) : RetrierGoes(e, "loop", NoJob, RetryJobs(batch))
    BY <1>3 DEF RetryTick
  <2>2. batch \in SUBSET retry
    BY <2>1, BatchesType DEF BrokerTypeOK
  <2>3. RetryJobs(batch) \in SUBSET Job
    BY <2>2, RetryJobsType
  <2>. QED  BY <1>3, <2>1, <2>3, RetrierGoesType, BrokerUnchanged DEF RetryTick, HistoryTypeOK
<1>4. CASE RetrySkips(e)
  BY <1>1, <1>4, RetrierGoesType, BrokerUnchanged DEF RetrySkips, HistoryTypeOK
<1>5. CASE RetryRemoves(e)
  <2>1. PICK job \in retrier[e].batch, err \in BOOLEAN :
          /\ Call(RemoveFromRetry(job), err)
          /\ IF err THEN RetrierGoes(e, "loop", NoJob, retrier[e].batch \ {job})
                    ELSE RetrierGoes(e, "enqueue", [job EXCEPT !.state = "pending"],
                                     retrier[e].batch \ {job})
    BY <1>5 DEF RetryRemoves
  <2>2. job \in Job
    BY <1>1
  <2>3. [job EXCEPT !.state = "pending"] \in Job
    BY <2>2 DEF Job, JobState
  <2>4. BrokerTypeOK'
    BY <2>1, RemoveFromRetryType, BrokerUnchanged DEF Call
  <2>5. RetrierTypeOK'
    BY <1>1, <2>1, <2>3, RetrierGoesType
  <2>. QED  BY <2>1, <2>4, <2>5 DEF Call, Disturb, HistoryTypeOK
<1>6. CASE RetryEnqueues(e)
  <2>1. retrier[e].job \in Job
    BY <1>1, <1>6 DEF RetryEnqueues
  <2>2. NotReenqueued(retrier[e].job) \in Job
    BY <2>1, FailedJobType
  <2>3. BrokerTypeOK'
    BY <1>6, <2>1, EnqueueType, BrokerUnchanged DEF RetryEnqueues, CallWithEngineContext, Call
  <2>4. RetrierTypeOK'
    BY <1>1, <1>6, <2>2, RetrierGoesType DEF RetryEnqueues
  <2>. QED  BY <1>6, <2>3, <2>4
            DEF RetryEnqueues, CallWithEngineContext, Call, Disturb, HistoryTypeOK
<1>7. CASE RetryFallsBack(e)
  <2>1. retrier[e].job \in Job
    BY <1>1, <1>7 DEF RetryFallsBack
  <2>2. BrokerTypeOK'
    BY <1>7, <2>1, AddToDeadType, AddToRetryType, BrokerUnchanged DEF RetryFallsBack, Call
  <2>3. RetrierTypeOK'
    BY <1>1, <1>7, RetrierGoesType DEF RetryFallsBack
  <2>. QED  BY <1>7, <2>2, <2>3 DEF RetryFallsBack, Call, Disturb, HistoryTypeOK
<1>8. CASE RetryExits(e)
  BY <1>8, RetrierGoesType, BrokerUnchanged DEF RetryExits, HistoryTypeOK
<1>. QED  BY <1>3, <1>4, <1>5, <1>6, <1>7, <1>8 DEF Retrier

\* The steps of reaperLoop().
LEMMA ReaperType ==
  ASSUME TypeOK, NEW e \in Engines, Reaper(e)
  PROVE  TypeOK'
<1>. USE DEF TypeOK
<1>1. reaper[e].batch \in SUBSET Job
  BY DEF Reapers
<1>2. SUFFICES BrokerTypeOK' /\ reaper' \in [Engines -> Reapers]
               /\ disturbed' \in [AllDisturbances -> Nat]
  BY DEF Reaper, ReaperTick, ReaperSkips, ReaperEnqueues, ReaperExits,
         FetcherTypeOK, WorkerTypeOK, RetrierTypeOK, HistoryTypeOK, history
<1>3. ASSUME NEW pc \in {"loop", "exited"}, NEW batch \in SUBSET Job, ReaperGoes(e, pc, batch)
      PROVE  reaper' \in [Engines -> Reapers]
  BY <1>3 DEF ReaperGoes, Reapers
<1>4. CASE ReaperTick(e)
  <2>1. PICK batch \in Batches(expired, ReapLimit), err \in BOOLEAN :
          /\ Call(ReapOrphanedJobs(batch), err)
          /\ ReaperGoes(e, "loop", IF err THEN {} ELSE OrphanedJobs(batch))
    BY <1>4 DEF ReaperTick
  <2>2. batch \in SUBSET processing
    BY <2>1, BatchesType DEF BrokerTypeOK
  <2>3. OrphanedJobs(batch) \in SUBSET Job
    BY <2>2, OrphanedJobsType
  <2>4. BrokerTypeOK'
    BY <2>1, <2>2, ReapType, BrokerUnchanged DEF Call
  <2>5. reaper' \in [Engines -> Reapers]
    BY <1>3, <2>1, <2>3
  <2>. QED  BY <2>1, <2>4, <2>5 DEF Call, Disturb, HistoryTypeOK
<1>5. CASE ReaperSkips(e)
  BY <1>1, <1>3, <1>5, BrokerUnchanged DEF ReaperSkips, HistoryTypeOK
<1>6. CASE ReaperEnqueues(e)
  <2>1. PICK job \in reaper[e].batch, err \in BOOLEAN :
          /\ CallWithEngineContext(e, Enqueue(job.queue, job), err)
          /\ ReaperGoes(e, "loop", reaper[e].batch \ {job})
    BY <1>6 DEF ReaperEnqueues
  <2>2. BrokerTypeOK'
    BY <1>1, <2>1, EnqueueType, BrokerUnchanged DEF CallWithEngineContext, Call
  <2>. QED  BY <1>1, <1>3, <2>1, <2>2 DEF CallWithEngineContext, Call, Disturb, HistoryTypeOK
<1>7. CASE ReaperExits(e)
  BY <1>3, <1>7, BrokerUnchanged DEF ReaperExits, HistoryTypeOK
<1>. QED  BY <1>4, <1>5, <1>6, <1>7 DEF Reaper

\* Clients.
LEMMA ClientType ==
  ASSUME TypeOK, NEW q \in Queues, ClearQueue(q) \/ \E jid \in JIDs : ClientEnqueue(jid, q)
  PROVE  TypeOK'
<1>. USE DEF TypeOK
<1>1. ASSUME NEW jid \in JIDs, ClientEnqueue(jid, q)
      PROVE  TypeOK'
  <2>1. NewJob(jid, q) \in Job /\ NewJob(jid, q).queue = q
    BY RetryAssumption DEF NewJob, Job, JobState
  <2>2. ASSUME NEW n \in RetryOptions
        PROVE  SetRetry(NewJob(jid, q), n) \in Job /\ SetRetry(NewJob(jid, q), n).queue = q
    <3>1. Clamp(n) \in 0..MaxRetryCount
      BY ClampType, ProcessorAssumption
    <3>. QED  BY <2>1, <3>1 DEF SetRetry, NewJob, Job
  <2>3. PICK job \in {NewJob(jid, q)} \cup {SetRetry(NewJob(jid, q), n) : n \in RetryOptions},
             err \in BOOLEAN :
          /\ Call(Enqueue(q, job), err)
          /\ client' = [client EXCEPT ![jid] = IF err THEN "failed" ELSE "accepted"]
    BY <1>1 DEF ClientEnqueue
  <2>4. job \in Job /\ job.queue = q
    BY <2>1, <2>2
  <2>5. BrokerTypeOK'
    BY <2>3, <2>4, EnqueueType, BrokerUnchanged DEF Call
  <2>6. HistoryTypeOK'
    <3>1. disturbed' \in [AllDisturbances -> Nat]
      BY <2>3 DEF Call, Disturb, HistoryTypeOK, AllDisturbances
    <3>2. client' \in [JIDs -> {"none", "accepted", "failed"}]
      BY <2>3 DEF HistoryTypeOK
    <3>. QED  BY <1>1, <3>1, <3>2 DEF ClientEnqueue, HistoryTypeOK
  <2>. QED  BY <1>1, <2>5, <2>6 DEF ClientEnqueue, engineVars, FetcherTypeOK, WorkerTypeOK,
              RetrierTypeOK
<1>2. CASE ClearQueue(q)
  <2>1. BrokerTypeOK'
    BY <1>2, DeleteKeyType DEF ClearQueue
  <2>. QED  BY <1>2, <2>1 DEF ClearQueue, Disturb, engineVars, history,
              FetcherTypeOK, WorkerTypeOK, RetrierTypeOK, HistoryTypeOK, AllDisturbances
<1>. QED  BY <1>1, <1>2

\* Processes start, stop and die.
LEMMA LifeType ==
  ASSUME TypeOK, NEW e \in Engines, Start(e) \/ Stop(e) \/ StopReturns(e) \/ Crash(e)
  PROVE  TypeOK'
<1>. USE DEF TypeOK
<1>1. BrokerTypeOK'
  BY BrokerUnchanged DEF Start, Stop, StopReturns, Crash
<1>2. status' \in [Engines -> {"down", "running", "stopping"}]
  BY DEF Start, Stop, StopReturns, Crash
<1>3. HistoryTypeOK'
  BY DEF Start, Stop, StopReturns, Crash, Disturb, HistoryTypeOK, history, AllDisturbances
<1>4. CASE Stop(e) \/ StopReturns(e)
  BY <1>1, <1>2, <1>3, <1>4 DEF Stop, StopReturns, FetcherTypeOK, WorkerTypeOK, RetrierTypeOK
<1>5. CASE Start(e) \/ Crash(e)
  <2>1. Len(PollList[e]) \in Nat \ {0}
    BY ProcessorAssumption
  <2>2. FetcherTypeOK'
    <3>1. PICK pc \in {"top", "exited"} :
            fetcher' = [fetcher EXCEPT ![e] = [pc |-> pc, job |-> NoJob, cursor |-> 0]]
      BY <1>5 DEF Start, Crash, NoFetcher
    <3>. QED  BY <2>1, <3>1 DEF FetcherTypeOK, Fetchers
  <2>3. WorkerTypeOK'
    BY <1>5 DEF Start, Crash, NoWorker, WorkerTypeOK, Workers
  <2>4. RetrierTypeOK'
    <3>1. PICK pc \in {"loop", "exited"} : RetrierGoes(e, pc, NoJob, {})
      BY <1>5 DEF Start, Crash, NoRetrier, RetrierGoes
    <3>. QED  BY <3>1, RetrierGoesType
  <2>5. reaper' \in [Engines -> Reapers]
    <3>1. PICK pc \in {"loop", "exited"} : ReaperGoes(e, pc, {})
      BY <1>5 DEF Start, Crash, NoReaper, ReaperGoes
    <3>. QED  BY <3>1 DEF ReaperGoes, Reapers
  <2>. QED  BY <1>1, <1>2, <1>3, <2>2, <2>3, <2>4, <2>5
<1>. QED  BY <1>4, <1>5

\* Time passes.
LEMMA ClockType ==
  ASSUME TypeOK, NEW data,
         OrphanLeaseExpires(data) \/ HeldLeaseExpires(data) \/ BackoffEnds(data)
  PROVE  TypeOK'
<1>1. BrokerTypeOK'
  BY TimeType DEF TypeOK, OrphanLeaseExpires, HeldLeaseExpires, BackoffEnds
<1>. QED  BY <1>1 DEF TypeOK, OrphanLeaseExpires, HeldLeaseExpires, BackoffEnds, Disturb,
            engineVars, history, AllDisturbances, FetcherTypeOK, WorkerTypeOK, RetrierTypeOK,
            HistoryTypeOK

\* The initial state is well typed.
LEMMA InitType == Init => TypeOK
<1>1. \A e \in Engines : Len(PollList[e]) \in Nat \ {0}
  BY ProcessorAssumption
<1>. QED  BY <1>1 DEF Init, BrokerInit, TypeOK, BrokerTypeOK, FetcherTypeOK, WorkerTypeOK,
            RetrierTypeOK, HistoryTypeOK, NoFetcher, NoWorker, NoRetrier, NoReaper,
            Fetchers, Workers, Retriers, Reapers

\* TypeOK is inductive.
LEMMA StepType == TypeOK /\ [Next]_vars => TypeOK'
<1>. SUFFICES ASSUME TypeOK, [Next]_vars
              PROVE  TypeOK'
  OBVIOUS
<1>1. CASE UNCHANGED vars
  BY <1>1 DEF vars, brokerVars, engineVars, history, TypeOK, BrokerTypeOK, FetcherTypeOK,
              WorkerTypeOK, RetrierTypeOK, HistoryTypeOK
<1>2. ASSUME NEW jid \in JIDs, NEW q \in Queues, ClientEnqueue(jid, q)
      PROVE  TypeOK'
  BY <1>2, ClientType
<1>3. ASSUME NEW q \in Queues, ClearQueue(q)
      PROVE  TypeOK'
  BY <1>3, ClientType
<1>4. ASSUME NEW e \in Engines, Start(e) \/ Stop(e) \/ StopReturns(e) \/ Crash(e)
      PROVE  TypeOK'
  BY <1>4, LifeType
<1>5. ASSUME NEW e \in Engines, Fetcher(e) \/ Retrier(e) \/ Reaper(e)
      PROVE  TypeOK'
  BY <1>5, FetcherType, RetrierType, ReaperType
<1>6. ASSUME NEW s \in Slots, Worker(s)
      PROVE  TypeOK'
  BY <1>6, WorkerType
<1>7. ASSUME NEW data, OrphanLeaseExpires(data) \/ HeldLeaseExpires(data) \/ BackoffEnds(data)
      PROVE  TypeOK'
  BY <1>7, ClockType
<1>. QED  BY <1>1, <1>2, <1>3, <1>4, <1>5, <1>6, <1>7 DEF Next

\* Type correctness: what Redis stores and what the goroutines hold is well
\* formed whatever crashes, errors, stops and expiries happen in between.
THEOREM TypeCorrect == Spec => []TypeOK
BY InitType, StepType, PTL DEF Spec

-----------------------------------------------------------------------------
(* Assumptions on the disturbances. *)

\* A disturbance that no scenario allows.
Excluded(kind) == \A most \in Scenarios : most[kind] = 0

\* A kind of disturbance whose bound is 0 in every scenario never happens.
LEMMA ExcludedNeverHappens ==
  ASSUME TypeOK, NEW kind \in AllDisturbances, Excluded(kind)
  PROVE  ~Disturb(kind)
<1>1. disturbed \in [AllDisturbances -> Nat] /\ Scenarios \subseteq [AllDisturbances -> Nat]
  BY ProcessorAssumption DEF TypeOK, HistoryTypeOK
<1>. QED  BY <1>1 DEF Disturb, Excluded
-----------------------------------------------------------------------------
(* The retry budget holds whatever goes wrong: crashes, failed calls,      *)
(* duplicated jobs, lost leases.  RetryBudget speaks of stored jobs only;  *)
(* the inductive invariant adds what the goroutines hold.  Then the        *)
(* attempts behind it: while no call fails and nobody stops, a job counts  *)
(* only attempts that really failed.                                       *)

Waiting(job)   == Runnable(job) /\ job.state = "pending"
Retryable(job) == Runnable(job) /\ job.state \in {"pending", "failed"}
Exhausted(job) == job.retryCount = job.retry + 1 /\ job.state = "dead"

FetcherBudget ==
  \A e \in Engines : fetcher[e].pc \in {"send", "fallback", "ack"} => Waiting(fetcher[e].job)

WorkerBudget ==
  \A s \in Slots :
    /\ worker[s].pc = "perform" => Runnable(worker[s].job)
    /\ worker[s].pc = "schedule" => Retryable(worker[s].job) \/ Exhausted(worker[s].job)

RetrierBudget ==
  \A e \in Engines :
    /\ \A job \in retrier[e].batch : Runnable(job)
    /\ retrier[e].pc = "enqueue" => Waiting(retrier[e].job)
    /\ retrier[e].pc = "fallback" => Waiting(retrier[e].job) \/ Exhausted(retrier[e].job)

ReaperBudget ==
  \A e \in Engines : \A job \in reaper[e].batch : Waiting(job)

Budget == RetryBudget /\ FetcherBudget /\ WorkerBudget /\ RetrierBudget /\ ReaperBudget

-----------------------------------------------------------------------------
(* Parsing and serialising. *)

\* The clamps of FromJSON leave a job with an attempt left alone.
LEMMA ParseRunnable ==
  ASSUME NEW data \in Bytes, Runnable(data)
  PROVE  /\ FromJSON(data) = [jid |-> data.jid, queue |-> data.queue, retry |-> data.retry,
                              retryCount |-> data.retryCount, state |-> data.state,
                              rawPayload |-> NoRaw]
         /\ FromJSON(data) \in Job
<1>1. data.retry \in 0..MaxRetryCount /\ data.retryCount \in 0..MaxRetryCount
  BY RetryAssumption DEF Bytes, Runnable
<1>2. data.state # ""
  BY DEF Bytes, JobState
<1>3. Clamp(data.retry) = data.retry /\ Clamp(data.retryCount) = data.retryCount
  BY <1>1, ClampValid
<1>. QED  BY <1>2, <1>3, FromJSONType DEF FromJSON

\* Within the bound on RetryCount, FromJSON then ToJSON gives back the same bytes.
LEMMA ParseSerialise ==
  ASSUME NEW data \in Bytes, Runnable(data)
  PROVE  ToJSON(FromJSON(data)) = data
BY ParseRunnable DEF ToJSON, Bytes

\* ToJSON keeps the counts and the state that the budget speaks of.
LEMMA SerialiseKeeps ==
  ASSUME NEW job \in Job
  PROVE  /\ ToJSON(job).retry = job.retry
         /\ ToJSON(job).retryCount = job.retryCount
         /\ ToJSON(job).state = job.state
BY DEF ToJSON

-----------------------------------------------------------------------------
(* The broker's commands. *)

\* Enqueue of a pending job with an attempt left keeps the budget.
LEMMA EnqueueBudget ==
  ASSUME BrokerTypeOK, RetryBudget, NEW job \in Job, Waiting(job), Enqueue(job.queue, job)
  PROVE  RetryBudget'
<1>. DEFINE q == job.queue
            data == ToJSON(job)
<1>1. /\ q \in Queues /\ data \in Bytes /\ Runnable(data) /\ data.state = "pending"
      /\ queues' = [queues EXCEPT ![q] = Append(@, data)]
      /\ UNCHANGED <<processing, retry, dead>>
  BY ToJSONType, SerialiseKeeps DEF Job, Enqueue, Waiting, Runnable
<1>. HIDE DEF q, data
<1>2. ASSUME NEW r \in Queues, NEW i \in DOMAIN queues'[r]
      PROVE  Runnable(queues'[r][i]) /\ queues'[r][i].state = "pending"
  <2>1. queues'[r][i] = data \/ (i \in DOMAIN queues[r] /\ queues'[r][i] = queues[r][i])
    BY <1>1 DEF BrokerTypeOK
  <2>. QED  BY <1>1, <2>1 DEF RetryBudget
<1>. QED  BY <1>1, <1>2 DEF RetryBudget, Runnable

\* Dequeue keeps the budget and hands out a job with an attempt left.
LEMMA DequeueBudget ==
  ASSUME BrokerTypeOK, RetryBudget, NEW q \in Queues, Dequeue(q)
  PROVE  RetryBudget' /\ Waiting(DequeuedJob(q))
<1>1. /\ queues[q] \in Seq(Bytes) /\ queues[q] # <<>>
      /\ queues' = [queues EXCEPT ![q] = Tail(@)]
      /\ processing' = processing \cup {Head(queues[q])}
      /\ UNCHANGED <<retry, dead>>
  BY DEF BrokerTypeOK, Dequeue
<1>2. Head(queues[q]) \in Bytes /\ Runnable(Head(queues[q])) /\ Head(queues[q]).state = "pending"
  BY <1>1 DEF RetryBudget, BrokerTypeOK
<1>3. ASSUME NEW r \in Queues, NEW i \in DOMAIN queues'[r]
      PROVE  Runnable(queues'[r][i]) /\ queues'[r][i].state = "pending"
  <2>1. \E k \in DOMAIN queues[r] : queues'[r][i] = queues[r][k]
    BY <1>1 DEF BrokerTypeOK
  <2>. QED  BY <2>1 DEF RetryBudget
<1>4. RetryBudget'
  BY <1>1, <1>2, <1>3 DEF RetryBudget, Runnable
<1>5. Waiting(DequeuedJob(q))
  BY <1>2, ParseRunnable DEF DequeuedJob, Waiting, Runnable
<1>. QED  BY <1>4, <1>5

\* Commands that add nothing to the queues, leases, retry set and dead set.
LEMMA ShrinkingBudget ==
  ASSUME RetryBudget, queues' = queues, processing' \subseteq processing,
         retry' \subseteq retry, dead' = dead
  PROVE  RetryBudget'
BY DEF RetryBudget, Runnable

\* AddToRetry of a job with an attempt left keeps the budget.
LEMMA AddToRetryBudget ==
  ASSUME RetryBudget, NEW job \in Job, Retryable(job), AddToRetry(job)
  PROVE  RetryBudget'
BY SerialiseKeeps DEF RetryBudget, Runnable, Retryable, AddToRetry

\* AddToDead of a job that has used retry + 1 attempts keeps the budget.
LEMMA AddToDeadBudget ==
  ASSUME RetryBudget, NEW job \in Job, Exhausted(job), AddToDead(job)
  PROVE  RetryBudget'
BY SerialiseKeeps DEF RetryBudget, Runnable, Exhausted, AddToDead

-----------------------------------------------------------------------------
(* Each goroutine keeps the budget. *)

\* A move of the fetcher with a pending job that can run.
LEMMA FetcherGoesBudget ==
  ASSUME TypeOK, FetcherBudget, NEW e \in Engines, NEW pc, NEW job, FetcherGoes(e, pc, job),
         pc \in {"send", "fallback", "ack"} => Waiting(job)
  PROVE  FetcherBudget'
BY DEF TypeOK, FetcherTypeOK, FetcherBudget, FetcherGoes

\* A move of a worker with a job as its new program point wants it.
LEMMA WorkerGoesBudget ==
  ASSUME TypeOK, WorkerBudget, NEW s \in Slots, NEW pc, NEW job, WorkerGoes(s, pc, job),
         pc = "perform" => Runnable(job),
         pc = "schedule" => Retryable(job) \/ Exhausted(job)
  PROVE  WorkerBudget'
BY DEF TypeOK, WorkerTypeOK, WorkerBudget, WorkerGoes

\* A move of the retry loop with a job as its new program point wants it.
LEMMA RetrierGoesBudget ==
  ASSUME TypeOK, RetrierBudget, NEW e \in Engines, NEW pc, NEW job, NEW batch,
         RetrierGoes(e, pc, job, batch),
         \A j \in batch : Runnable(j),
         pc = "enqueue" => Waiting(job),
         pc = "fallback" => Waiting(job) \/ Exhausted(job)
  PROVE  RetrierBudget'
BY DEF TypeOK, RetrierTypeOK, RetrierBudget, RetrierGoes

\* The comparison of handleFailure: an attempt is used up, and either there is
\* another one left or the budget is exactly spent.
LEMMA FailedJobBudget ==
  ASSUME NEW job \in Job, Runnable(job)
  PROVE  Retryable(FailedJob(job)) \/ Exhausted(FailedJob(job))
<1>1. job.retry \in Int /\ job.retryCount \in Int
  BY RetryAssumption DEF Job
<1>2. /\ FailedJob(job).retryCount = job.retryCount + 1
      /\ FailedJob(job).retry = job.retry
      /\ FailedJob(job).state = IF job.retryCount + 1 <= job.retry THEN "failed" ELSE "dead"
  BY DEF FailedJob, Job
<1>. QED  BY <1>1, <1>2 DEF Runnable, Retryable, Exhausted

\* The comparison of retryLoop's fallback.
LEMMA NotReenqueuedBudget ==
  ASSUME NEW job \in Job, Waiting(job)
  PROVE  Waiting(NotReenqueued(job)) \/ Exhausted(NotReenqueued(job))
<1>1. job.retry \in Int /\ job.retryCount \in Int
  BY RetryAssumption DEF Job
<1>2. /\ NotReenqueued(job).retryCount = job.retryCount + 1
      /\ NotReenqueued(job).retry = job.retry
      /\ NotReenqueued(job).state = IF job.retryCount + 1 > job.retry THEN "dead" ELSE job.state
  BY DEF NotReenqueued, Job
<1>. QED  BY <1>1, <1>2 DEF Runnable, Waiting, Exhausted

\* The steps of fetcher().
LEMMA FetcherKeepsBudget ==
  ASSUME TypeOK, Budget, NEW e \in Engines, Fetcher(e)
  PROVE  Budget'
<1>. USE DEF Budget
<1>1. /\ BrokerTypeOK
      /\ fetcher[e].pc \in {"send", "fallback", "ack"} =>
           fetcher[e].job \in Job /\ Waiting(fetcher[e].job)
  BY DEF TypeOK, FetcherTypeOK, Fetchers, FetcherBudget
<1>2. RetrierBudget' /\ ReaperBudget'
  BY DEF Fetcher, FetcherTop, FetcherPoll, FetcherSend, FetcherHandBack, FetcherFallback,
         FetcherAck, RetrierBudget, ReaperBudget
<1>3. CASE FetcherTop(e)
  <2>1. RetryBudget' /\ WorkerBudget'
    BY <1>3, ShrinkingBudget DEF FetcherTop, brokerVars, WorkerBudget
  <2>2. FetcherBudget'
    BY <1>3 DEF FetcherTop, FetcherGoes, FetcherPolls, FetcherBudget, TypeOK, FetcherTypeOK
  <2>. QED  BY <1>2, <2>1, <2>2
<1>4. CASE FetcherPoll(e)
  <2>1. CASE \/ Dequeue(PolledQueue(e)) /\ FetcherGoes(e, "send", DequeuedJob(PolledQueue(e)))
             \/ Dequeue(PolledQueue(e)) /\ FetcherGoes(e, "top", NoJob)
    <3>1. RetryBudget' /\ Waiting(DequeuedJob(PolledQueue(e)))
      BY <1>1, <2>1, DequeueBudget, PolledQueueType
    <3>2. FetcherBudget'
      BY <2>1, <3>1, FetcherGoesBudget
    <3>. QED  BY <1>2, <1>4, <3>1, <3>2 DEF FetcherPoll, WorkerBudget
  <2>2. CASE FetcherGoes(e, "top", NoJob) /\ UNCHANGED brokerVars
    <3>1. FetcherBudget' /\ RetryBudget'
      BY <2>2, FetcherGoesBudget, ShrinkingBudget DEF brokerVars
    <3>. QED  BY <1>2, <1>4, <3>1 DEF FetcherPoll, WorkerBudget
  <2>. QED  BY <1>4, <2>1, <2>2 DEF FetcherPoll, Call
<1>5. CASE FetcherSend(e)
  <2>. DEFINE job == [fetcher[e].job EXCEPT !.state = "active"]
  <2>1. Runnable(job)
    BY <1>1, <1>5 DEF FetcherSend, Waiting, Runnable, Job
  <2>2. PICK s \in Slots : WorkerGoes(s, "perform", job)
    BY <1>5 DEF FetcherSend, WorkerGoes
  <2>. HIDE DEF job
  <2>3. WorkerBudget'
    BY <2>1, <2>2, WorkerGoesBudget
  <2>4. FetcherBudget' /\ RetryBudget'
    BY <1>5, FetcherGoesBudget, ShrinkingBudget DEF FetcherSend, brokerVars
  <2>. QED  BY <1>2, <2>3, <2>4
<1>6. CASE FetcherHandBack(e)
  <2>. DEFINE job == [fetcher[e].job EXCEPT !.state = "pending"]
  <2>1. job \in Job /\ Waiting(job)
    BY <1>1, <1>6 DEF FetcherHandBack, Waiting, Runnable, Job, JobState
  <2>2. PICK err \in BOOLEAN : /\ Call(Enqueue(job.queue, job), err)
                               /\ FetcherGoes(e, IF err THEN "fallback" ELSE "ack", job)
    BY <1>6 DEF FetcherHandBack
  <2>. HIDE DEF job
  <2>3. RetryBudget'
    BY <1>1, <2>1, <2>2, EnqueueBudget, ShrinkingBudget DEF Call, brokerVars
  <2>4. FetcherBudget'
    BY <2>1, <2>2, FetcherGoesBudget
  <2>. QED  BY <1>2, <1>6, <2>3, <2>4 DEF FetcherHandBack, WorkerBudget
<1>7. CASE FetcherFallback(e)
  <2>1. fetcher[e].job \in Job /\ Waiting(fetcher[e].job) /\ Retryable(fetcher[e].job)
    BY <1>1, <1>7 DEF FetcherFallback, Waiting, Retryable
  <2>2. RetryBudget'
    BY <1>7, <2>1, AddToRetryBudget, ShrinkingBudget DEF FetcherFallback, Call, brokerVars
  <2>3. FetcherBudget'
    BY <1>7, <2>1, FetcherGoesBudget DEF FetcherFallback
  <2>. QED  BY <1>2, <1>7, <2>2, <2>3 DEF FetcherFallback, WorkerBudget
<1>8. CASE FetcherAck(e)
  <2>1. RetryBudget'
    BY <1>8, ShrinkingBudget DEF FetcherAck, Call, Ack, brokerVars
  <2>2. FetcherBudget'
    BY <1>8, FetcherGoesBudget DEF FetcherAck
  <2>. QED  BY <1>2, <1>8, <2>1, <2>2 DEF FetcherAck, WorkerBudget
<1>. QED  BY <1>3, <1>4, <1>5, <1>6, <1>7, <1>8 DEF Fetcher

\* The steps of worker(), with the <= of handleFailure.
LEMMA WorkerKeepsBudget ==
  ASSUME TypeOK, Budget, NEW s \in Slots, Worker(s)
  PROVE  Budget'
<1>. USE DEF Budget
<1>1. worker[s].pc \in {"perform", "schedule", "ack"} => worker[s].job \in Job
  BY DEF TypeOK, WorkerTypeOK, Workers
<1>2. FetcherBudget' /\ RetrierBudget' /\ ReaperBudget'
  BY DEF Worker, JobSucceeds, JobFails, JobMeetsOpenCircuit, WorkerSchedules, WorkerAcks,
         WorkerExits, FetcherBudget, RetrierBudget, ReaperBudget
<1>3. CASE JobSucceeds(s) \/ JobFails(s) \/ JobMeetsOpenCircuit(s)
  <2>1. RetryBudget'
    BY <1>3, ShrinkingBudget DEF JobSucceeds, JobFails, JobMeetsOpenCircuit, Call, RecordSuccess,
                                 RecordFailure, brokerVars
  <2>2. worker[s].job \in Job /\ Runnable(worker[s].job)
    BY <1>1, <1>3 DEF JobSucceeds, JobFails, JobMeetsOpenCircuit, WorkerBudget
  <2>3. WorkerBudget'
    <3>1. CASE JobSucceeds(s)
      BY <3>1, WorkerGoesBudget DEF JobSucceeds
    <3>2. CASE JobFails(s)
      BY <2>2, <3>2, FailedJobBudget, WorkerGoesBudget DEF JobFails
    <3>3. CASE JobMeetsOpenCircuit(s)
      <4>. DEFINE job == [worker[s].job EXCEPT !.state = "pending"]
      <4>1. Retryable(job)
        BY <2>2 DEF Retryable, Runnable, Job
      <4>2. WorkerGoes(s, "schedule", job)
        BY <3>3 DEF JobMeetsOpenCircuit
      <4>. HIDE DEF job
      <4>. QED  BY <4>1, <4>2, WorkerGoesBudget
    <3>. QED  BY <1>3, <3>1, <3>2, <3>3
  <2>. QED  BY <1>2, <2>1, <2>3
<1>4. CASE WorkerSchedules(s)
  <2>1. /\ worker[s].job \in Job
        /\ Retryable(worker[s].job) \/ Exhausted(worker[s].job)
    BY <1>1, <1>4 DEF WorkerSchedules, WorkerBudget
  <2>2. RetryBudget'
    <3>1. CASE worker[s].job.state = "dead"
      BY <1>4, <2>1, <3>1, AddToDeadBudget, ShrinkingBudget
         DEF WorkerSchedules, Call, brokerVars, Retryable
    <3>2. CASE worker[s].job.state # "dead"
      BY <1>4, <2>1, <3>2, AddToRetryBudget, ShrinkingBudget
         DEF WorkerSchedules, Call, brokerVars, Exhausted
    <3>. QED  BY <3>1, <3>2
  <2>3. WorkerBudget'
    BY <1>4, WorkerGoesBudget DEF WorkerSchedules
  <2>. QED  BY <1>2, <2>2, <2>3
<1>5. CASE WorkerAcks(s) \/ WorkerExits(s)
  <2>1. RetryBudget'
    BY <1>5, ShrinkingBudget DEF WorkerAcks, WorkerExits, Call, Ack, brokerVars
  <2>2. WorkerBudget'
    BY <1>5, WorkerGoesBudget DEF WorkerAcks, WorkerExits
  <2>. QED  BY <1>2, <2>1, <2>2
<1>. QED  BY <1>3, <1>4, <1>5 DEF Worker

\* The steps of retryLoop(), with the > of its fallback.
LEMMA RetrierKeepsBudget ==
  ASSUME TypeOK, Budget, NEW e \in Engines, Retrier(e)
  PROVE  Budget'
<1>. USE DEF Budget
<1>1. /\ BrokerTypeOK
      /\ retrier[e].pc \in {"enqueue", "fallback"} => retrier[e].job \in Job
      /\ retrier[e].batch \in SUBSET Job /\ \A job \in retrier[e].batch : Runnable(job)
  BY DEF TypeOK, RetrierTypeOK, Retriers, RetrierBudget
<1>2. FetcherBudget' /\ WorkerBudget' /\ ReaperBudget'
  BY DEF Retrier, RetryTick, RetrySkips, RetryRemoves, RetryEnqueues, RetryFallsBack,
         RetryExits, FetcherBudget, WorkerBudget, ReaperBudget
<1>3. CASE RetryTick(e)
  <2>1. PICK batch \in Batches(due, RetryLimit) : RetrierGoes(e, "loop", NoJob, RetryJobs(batch))
    BY <1>3 DEF RetryTick
  <2>2. batch \in SUBSET retry
    BY <1>1, <2>1, BatchesType DEF BrokerTypeOK
  <2>3. ASSUME NEW data \in batch
        PROVE  Runnable(FromJSON(data))
    <3>1. data \in Bytes /\ Runnable(data)
      BY <1>1, <2>2 DEF BrokerTypeOK, RetryBudget
    <3>. QED  BY <3>1, ParseRunnable DEF Runnable
  <2>4. \A job \in RetryJobs(batch) : Runnable(job)
    BY <2>3 DEF RetryJobs
  <2>5. RetrierBudget'
    BY <2>1, <2>4, RetrierGoesBudget
  <2>6. RetryBudget'
    BY <1>3, ShrinkingBudget DEF RetryTick, brokerVars
  <2>. QED  BY <1>2, <2>5, <2>6
<1>4. CASE RetrySkips(e) \/ RetryExits(e)
  <2>1. PICK pc \in {"loop", "exited"}, batch \in SUBSET retrier[e].batch :
          RetrierGoes(e, pc, NoJob, batch)
    BY <1>4 DEF RetrySkips, RetryExits
  <2>2. RetrierBudget'
    BY <1>1, <2>1, RetrierGoesBudget
  <2>3. RetryBudget'
    BY <1>4, ShrinkingBudget DEF RetrySkips, RetryExits, brokerVars
  <2>. QED  BY <1>2, <2>2, <2>3
<1>5. CASE RetryRemoves(e)
  <2>1. PICK job \in retrier[e].batch, err \in BOOLEAN :
          /\ Call(RemoveFromRetry(job), err)
          /\ IF err THEN RetrierGoes(e, "loop", NoJob, retrier[e].batch \ {job})
                    ELSE RetrierGoes(e, "enqueue", [job EXCEPT !.state = "pending"],
                                     retrier[e].batch \ {job})
    BY <1>5 DEF RetryRemoves
  <2>. DEFINE pending == [job EXCEPT !.state = "pending"]
              rest == retrier[e].batch \ {job}
  <2>2. Waiting(pending)
    BY <1>1 DEF Waiting, Runnable, Job
  <2>3. /\ \A j \in rest : Runnable(j)
        /\ RetrierGoes(e, "loop", NoJob, rest) \/ RetrierGoes(e, "enqueue", pending, rest)
    BY <1>1, <2>1
  <2>. HIDE DEF pending, rest
  <2>4. RetrierBudget'
    BY <2>2, <2>3, RetrierGoesBudget
  <2>5. RetryBudget'
    BY <2>1, ShrinkingBudget DEF Call, RemoveFromRetry, brokerVars
  <2>. QED  BY <1>2, <2>4, <2>5
<1>6. CASE RetryEnqueues(e)
  <2>1. retrier[e].job \in Job /\ Waiting(retrier[e].job)
    BY <1>1, <1>6 DEF RetryEnqueues, RetrierBudget
  <2>2. RetryBudget'
    BY <1>1, <1>6, <2>1, EnqueueBudget, ShrinkingBudget
       DEF RetryEnqueues, CallWithEngineContext, Call, brokerVars
  <2>3. RetrierBudget'
    BY <1>1, <1>6, <2>1, NotReenqueuedBudget, RetrierGoesBudget DEF RetryEnqueues
  <2>. QED  BY <1>2, <2>2, <2>3
<1>7. CASE RetryFallsBack(e)
  <2>1. /\ retrier[e].job \in Job
        /\ Waiting(retrier[e].job) \/ Exhausted(retrier[e].job)
    BY <1>1, <1>7 DEF RetryFallsBack, RetrierBudget
  <2>2. RetryBudget'
    <3>1. CASE retrier[e].job.state = "dead"
      BY <1>7, <2>1, <3>1, AddToDeadBudget, ShrinkingBudget
         DEF RetryFallsBack, Call, brokerVars, Waiting
    <3>2. CASE retrier[e].job.state # "dead"
      <4>1. Retryable(retrier[e].job)
        BY <2>1, <3>2 DEF Waiting, Exhausted, Retryable
      <4>. QED  BY <1>7, <2>1, <3>2, <4>1, AddToRetryBudget, ShrinkingBudget
                DEF RetryFallsBack, Call, brokerVars
    <3>. QED  BY <3>1, <3>2
  <2>3. RetrierBudget'
    BY <1>1, <1>7, RetrierGoesBudget DEF RetryFallsBack
  <2>. QED  BY <1>2, <2>2, <2>3
<1>. QED  BY <1>3, <1>4, <1>5, <1>6, <1>7 DEF Retrier

\* The steps of reaperLoop().
LEMMA ReaperKeepsBudget ==
  ASSUME TypeOK, Budget, NEW e \in Engines, Reaper(e)
  PROVE  Budget'
<1>. USE DEF Budget
<1>1. /\ BrokerTypeOK
      /\ reaper[e].batch \in SUBSET Job /\ \A job \in reaper[e].batch : Waiting(job)
  BY DEF TypeOK, Reapers, ReaperBudget
<1>2. FetcherBudget' /\ WorkerBudget' /\ RetrierBudget'
  BY DEF Reaper, ReaperTick, ReaperSkips, ReaperEnqueues, ReaperExits, FetcherBudget,
         WorkerBudget, RetrierBudget
<1>3. ASSUME NEW pc, NEW batch, ReaperGoes(e, pc, batch), \A job \in batch : Waiting(job)
      PROVE  ReaperBudget'
  BY <1>3 DEF ReaperGoes, ReaperBudget, TypeOK
<1>4. CASE ReaperTick(e)
  <2>1. PICK batch \in Batches(expired, ReapLimit), err \in BOOLEAN :
          /\ Call(ReapOrphanedJobs(batch), err)
          /\ ReaperGoes(e, "loop", IF err THEN {} ELSE OrphanedJobs(batch))
    BY <1>4 DEF ReaperTick
  <2>2. batch \in SUBSET processing
    BY <1>1, <2>1, BatchesType DEF BrokerTypeOK
  <2>3. ASSUME NEW data \in batch
        PROVE  Waiting([FromJSON(data) EXCEPT !.state = "pending", !.rawPayload = NoRaw])
    <3>1. data \in Bytes /\ Runnable(data)
      BY <1>1, <2>2 DEF BrokerTypeOK, RetryBudget
    <3>. QED  BY <3>1, ParseRunnable DEF Runnable, Waiting
  <2>4. \A job \in OrphanedJobs(batch) : Waiting(job)
    BY <2>3 DEF OrphanedJobs
  <2>5. ReaperBudget'
    BY <1>3, <2>1, <2>4
  <2>6. RetryBudget'
    BY <2>1, ShrinkingBudget DEF Call, ReapOrphanedJobs, brokerVars
  <2>. QED  BY <1>2, <2>5, <2>6
<1>5. CASE ReaperSkips(e) \/ ReaperExits(e)
  <2>1. RetryBudget'
    BY <1>5, ShrinkingBudget DEF ReaperSkips, ReaperExits, brokerVars
  <2>2. ReaperBudget'
    BY <1>1, <1>3, <1>5 DEF ReaperSkips, ReaperExits
  <2>. QED  BY <1>2, <2>1, <2>2
<1>6. CASE ReaperEnqueues(e)
  <2>1. PICK job \in reaper[e].batch, err \in BOOLEAN :
          /\ CallWithEngineContext(e, Enqueue(job.queue, job), err)
          /\ ReaperGoes(e, "loop", reaper[e].batch \ {job})
    BY <1>6 DEF ReaperEnqueues
  <2>2. RetryBudget'
    BY <1>1, <2>1, EnqueueBudget, ShrinkingBudget DEF CallWithEngineContext, Call, brokerVars
  <2>3. ReaperBudget'
    BY <1>1, <1>3, <2>1
  <2>. QED  BY <1>2, <2>2, <2>3
<1>. QED  BY <1>4, <1>5, <1>6 DEF Reaper

\* Client.Enqueue and EnqueueWithOptions, with the clamp of SetRetry.
LEMMA ClientKeepsBudget ==
  ASSUME TypeOK, Budget, NEW jid \in JIDs, NEW q \in Queues, ClientEnqueue(jid, q)
  PROVE  RetryBudget'
<1>1. PICK job \in {NewJob(jid, q)} \cup {SetRetry(NewJob(jid, q), n) : n \in RetryOptions},
           err \in BOOLEAN : Call(Enqueue(q, job), err)
  BY DEF ClientEnqueue
<1>2. job \in Job /\ job.queue = q /\ Waiting(job)
  <2>1. NewJob(jid, q) \in Job /\ NewJob(jid, q).queue = q /\ Waiting(NewJob(jid, q))
    BY RetryAssumption DEF NewJob, Job, JobState, Waiting, Runnable
  <2>2. ASSUME NEW n \in RetryOptions
        PROVE  LET new == SetRetry(NewJob(jid, q), n)
               IN  new \in Job /\ new.queue = q /\ Waiting(new)
    <3>1. Clamp(n) \in 0..MaxRetryCount /\ Clamp(n) >= 0
      BY ClampType, ProcessorAssumption, RetryAssumption
    <3>. QED  BY <2>1, <3>1 DEF SetRetry, NewJob, Job, Waiting, Runnable
  <2>. QED  BY <2>1, <2>2
<1>. QED  BY <1>1, <1>2, EnqueueBudget, ShrinkingBudget DEF Call, brokerVars, TypeOK, Budget

\* Start, Stop and Crash.
LEMMA LifeKeepsBudget ==
  ASSUME TypeOK, Budget, NEW e \in Engines, Start(e) \/ Stop(e) \/ StopReturns(e) \/ Crash(e)
  PROVE  Budget'
<1>. USE DEF Budget
<1>1. RetryBudget'
  BY ShrinkingBudget DEF Start, Stop, StopReturns, Crash, brokerVars
<1>2. CASE Stop(e) \/ StopReturns(e)
  BY <1>1, <1>2 DEF Stop, StopReturns, FetcherBudget, WorkerBudget, RetrierBudget, ReaperBudget
<1>3. CASE Start(e) \/ Crash(e)
  <2>1. FetcherBudget'
    <3>1. PICK pc \in {"top", "exited"} :
            fetcher' = [fetcher EXCEPT ![e] = [pc |-> pc, job |-> NoJob, cursor |-> 0]]
      BY <1>3 DEF Start, Crash, NoFetcher
    <3>. QED  BY <3>1 DEF FetcherBudget, TypeOK, FetcherTypeOK
  <2>2. WorkerBudget'
    BY <1>3 DEF Start, Crash, NoWorker, WorkerBudget
  <2>3. RetrierBudget'
    <3>1. PICK pc \in {"loop", "exited"} : RetrierGoes(e, pc, NoJob, {})
      BY <1>3 DEF Start, Crash, NoRetrier, RetrierGoes
    <3>. QED  BY <3>1, RetrierGoesBudget
  <2>4. ReaperBudget'
    <3>1. PICK pc \in {"loop", "exited"} : ReaperGoes(e, pc, {})
      BY <1>3 DEF Start, Crash, NoReaper, ReaperGoes
    <3>. QED  BY <3>1 DEF ReaperGoes, ReaperBudget, TypeOK
  <2>. QED  BY <1>1, <2>1, <2>2, <2>3, <2>4
<1>. QED  BY <1>2, <1>3

\* Budget is inductive, given TypeOK.
LEMMA StepBudget == TypeOK /\ Budget /\ [Next]_vars => Budget'
<1>. SUFFICES ASSUME TypeOK, Budget, [Next]_vars
              PROVE  Budget'
  OBVIOUS
<1>1. CASE UNCHANGED engineVars
  <2>1. RetryBudget'
    <3>1. ASSUME NEW jid \in JIDs, NEW q \in Queues, ClientEnqueue(jid, q)
          PROVE  RetryBudget'
      BY <3>1, ClientKeepsBudget
    <3>2. ASSUME NEW q \in Queues, ClearQueue(q)
          PROVE  RetryBudget'
      BY <3>2 DEF ClearQueue, DeleteKey, RetryBudget, Budget, TypeOK, BrokerTypeOK, Runnable
    <3>3. CASE UNCHANGED brokerVars
      BY <3>3, ShrinkingBudget DEF brokerVars, Budget
    <3>4. ASSUME NEW data, LeaseExpires(data) \/ RetryFallsDue(data)
          PROVE  RetryBudget'
      BY <3>4, ShrinkingBudget DEF LeaseExpires, RetryFallsDue, Budget
    <3>5. ASSUME NEW e \in Engines,
                 \/ Start(e) \/ Stop(e) \/ StopReturns(e) \/ Crash(e)
                 \/ Fetcher(e) \/ Retrier(e) \/ Reaper(e)
          PROVE  RetryBudget'
      BY <3>5, LifeKeepsBudget, FetcherKeepsBudget, RetrierKeepsBudget, ReaperKeepsBudget DEF Budget
    <3>6. ASSUME NEW s \in Slots, Worker(s)
          PROVE  RetryBudget'
      BY <3>6, WorkerKeepsBudget DEF Budget
    <3>. QED  BY <3>1, <3>2, <3>3, <3>4, <3>5, <3>6
              DEF Next, vars, OrphanLeaseExpires, HeldLeaseExpires, BackoffEnds
  <2>. QED  BY <1>1, <2>1
            DEF engineVars, Budget, FetcherBudget, WorkerBudget, RetrierBudget, ReaperBudget
<1>2. ASSUME NEW e \in Engines, Start(e) \/ Stop(e) \/ StopReturns(e) \/ Crash(e)
      PROVE  Budget'
  BY <1>2, LifeKeepsBudget
<1>3. ASSUME NEW e \in Engines, Fetcher(e) \/ Retrier(e) \/ Reaper(e)
      PROVE  Budget'
  BY <1>3, FetcherKeepsBudget, RetrierKeepsBudget, ReaperKeepsBudget
<1>4. ASSUME NEW s \in Slots, Worker(s)
      PROVE  Budget'
  BY <1>4, WorkerKeepsBudget
<1>. QED  BY <1>1, <1>2, <1>3, <1>4
          DEF Next, vars, ClientEnqueue, ClearQueue, OrphanLeaseExpires, HeldLeaseExpires,
              BackoffEnds

\* Redis is empty and nobody holds a job at first.
LEMMA InitBudget == Init => Budget
BY DEF Init, BrokerInit, Budget, RetryBudget, FetcherBudget, WorkerBudget, RetrierBudget,
       ReaperBudget, NoFetcher, NoWorker, NoRetrier, NoReaper

\* The retry budget: whatever crashes, fails, expires or is duplicated, a stored
\* job that can still run has an attempt left, and a dead one has used exactly
\* retry + 1 of them.
THEOREM BudgetKept == Spec => []RetryBudget
<1>1. Budget => RetryBudget
  BY DEF Budget
<1>. QED  BY <1>1, InitBudget, StepBudget, TypeCorrect, PTL DEF Spec

\* GetRetryJobs, which parses and clamps, hands RemoveFromRetry jobs that
\* serialise to the very bytes in the retry set: for every retry count up to
\* MaxRetryCount a job taken for retry really leaves the set.
THEOREM RetryRemovalWorks == Spec => []RetryJobsRemovable
<1>1. TypeOK /\ RetryBudget => RetryJobsRemovable
  BY ParseSerialise DEF TypeOK, BrokerTypeOK, RetryBudget, RetryJobsRemovable
<1>. QED  BY <1>1, TypeCorrect, BudgetKept, PTL

-----------------------------------------------------------------------------
(* Attempts that really failed.  RetryCount is only ever as high as the number *)
(* of errors that handlers have returned for the job, in every copy of it, as  *)
(* long as the retry loop's Enqueue does not fail: then it counts an attempt   *)
(* that nobody made.  It fails when Redis does, or when Stop has cancelled its *)
(* context.                                                                    *)

Undisputed == Excluded("error") /\ Excluded("stop")

Counted(f, x) == x.retryCount <= f[x.jid]

StoredCounted ==
  /\ \A q \in Queues : \A i \in DOMAIN queues[q] : Counted(failures, queues[q][i])
  /\ \A data \in processing \cup retry \cup dead : Counted(failures, data)

FetcherCounted == \A e \in Engines : fetcher[e].job # NoJob => Counted(failures, fetcher[e].job)
WorkerCounted  == \A s \in Slots : worker[s].job # NoJob => Counted(failures, worker[s].job)
RetrierCounted ==
  \A e \in Engines :
    /\ retrier[e].job # NoJob => Counted(failures, retrier[e].job)
    /\ \A job \in retrier[e].batch : Counted(failures, job)
ReaperCounted == \A e \in Engines : \A job \in reaper[e].batch : Counted(failures, job)

\* Nobody stops, hence no context is cancelled.
NeverStopping == \A e \in Engines : status[e] # "stopping"

AttemptsCounted ==
  StoredCounted /\ FetcherCounted /\ WorkerCounted /\ RetrierCounted /\ ReaperCounted

\* Parsing does not raise RetryCount.
LEMMA ParseCounted ==
  ASSUME NEW f, NEW data \in Bytes, Counted(f, data), f[data.jid] \in Nat
  PROVE  FromJSON(data) \in Job /\ Counted(f, FromJSON(data))
<1>1. data.retryCount \in Nat /\ Clamp(data.retryCount) \in Nat
      /\ Clamp(data.retryCount) <= data.retryCount
  BY RetryAssumption DEF Bytes, Clamp
<1>2. FromJSON(data).retryCount = Clamp(data.retryCount) /\ FromJSON(data).jid = data.jid
  BY DEF FromJSON
<1>. QED  BY <1>1, <1>2, FromJSONType DEF Counted

\* Enqueue of a counted job.
LEMMA EnqueueCounted ==
  ASSUME BrokerTypeOK, StoredCounted, failures' = failures, NEW job \in Job,
         Counted(failures, job), Enqueue(job.queue, job)
  PROVE  StoredCounted'
<1>. DEFINE q == job.queue
            data == ToJSON(job)
<1>1. /\ q \in Queues /\ data \in Bytes /\ Counted(failures, data)
      /\ queues' = [queues EXCEPT ![q] = Append(@, data)]
      /\ UNCHANGED <<processing, retry, dead>>
  BY ToJSONType DEF Job, Enqueue, ToJSON, Counted
<1>. HIDE DEF q, data
<1>2. ASSUME NEW r \in Queues, NEW i \in DOMAIN queues'[r]
      PROVE  Counted(failures, queues'[r][i])
  <2>1. queues'[r][i] = data \/ (i \in DOMAIN queues[r] /\ queues'[r][i] = queues[r][i])
    BY <1>1 DEF BrokerTypeOK
  <2>. QED  BY <1>1, <2>1 DEF StoredCounted
<1>. QED  BY <1>1, <1>2 DEF StoredCounted

\* Dequeue, and the job it returns.
LEMMA DequeueCounted ==
  ASSUME BrokerTypeOK, StoredCounted, failures \in [JIDs -> Nat], failures' = failures,
         NEW q \in Queues, Dequeue(q)
  PROVE  StoredCounted' /\ Counted(failures, DequeuedJob(q))
<1>1. /\ queues[q] \in Seq(Bytes) /\ queues[q] # <<>>
      /\ queues' = [queues EXCEPT ![q] = Tail(@)]
      /\ processing' = processing \cup {Head(queues[q])}
      /\ UNCHANGED <<retry, dead>>
  BY DEF BrokerTypeOK, Dequeue
<1>2. Head(queues[q]) \in Bytes /\ Counted(failures, Head(queues[q]))
  BY <1>1 DEF StoredCounted, BrokerTypeOK
<1>3. ASSUME NEW r \in Queues, NEW i \in DOMAIN queues'[r]
      PROVE  Counted(failures, queues'[r][i])
  <2>1. \E k \in DOMAIN queues[r] : queues'[r][i] = queues[r][k]
    BY <1>1 DEF BrokerTypeOK
  <2>. QED  BY <2>1 DEF StoredCounted
<1>4. StoredCounted'
  BY <1>1, <1>2, <1>3 DEF StoredCounted
<1>5. failures[Head(queues[q]).jid] \in Nat
  BY <1>2 DEF Bytes
<1>6. Counted(failures, FromJSON(Head(queues[q]))) /\ FromJSON(Head(queues[q])) \in Job
  BY <1>2, <1>5, ParseCounted
<1>7. Counted(failures, DequeuedJob(q))
  BY <1>6 DEF DequeuedJob, Counted, Job
<1>. QED  BY <1>4, <1>7

\* Commands that store nothing new.
LEMMA ShrinkingCounted ==
  ASSUME StoredCounted, failures' = failures, queues' = queues, processing' \subseteq processing,
         retry' \subseteq retry, dead' = dead
  PROVE  StoredCounted'
BY DEF StoredCounted

\* AddToRetry and AddToDead of a counted job.
LEMMA AddCounted ==
  ASSUME StoredCounted, failures' = failures, NEW job \in Job, Counted(failures, job),
         AddToRetry(job) \/ AddToDead(job)
  PROVE  StoredCounted'
<1>1. Counted(failures, ToJSON(job))
  BY DEF Counted, ToJSON
<1>. QED  BY <1>1 DEF StoredCounted, AddToRetry, AddToDead

\* A move of a fetcher with a counted job.
LEMMA FetcherGoesCounted ==
  ASSUME TypeOK, FetcherCounted, failures' = failures, NEW e \in Engines, NEW pc, NEW job,
         FetcherGoes(e, pc, job), job # NoJob => Counted(failures, job)
  PROVE  FetcherCounted'
BY DEF TypeOK, FetcherTypeOK, FetcherCounted, FetcherGoes

\* A move of a worker with a counted job.
LEMMA WorkerGoesCounted ==
  ASSUME TypeOK, WorkerCounted, failures' = failures, NEW s \in Slots, NEW pc, NEW job,
         WorkerGoes(s, pc, job), job # NoJob => Counted(failures, job)
  PROVE  WorkerCounted'
BY DEF TypeOK, WorkerTypeOK, WorkerCounted, WorkerGoes

\* A move of a retry loop with counted jobs.
LEMMA RetrierGoesCounted ==
  ASSUME TypeOK, RetrierCounted, failures' = failures, NEW e \in Engines, NEW pc, NEW job,
         NEW batch, RetrierGoes(e, pc, job, batch), job # NoJob => Counted(failures, job),
         \A j \in batch : Counted(failures, j)
  PROVE  RetrierCounted'
BY DEF TypeOK, RetrierTypeOK, RetrierCounted, RetrierGoes

\* A move of a reaper with counted jobs.
LEMMA ReaperGoesCounted ==
  ASSUME TypeOK, ReaperCounted, failures' = failures, NEW e \in Engines, NEW pc, NEW batch,
         ReaperGoes(e, pc, batch), \A j \in batch : Counted(failures, j)
  PROVE  ReaperCounted'
BY DEF TypeOK, ReaperCounted, ReaperGoes

\* Without errors a call is its command.
LEMMA CallSucceeds ==
  ASSUME TypeOK, Undisputed
  PROVE  ~Disturb("error") /\ ~Disturb("stop")
BY ExcludedNeverHappens DEF Undisputed, AllDisturbances

\* The state of a job does not enter its count.
LEMMA StateCounted ==
  ASSUME NEW f, NEW job \in Job, Counted(f, job), NEW state
  PROVE  Counted(f, [job EXCEPT !.state = state])
BY DEF Counted, Job

\* The steps of fetcher().
LEMMA FetcherKeepsCount ==
  ASSUME TypeOK, AttemptsCounted, Undisputed, NEW e \in Engines, Fetcher(e)
  PROVE  AttemptsCounted'
<1>. USE CallSucceeds DEF AttemptsCounted
<1>1. /\ BrokerTypeOK /\ failures \in [JIDs -> Nat]
      /\ fetcher[e].pc \in {"send", "fallback", "ack"} =>
           /\ fetcher[e].job \in Job /\ Counted(failures, fetcher[e].job)
  BY DEF TypeOK, HistoryTypeOK, FetcherTypeOK, Fetchers, FetcherCounted
<1>2. failures' = failures /\ UNCHANGED <<retrier, reaper>>
  BY DEF Fetcher, FetcherTop, FetcherPoll, FetcherSend, FetcherHandBack, FetcherFallback,
         FetcherAck, history
<1>3. RetrierCounted' /\ ReaperCounted'
  BY <1>2 DEF RetrierCounted, ReaperCounted
<1>4. CASE FetcherTop(e)
  <2>1. StoredCounted' /\ WorkerCounted'
    BY <1>2, <1>4, ShrinkingCounted DEF FetcherTop, brokerVars, WorkerCounted
  <2>2. FetcherCounted'
    BY <1>2, <1>4 DEF FetcherTop, FetcherGoes, FetcherPolls, FetcherCounted, TypeOK, FetcherTypeOK
  <2>. QED  BY <1>3, <2>1, <2>2
<1>5. CASE FetcherPoll(e)
  <2>1. CASE Dequeue(PolledQueue(e)) /\ FetcherGoes(e, "send", DequeuedJob(PolledQueue(e)))
    <3>1. StoredCounted' /\ Counted(failures, DequeuedJob(PolledQueue(e)))
      BY <1>1, <1>2, <2>1, DequeueCounted, PolledQueueType
    <3>2. FetcherCounted'
      BY <1>2, <2>1, <3>1, FetcherGoesCounted
    <3>. QED  BY <1>2, <1>3, <1>5, <3>1, <3>2 DEF FetcherPoll, WorkerCounted
  <2>2. CASE FetcherGoes(e, "top", NoJob) /\ UNCHANGED brokerVars
    <3>1. FetcherCounted' /\ StoredCounted'
      BY <1>2, <2>2, FetcherGoesCounted, ShrinkingCounted DEF brokerVars
    <3>. QED  BY <1>2, <1>3, <1>5, <3>1 DEF FetcherPoll, WorkerCounted
  <2>. QED  BY <1>5, <2>1, <2>2 DEF FetcherPoll, Call
<1>6. CASE FetcherSend(e)
  <2>. DEFINE job == [fetcher[e].job EXCEPT !.state = "active"]
  <2>1. Counted(failures, job)
    BY <1>1, <1>6, StateCounted DEF FetcherSend
  <2>2. PICK s \in Slots : WorkerGoes(s, "perform", job)
    BY <1>6 DEF FetcherSend, WorkerGoes
  <2>. HIDE DEF job
  <2>3. WorkerCounted'
    BY <1>2, <2>1, <2>2, WorkerGoesCounted
  <2>4. FetcherCounted' /\ StoredCounted'
    BY <1>2, <1>6, FetcherGoesCounted, ShrinkingCounted DEF FetcherSend, brokerVars
  <2>. QED  BY <1>3, <2>3, <2>4
<1>7. CASE FetcherHandBack(e)
  <2>. DEFINE job == [fetcher[e].job EXCEPT !.state = "pending"]
  <2>1. job \in Job /\ Counted(failures, job)
    BY <1>1, <1>7, StateCounted DEF FetcherHandBack, Job, JobState
  <2>2. Enqueue(job.queue, job) /\ FetcherGoes(e, "ack", job)
    BY <1>7 DEF FetcherHandBack, Call
  <2>. HIDE DEF job
  <2>3. StoredCounted' /\ FetcherCounted'
    BY <1>1, <1>2, <2>1, <2>2, EnqueueCounted, FetcherGoesCounted
  <2>. QED  BY <1>2, <1>3, <1>7, <2>3 DEF FetcherHandBack, WorkerCounted
<1>8. CASE FetcherFallback(e)
  <2>1. StoredCounted'
    BY <1>1, <1>2, <1>8, AddCounted DEF FetcherFallback, Call
  <2>2. FetcherCounted'
    BY <1>1, <1>2, <1>8, FetcherGoesCounted DEF FetcherFallback
  <2>. QED  BY <1>2, <1>3, <1>8, <2>1, <2>2 DEF FetcherFallback, WorkerCounted
<1>9. CASE FetcherAck(e)
  <2>1. StoredCounted'
    BY <1>2, <1>9, ShrinkingCounted DEF FetcherAck, Call, Ack
  <2>2. FetcherCounted'
    BY <1>2, <1>9, FetcherGoesCounted DEF FetcherAck
  <2>. QED  BY <1>2, <1>3, <1>9, <2>1, <2>2 DEF FetcherAck, WorkerCounted
<1>. QED  BY <1>4, <1>5, <1>6, <1>7, <1>8, <1>9 DEF Fetcher

\* The steps of worker(): the one that counts an attempt follows an error.
LEMMA WorkerKeepsCount ==
  ASSUME TypeOK, AttemptsCounted, Undisputed, NEW s \in Slots, Worker(s)
  PROVE  AttemptsCounted'
<1>. USE CallSucceeds DEF AttemptsCounted
<1>1. /\ worker[s].pc \in {"perform", "schedule", "ack"} =>
           /\ worker[s].job \in Job /\ Counted(failures, worker[s].job)
      /\ failures \in [JIDs -> Nat] /\ BrokerTypeOK
      /\ worker \in [Slots -> Workers]
  BY DEF TypeOK, HistoryTypeOK, WorkerTypeOK, Workers, WorkerCounted
<1>2. UNCHANGED <<fetcher, retrier, reaper>>
  BY DEF Worker, JobSucceeds, JobFails, JobMeetsOpenCircuit, WorkerSchedules, WorkerAcks,
         WorkerExits
<1>3. CASE JobFails(s)
  <2>. DEFINE old == worker[s].job
              job == FailedJob(old)
  <2>1. /\ old \in Job /\ Counted(failures, old)
        /\ job.jid = old.jid /\ job.retryCount = old.retryCount + 1
    BY <1>1, <1>3 DEF JobFails, FailedJob, Job
  <2>2. /\ RecordFailure(job) /\ WorkerGoes(s, "schedule", job)
        /\ failures' = [failures EXCEPT ![job.jid] = @ + 1]
    BY <1>3 DEF JobFails, Call
  <2>. HIDE DEF job, old
  <2>3. \A j \in JIDs : failures[j] \in Nat /\ failures'[j] \in Nat /\ failures[j] <= failures'[j]
    BY <1>1, <2>1, <2>2
  <2>4. ASSUME NEW x, x \in Job \cup Bytes, Counted(failures, x)
        PROVE  Counted(failures', x)
    <3>1. x.jid \in JIDs /\ x.retryCount \in Nat
      BY <2>4 DEF Job, Bytes
    <3>. QED  BY <2>3, <2>4, <3>1 DEF Counted
  <2>5. Counted(failures', job)
    <3>1. old.retryCount \in Nat /\ old.jid \in JIDs /\ old.retryCount <= failures[old.jid]
      BY <2>1 DEF Job, Counted
    <3>2. failures'[old.jid] = failures[old.jid] + 1
      BY <1>1, <2>1, <2>2, <3>1
    <3>. QED  BY <1>1, <2>1, <3>1, <3>2 DEF Counted
  <2>6. StoredCounted'
    <3>1. UNCHANGED <<queues, processing, retry, dead>>
      BY <2>2 DEF RecordFailure
    <3>2. \A q \in Queues : \A i \in DOMAIN queues[q] : queues[q][i] \in Bytes
      BY <1>1 DEF BrokerTypeOK
    <3>3. \A data \in processing \cup retry \cup dead : data \in Bytes
      BY <1>1 DEF BrokerTypeOK
    <3>. QED  BY <2>4, <3>1, <3>2, <3>3 DEF StoredCounted
  <2>7. FetcherCounted' /\ RetrierCounted' /\ ReaperCounted'
    BY <1>2, <2>4 DEF FetcherCounted, RetrierCounted, ReaperCounted, TypeOK, FetcherTypeOK, Fetchers,
                      RetrierTypeOK, Retriers, Reapers
  <2>8. WorkerCounted'
    <3>1. \A t \in Slots : worker[t].job # NoJob => worker[t].job \in Job
      BY <1>1 DEF Workers
    <3>2. \A t \in Slots : IF t = s THEN worker'[t].job = job ELSE worker'[t] = worker[t]
      BY <1>1, <2>2 DEF WorkerGoes
    <3>. QED  BY <2>4, <2>5, <3>1, <3>2 DEF WorkerCounted
  <2>. QED  BY <2>6, <2>7, <2>8
<1>4. CASE ~JobFails(s)
  <2>1. failures' = failures
    BY <1>4 DEF Worker, JobSucceeds, JobMeetsOpenCircuit, WorkerSchedules, WorkerAcks, WorkerExits,
                history
  <2>2. FetcherCounted' /\ RetrierCounted' /\ ReaperCounted'
    BY <1>2, <2>1 DEF FetcherCounted, RetrierCounted, ReaperCounted
  <2>3. CASE JobSucceeds(s) \/ JobMeetsOpenCircuit(s)
    <3>1. StoredCounted'
      BY <2>1, <2>3, ShrinkingCounted
         DEF JobSucceeds, JobMeetsOpenCircuit, Call, RecordSuccess, RecordFailure
    <3>2. PICK pc, state : WorkerGoes(s, pc, [worker[s].job EXCEPT !.state = state])
      BY <2>3 DEF JobSucceeds, JobMeetsOpenCircuit
    <3>. DEFINE job == [worker[s].job EXCEPT !.state = state]
    <3>3. Counted(failures, job) /\ WorkerGoes(s, pc, job)
      BY <1>1, <2>3, <3>2, StateCounted DEF JobSucceeds, JobMeetsOpenCircuit
    <3>. HIDE DEF job
    <3>4. WorkerCounted'
      BY <2>1, <3>3, WorkerGoesCounted
    <3>. QED  BY <2>2, <3>1, <3>4
  <2>4. CASE WorkerSchedules(s)
    <3>1. /\ worker[s].job \in Job /\ Counted(failures, worker[s].job)
          /\ AddToDead(worker[s].job) \/ AddToRetry(worker[s].job)
          /\ WorkerGoes(s, "ack", worker[s].job)
      BY <1>1, <2>4 DEF WorkerSchedules, Call
    <3>. QED  BY <2>1, <2>2, <3>1, AddCounted, WorkerGoesCounted
  <2>5. CASE WorkerAcks(s) \/ WorkerExits(s)
    <3>1. StoredCounted'
      BY <2>1, <2>5, ShrinkingCounted DEF WorkerAcks, WorkerExits, Call, Ack, brokerVars
    <3>2. WorkerCounted'
      BY <2>1, <2>5, WorkerGoesCounted DEF WorkerAcks, WorkerExits
    <3>. QED  BY <2>2, <3>1, <3>2
  <2>. QED  BY <1>4, <2>3, <2>4, <2>5 DEF Worker
<1>. QED  BY <1>3, <1>4

\* The steps of retryLoop(): without errors and stops its fallback is not reached.
LEMMA RetrierKeepsCount ==
  ASSUME TypeOK, AttemptsCounted, NeverStopping, Undisputed, NEW e \in Engines, Retrier(e)
  PROVE  AttemptsCounted'
<1>. USE CallSucceeds DEF AttemptsCounted
<1>1. /\ BrokerTypeOK /\ failures \in [JIDs -> Nat]
      /\ retrier[e].pc \in {"enqueue", "fallback"} =>
           /\ retrier[e].job \in Job /\ Counted(failures, retrier[e].job)
      /\ retrier[e].batch \in SUBSET Job /\ \A job \in retrier[e].batch : Counted(failures, job)
  BY DEF TypeOK, HistoryTypeOK, RetrierTypeOK, Retriers, RetrierCounted
<1>2. failures' = failures /\ UNCHANGED <<fetcher, worker, reaper>>
  BY DEF Retrier, RetryTick, RetrySkips, RetryRemoves, RetryEnqueues, RetryFallsBack, RetryExits,
         history
<1>3. FetcherCounted' /\ WorkerCounted' /\ ReaperCounted'
  BY <1>2 DEF FetcherCounted, WorkerCounted, ReaperCounted
<1>4. CASE RetryTick(e)
  <2>1. PICK batch \in Batches(due, RetryLimit) : RetrierGoes(e, "loop", NoJob, RetryJobs(batch))
    BY <1>4 DEF RetryTick
  <2>2. batch \in SUBSET retry
    BY <1>1, <2>1, BatchesType DEF BrokerTypeOK
  <2>3. ASSUME NEW data \in batch
        PROVE  Counted(failures, FromJSON(data))
    <3>1. data \in Bytes /\ Counted(failures, data) /\ failures[data.jid] \in Nat
      BY <1>1, <2>2 DEF BrokerTypeOK, StoredCounted, Bytes
    <3>. QED  BY <3>1, ParseCounted
  <2>4. \A job \in RetryJobs(batch) : Counted(failures, job)
    BY <2>3 DEF RetryJobs
  <2>5. RetrierCounted'
    BY <1>2, <2>1, <2>4, RetrierGoesCounted
  <2>6. StoredCounted'
    BY <1>2, <1>4, ShrinkingCounted DEF RetryTick, brokerVars
  <2>. QED  BY <1>3, <2>5, <2>6
<1>5. CASE RetrySkips(e) \/ RetryExits(e)
  <2>1. PICK pc \in {"loop", "exited"}, batch \in SUBSET retrier[e].batch :
          RetrierGoes(e, pc, NoJob, batch)
    BY <1>5 DEF RetrySkips, RetryExits
  <2>2. RetrierCounted'
    BY <1>1, <1>2, <2>1, RetrierGoesCounted
  <2>3. StoredCounted'
    BY <1>2, <1>5, ShrinkingCounted DEF RetrySkips, RetryExits, brokerVars
  <2>. QED  BY <1>3, <2>2, <2>3
<1>6. CASE RetryRemoves(e)
  <2>1. PICK job \in retrier[e].batch :
          /\ RemoveFromRetry(job)
          /\ RetrierGoes(e, "enqueue", [job EXCEPT !.state = "pending"], retrier[e].batch \ {job})
    BY <1>6 DEF RetryRemoves, Call
  <2>. DEFINE pending == [job EXCEPT !.state = "pending"]
              rest == retrier[e].batch \ {job}
  <2>2. /\ Counted(failures, pending)
        /\ \A j \in rest : Counted(failures, j)
        /\ RetrierGoes(e, "enqueue", pending, rest)
    BY <1>1, <2>1, StateCounted
  <2>. HIDE DEF pending, rest
  <2>3. RetrierCounted'
    BY <1>2, <2>2, RetrierGoesCounted
  <2>4. StoredCounted'
    BY <1>2, <2>1, ShrinkingCounted DEF RemoveFromRetry
  <2>. QED  BY <1>3, <2>3, <2>4
<1>7. CASE RetryEnqueues(e)
  <2>1. /\ retrier[e].job \in Job /\ Counted(failures, retrier[e].job)
        /\ Enqueue(retrier[e].job.queue, retrier[e].job)
        /\ RetrierGoes(e, "loop", NoJob, retrier[e].batch)
    BY <1>1, <1>7 DEF RetryEnqueues, CallWithEngineContext, Call, NeverStopping
  <2>. QED  BY <1>1, <1>2, <1>3, <2>1, EnqueueCounted, RetrierGoesCounted
<1>8. CASE RetryFallsBack(e)
  <2>1. /\ retrier[e].job \in Job /\ Counted(failures, retrier[e].job)
        /\ AddToDead(retrier[e].job) \/ AddToRetry(retrier[e].job)
        /\ RetrierGoes(e, "loop", NoJob, retrier[e].batch)
    BY <1>1, <1>8 DEF RetryFallsBack, Call
  <2>. QED  BY <1>1, <1>2, <1>3, <2>1, AddCounted, RetrierGoesCounted
<1>. QED  BY <1>4, <1>5, <1>6, <1>7, <1>8 DEF Retrier

\* The steps of reaperLoop().
LEMMA ReaperKeepsCount ==
  ASSUME TypeOK, AttemptsCounted, Undisputed, NEW e \in Engines, Reaper(e)
  PROVE  AttemptsCounted'
<1>. USE CallSucceeds DEF AttemptsCounted
<1>1. /\ BrokerTypeOK /\ failures \in [JIDs -> Nat]
      /\ reaper[e].batch \in SUBSET Job /\ \A job \in reaper[e].batch : Counted(failures, job)
  BY DEF TypeOK, HistoryTypeOK, Reapers, ReaperCounted
<1>2. failures' = failures /\ UNCHANGED <<fetcher, worker, retrier>>
  BY DEF Reaper, ReaperTick, ReaperSkips, ReaperEnqueues, ReaperExits, history
<1>3. FetcherCounted' /\ WorkerCounted' /\ RetrierCounted'
  BY <1>2 DEF FetcherCounted, WorkerCounted, RetrierCounted
<1>4. CASE ReaperTick(e)
  <2>1. PICK batch \in Batches(expired, ReapLimit) :
          ReapOrphanedJobs(batch) /\ ReaperGoes(e, "loop", OrphanedJobs(batch))
    BY <1>4 DEF ReaperTick, Call
  <2>2. batch \in SUBSET processing
    BY <1>1, <2>1, BatchesType DEF BrokerTypeOK
  <2>3. ASSUME NEW data \in batch
        PROVE  Counted(failures, [FromJSON(data) EXCEPT !.state = "pending", !.rawPayload = NoRaw])
    <3>1. data \in Bytes /\ Counted(failures, data) /\ failures[data.jid] \in Nat
      BY <1>1, <2>2 DEF BrokerTypeOK, StoredCounted, Bytes
    <3>2. FromJSON(data) \in Job /\ Counted(failures, FromJSON(data))
      BY <3>1, ParseCounted
    <3>. QED  BY <3>2 DEF Counted, Job
  <2>4. \A job \in OrphanedJobs(batch) : Counted(failures, job)
    BY <2>3 DEF OrphanedJobs
  <2>5. ReaperCounted' /\ StoredCounted'
    BY <1>2, <2>1, <2>4, ReaperGoesCounted, ShrinkingCounted DEF ReapOrphanedJobs
  <2>. QED  BY <1>3, <2>5
<1>5. CASE ReaperSkips(e) \/ ReaperExits(e)
  <2>1. StoredCounted'
    BY <1>2, <1>5, ShrinkingCounted DEF ReaperSkips, ReaperExits, brokerVars
  <2>2. ReaperCounted'
    BY <1>1, <1>2, <1>5, ReaperGoesCounted DEF ReaperSkips, ReaperExits
  <2>. QED  BY <1>3, <2>1, <2>2
<1>6. CASE ReaperEnqueues(e)
  <2>1. PICK job \in reaper[e].batch :
          /\ Enqueue(job.queue, job) \/ UNCHANGED brokerVars
          /\ ReaperGoes(e, "loop", reaper[e].batch \ {job})
    BY <1>6 DEF ReaperEnqueues, CallWithEngineContext, Call
  <2>2. StoredCounted'
    BY <1>1, <1>2, <2>1, EnqueueCounted, ShrinkingCounted DEF brokerVars
  <2>3. ReaperCounted'
    BY <1>1, <1>2, <2>1, ReaperGoesCounted
  <2>. QED  BY <1>3, <2>2, <2>3
<1>. QED  BY <1>4, <1>5, <1>6 DEF Reaper

\* Enqueue of a new job, which has no attempt behind it, and Clear.
LEMMA ClientKeepsCount ==
  ASSUME TypeOK, StoredCounted, Undisputed, NEW q \in Queues,
         ClearQueue(q) \/ \E jid \in JIDs : ClientEnqueue(jid, q)
  PROVE  StoredCounted'
<1>. USE CallSucceeds
<1>1. failures \in [JIDs -> Nat] /\ failures' = failures /\ BrokerTypeOK
  BY DEF TypeOK, HistoryTypeOK, ClearQueue, ClientEnqueue, history
<1>2. CASE ClearQueue(q)
  BY <1>1, <1>2 DEF ClearQueue, DeleteKey, StoredCounted, BrokerTypeOK
<1>3. ASSUME NEW jid \in JIDs, ClientEnqueue(jid, q)
      PROVE  StoredCounted'
  <2>1. PICK job \in {NewJob(jid, q)} \cup {SetRetry(NewJob(jid, q), n) : n \in RetryOptions} :
          Enqueue(q, job)
    BY <1>3 DEF ClientEnqueue, Call
  <2>2. job \in Job /\ job.queue = q /\ job.retryCount = 0 /\ job.jid = jid
    <3>1. /\ NewJob(jid, q) \in Job /\ NewJob(jid, q).queue = q
          /\ NewJob(jid, q).retryCount = 0 /\ NewJob(jid, q).jid = jid
      BY RetryAssumption DEF NewJob, Job, JobState
    <3>2. ASSUME NEW n \in RetryOptions
          PROVE  LET new == SetRetry(NewJob(jid, q), n)
                 IN  new \in Job /\ new.queue = q /\ new.retryCount = 0 /\ new.jid = jid
      <4>1. Clamp(n) \in 0..MaxRetryCount
        BY ClampType, ProcessorAssumption
      <4>. QED  BY <3>1, <4>1 DEF SetRetry, NewJob, Job
    <3>. QED  BY <3>1, <3>2
  <2>3. Counted(failures, job)
    BY <1>1, <2>2 DEF Counted
  <2>. QED  BY <1>1, <2>1, <2>2, <2>3, EnqueueCounted
<1>. QED  BY <1>2, <1>3

\* Start and Crash leave the goroutines without jobs.
LEMMA LifeKeepsCount ==
  ASSUME TypeOK, AttemptsCounted, NEW e \in Engines,
         Start(e) \/ Stop(e) \/ StopReturns(e) \/ Crash(e)
  PROVE  AttemptsCounted'
<1>. USE DEF AttemptsCounted
<1>1. failures' = failures
  BY DEF Start, Stop, StopReturns, Crash, history
<1>2. StoredCounted'
  BY <1>1, ShrinkingCounted DEF Start, Stop, StopReturns, Crash, brokerVars
<1>3. CASE Stop(e) \/ StopReturns(e)
  BY <1>1, <1>2, <1>3 DEF Stop, StopReturns, FetcherCounted, WorkerCounted, RetrierCounted,
                          ReaperCounted
<1>4. CASE Start(e) \/ Crash(e)
  <2>1. FetcherCounted'
    <3>1. PICK pc \in {"top", "exited"} :
            fetcher' = [fetcher EXCEPT ![e] = [pc |-> pc, job |-> NoJob, cursor |-> 0]]
      BY <1>4 DEF Start, Crash, NoFetcher
    <3>. QED  BY <1>1, <3>1 DEF FetcherCounted, TypeOK, FetcherTypeOK
  <2>2. WorkerCounted'
    BY <1>1, <1>4 DEF Start, Crash, NoWorker, WorkerCounted
  <2>3. RetrierCounted'
    <3>1. PICK pc \in {"loop", "exited"} : RetrierGoes(e, pc, NoJob, {})
      BY <1>4 DEF Start, Crash, NoRetrier, RetrierGoes
    <3>. QED  BY <1>1, <3>1, RetrierGoesCounted
  <2>4. ReaperCounted'
    <3>1. PICK pc \in {"loop", "exited"} : ReaperGoes(e, pc, {})
      BY <1>4 DEF Start, Crash, NoReaper, ReaperGoes
    <3>. QED  BY <1>1, <3>1, ReaperGoesCounted
  <2>. QED  BY <1>2, <2>1, <2>2, <2>3, <2>4
<1>. QED  BY <1>3, <1>4

\* Nobody stops.
LEMMA StepNeverStopping ==
  ASSUME TypeOK, NeverStopping, Undisputed, [Next]_vars
  PROVE  NeverStopping'
<1>1. status \in [Engines -> {"down", "running", "stopping"}]
  BY DEF TypeOK
<1>2. ASSUME NEW e \in Engines, Start(e) \/ Stop(e) \/ StopReturns(e) \/ Crash(e)
      PROVE  NeverStopping'
  BY <1>1, <1>2, CallSucceeds DEF Start, Stop, StopReturns, Crash, NeverStopping
<1>3. ASSUME NEW e \in Engines, Fetcher(e) \/ Retrier(e) \/ Reaper(e)
      PROVE  status' = status
  BY <1>3 DEF Fetcher, FetcherTop, FetcherPoll, FetcherSend, FetcherHandBack, FetcherFallback,
              FetcherAck, Retrier, RetryTick, RetrySkips, RetryRemoves, RetryEnqueues,
              RetryFallsBack, RetryExits, Reaper, ReaperTick, ReaperSkips, ReaperEnqueues,
              ReaperExits
<1>4. ASSUME NEW s \in Slots, Worker(s)
      PROVE  status' = status
  BY <1>4 DEF Worker, JobSucceeds, JobFails, JobMeetsOpenCircuit, WorkerSchedules, WorkerAcks,
              WorkerExits
<1>5. CASE status' = status
  BY <1>5 DEF NeverStopping
<1>. QED  BY <1>2, <1>3, <1>4, <1>5
          DEF Next, vars, engineVars, ClientEnqueue, ClearQueue, OrphanLeaseExpires,
              HeldLeaseExpires, BackoffEnds

\* Every copy of a job counts at most the attempts that really failed.
LEMMA StepCounted ==
  ASSUME TypeOK, NeverStopping, AttemptsCounted, Undisputed, [Next]_vars
  PROVE  AttemptsCounted'
<1>1. CASE UNCHANGED <<fetcher, worker, retrier, reaper, failures>> /\ StoredCounted'
  BY <1>1 DEF AttemptsCounted, FetcherCounted, WorkerCounted, RetrierCounted, ReaperCounted
<1>2. ASSUME NEW q \in Queues, ClearQueue(q) \/ \E jid \in JIDs : ClientEnqueue(jid, q)
      PROVE  AttemptsCounted'
  <2>1. StoredCounted'
    BY <1>2, ClientKeepsCount DEF AttemptsCounted
  <2>2. UNCHANGED <<fetcher, worker, retrier, reaper, failures>>
    BY <1>2 DEF ClearQueue, ClientEnqueue, engineVars, history
  <2>. QED  BY <1>1, <2>1, <2>2
<1>3. ASSUME NEW e \in Engines, Start(e) \/ Stop(e) \/ StopReturns(e) \/ Crash(e)
      PROVE  AttemptsCounted'
  BY <1>3, LifeKeepsCount
<1>4. ASSUME NEW e \in Engines, Fetcher(e) \/ Retrier(e) \/ Reaper(e)
      PROVE  AttemptsCounted'
  BY <1>4, FetcherKeepsCount, RetrierKeepsCount, ReaperKeepsCount
<1>5. ASSUME NEW s \in Slots, Worker(s)
      PROVE  AttemptsCounted'
  BY <1>5, WorkerKeepsCount
<1>6. ASSUME NEW data, OrphanLeaseExpires(data) \/ HeldLeaseExpires(data) \/ BackoffEnds(data)
      PROVE  AttemptsCounted'
  <2>1. UNCHANGED <<queues, processing, retry, dead, fetcher, worker, retrier, reaper, failures>>
    BY <1>6 DEF OrphanLeaseExpires, HeldLeaseExpires, BackoffEnds, LeaseExpires, RetryFallsDue,
                engineVars, history
  <2>2. StoredCounted'
    BY <2>1, ShrinkingCounted DEF AttemptsCounted
  <2>. QED  BY <1>1, <2>1, <2>2
<1>7. CASE UNCHANGED vars
  <2>1. UNCHANGED <<queues, processing, retry, dead, fetcher, worker, retrier, reaper, failures>>
    BY <1>7 DEF vars, brokerVars, engineVars, history
  <2>2. StoredCounted'
    BY <2>1, ShrinkingCounted DEF AttemptsCounted
  <2>. QED  BY <1>1, <2>1, <2>2
<1>. QED  BY <1>2, <1>3, <1>4, <1>5, <1>6, <1>7 DEF Next

\* A job is dead only after retry + 1 attempts that really failed, however slow
\* the engines are, whatever crashes and however often the job is duplicated,
\* as long as no Redis call fails and no engine is stopped.  (With a Stop it is
\* not so: the run dead_by_stop shows a job buried an attempt early.)
THEOREM DeadOnlyAfterFailures ==
  ASSUME Undisputed
  PROVE  Spec => []DeadAfterAllAttempts
<1>1. Init => NeverStopping /\ AttemptsCounted
  BY DEF Init, BrokerInit, NeverStopping, AttemptsCounted, StoredCounted, FetcherCounted,
         WorkerCounted, RetrierCounted, ReaperCounted, NoFetcher, NoWorker, NoRetrier, NoReaper
<1>2. TypeOK /\ NeverStopping /\ AttemptsCounted /\ [Next]_vars
        => NeverStopping' /\ AttemptsCounted'
  BY StepNeverStopping, StepCounted
<1>3. TypeOK /\ RetryBudget /\ AttemptsCounted => DeadAfterAllAttempts
  <2>. SUFFICES ASSUME TypeOK, RetryBudget, AttemptsCounted, NEW data \in dead
                PROVE  failures[data.jid] >= data.retry + 1
    BY DEF DeadAfterAllAttempts
  <2>1. data.retryCount = data.retry + 1 /\ data.retryCount <= failures[data.jid]
    BY DEF RetryBudget, AttemptsCounted, StoredCounted, Counted
  <2>2. data.retry \in Nat /\ failures[data.jid] \in Nat
    BY RetryAssumption DEF TypeOK, BrokerTypeOK, HistoryTypeOK, Bytes
  <2>. QED  BY <2>1, <2>2
<1>. QED  BY <1>1, <1>2, <1>3, TypeCorrect, BudgetKept, PTL DEF Spec
=============================================================================
