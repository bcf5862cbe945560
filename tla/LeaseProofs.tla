---------------------------- MODULE LeaseProofs ----------------------------
(***************************************************************************)
(* What leases do.  In one engine whose calls succeed, whose leases hold   *)
(* and which does not crash, no job runs twice at a time, leases are those *)
(* of the jobs in hand, Stop leaves none behind, and each job follows the  *)
(* life cycle of JobLifecycle.  In any number of engines, a crash loses no *)
(* job that a fetcher or a worker had.                                     *)
(*                                                                         *)
(* OneExecutor speaks of the workers only.  It rests on the copies of a    *)
(* job everywhere: at each moment a job is in at most one place (a queue,  *)
(* the retry set, the fetcher, one worker, the retry loop), and the retry  *)
(* loop's batch is in the retry set still.  With two engines that is       *)
(* false, since both may take the same job from the retry set.             *)
(***************************************************************************)
EXTENDS DeliveryProofs

Calm == Excluded("error") /\ Excluded("crash") /\ Excluded("slow")
Alone == \A e, f \in Engines : e = f

FetcherHolds(jid) == \E e \in Engines : FetcherHas(e, jid)
WorkerHolds(jid)  == \E s \in Slots : WorkerHas(s, jid)
RetrierHolds(jid) == \E e \in Engines : RetrierHas(e, jid)

QueueOnce ==
  \A q, r \in Queues : \A i \in DOMAIN queues[q] : \A k \in DOMAIN queues[r] :
    queues[q][i].jid = queues[r][k].jid => q = r /\ i = k

RetryOnce == \A a, b \in retry : a.jid = b.jid => a = b

WorkersApart ==
  \A s, t \in Slots, jid \in JIDs : WorkerHas(s, jid) /\ WorkerHas(t, jid) => s = t

PlacesApart ==
  \A jid \in JIDs :
    /\ Queued(jid) =>
         ~InRetry(jid) /\ ~FetcherHolds(jid) /\ ~WorkerHolds(jid) /\ ~RetrierHolds(jid)
    /\ InRetry(jid) => ~FetcherHolds(jid) /\ ~WorkerHolds(jid) /\ ~RetrierHolds(jid)
    /\ FetcherHolds(jid) => ~WorkerHolds(jid) /\ ~RetrierHolds(jid)
    /\ WorkerHolds(jid) => ~RetrierHolds(jid)

\* A job is in at most one place, and there once.
Apart == QueueOnce /\ RetryOnce /\ WorkersApart /\ PlacesApart

\* Nothing is there of a job that no client has enqueued.
Known ==
  \A jid \in JIDs : client[jid] = "none" =>
    ~Queued(jid) /\ ~InRetry(jid) /\ ~FetcherHolds(jid) /\ ~WorkerHolds(jid) /\ ~RetrierHolds(jid)

\* Only the retry loop takes jobs out of the retry set.
InBatch(job) == ToJSON(job) \in retry /\ job.rawPayload = NoRaw
BatchInRetry == \A e \in Engines : \A job \in retrier[e].batch : InBatch(job)

\* Nothing is there for the reaper.
NothingToReap == expired = {} /\ \A e \in Engines : reaper[e].batch = {}

Placed == Apart /\ Known /\ BatchInRetry /\ NothingToReap

\* Every lease is of a job in somebody's hands.
AllHeld == \A data \in processing : Held(data)

\* The bytes that Ack removes are those of the dequeue.
Raw(job) == job.rawPayload \in Bytes /\ job.rawPayload.jid = job.jid
RawKept ==
  /\ \A e \in Engines : fetcher[e].job # NoJob => Raw(fetcher[e].job)
  /\ \A s \in Slots : worker[s].job # NoJob => Raw(worker[s].job)

\* Under Calm no call fails, no process crashes and no held lease runs out.
LEMMA CalmCalls ==
  ASSUME TypeOK, Calm
  PROVE  ~Disturb("error") /\ ~Disturb("crash") /\ ~Disturb("slow")
BY ExcludedNeverHappens DEF Calm, AllDisturbances

\* With errors excluded, a call is its command.
LEMMA CallsSucceed ==
  ASSUME TypeOK, Excluded("error")
  PROVE  ~Disturb("error")
BY ExcludedNeverHappens DEF AllDisturbances

-----------------------------------------------------------------------------
(* What moves change, in the only engine. *)

\* A move of the fetcher.
LEMMA FetcherMoves ==
  ASSUME TypeOK, Alone, NEW e \in Engines, NEW pc, NEW job, FetcherGoes(e, pc, job)
  PROVE  \A jid \in JIDs :
           /\ FetcherHolds(jid)' <=> pc \in {"send", "fallback"} /\ job.jid = jid
           /\ FetcherHolds(jid) <=> FetcherHas(e, jid)
<1>1. \A f \in Engines, jid \in JIDs :
        FetcherHas(f, jid)' <=> IF f = e THEN pc \in {"send", "fallback"} /\ job.jid = jid
                                         ELSE FetcherHas(f, jid)
  BY FetcherPlaces
<1>2. \A f \in Engines : f = e
  BY DEF Alone
<1>. QED  BY <1>1, <1>2 DEF FetcherHolds

\* A move of the retry loop.
LEMMA RetrierMoves ==
  ASSUME TypeOK, Alone, NEW e \in Engines, NEW pc, NEW job, NEW batch,
         RetrierGoes(e, pc, job, batch)
  PROVE  /\ \A jid \in JIDs :
              /\ RetrierHolds(jid)' <=> pc \in {"enqueue", "fallback"} /\ job.jid = jid
              /\ RetrierHolds(jid) <=> RetrierHas(e, jid)
         /\ \A f \in Engines : retrier'[f].batch = batch
<1>1. \A f \in Engines, jid \in JIDs :
        RetrierHas(f, jid)' <=> IF f = e THEN pc \in {"enqueue", "fallback"} /\ job.jid = jid
                                         ELSE RetrierHas(f, jid)
  BY RetrierPlaces
<1>2. \A f \in Engines : f = e
  BY DEF Alone
<1>3. retrier'[e].batch = batch
  BY DEF RetrierGoes, TypeOK, RetrierTypeOK
<1>. QED  BY <1>1, <1>2, <1>3 DEF RetrierHolds

\* A place that does not change holds the same jobs.
LEMMA SameHolders ==
  /\ fetcher' = fetcher => \A jid : FetcherHolds(jid)' <=> FetcherHolds(jid)
  /\ worker' = worker => /\ \A jid : WorkerHolds(jid)' <=> WorkerHolds(jid)
                         /\ WorkersApart => WorkersApart'
  /\ retrier' = retrier => \A jid : RetrierHolds(jid)' <=> RetrierHolds(jid)
  /\ queues' = queues => /\ \A jid : Queued(jid)' <=> Queued(jid)
                         /\ QueueOnce => QueueOnce'
  /\ retry' = retry => /\ \A jid : InRetry(jid)' <=> InRetry(jid)
                       /\ RetryOnce => RetryOnce'
  /\ retry' = retry /\ retrier' = retrier => (BatchInRetry => BatchInRetry')
  /\ expired' = expired /\ reaper' = reaper => (NothingToReap => NothingToReap')
BY SamePlaces DEF FetcherHolds, WorkerHolds, RetrierHolds, WorkersApart, QueueOnce, RetryOnce,
                  BatchInRetry, InBatch, NothingToReap

\* A job leaves worker s, or changes its program point there.
LEMMA WorkerMoves ==
  ASSUME TypeOK, WorkersApart, NEW s \in Slots, NEW pc, NEW job, WorkerGoes(s, pc, job),
         \A jid \in JIDs : pc \in {"perform", "schedule"} /\ job.jid = jid => WorkerHas(s, jid)
  PROVE  /\ WorkersApart'
         /\ \A jid \in JIDs : WorkerHolds(jid)' => WorkerHolds(jid)
         /\ \A jid \in JIDs : pc \notin {"perform", "schedule"} /\ WorkerHas(s, jid)
              => ~WorkerHolds(jid)'
<1>1. \A t \in Slots, jid \in JIDs :
        WorkerHas(t, jid)' <=> IF t = s THEN pc \in {"perform", "schedule"} /\ job.jid = jid
                                        ELSE WorkerHas(t, jid)
  BY WorkerPlaces
<1>. QED  BY <1>1 DEF WorkersApart, WorkerHolds

\* A free worker takes a job that none has.
LEMMA WorkerTakes ==
  ASSUME TypeOK, WorkersApart, NEW s \in Slots, NEW pc, NEW job, WorkerGoes(s, pc, job),
         pc \in {"perform", "schedule"}, ~WorkerHolds(job.jid),
         \A jid \in JIDs : ~WorkerHas(s, jid)
  PROVE  /\ WorkersApart'
         /\ \A jid \in JIDs : WorkerHolds(jid)' <=> WorkerHolds(jid) \/ jid = job.jid
<1>1. \A t \in Slots, jid \in JIDs :
        WorkerHas(t, jid)' <=> IF t = s THEN job.jid = jid ELSE WorkerHas(t, jid)
  BY WorkerPlaces
<1>. QED  BY <1>1 DEF WorkersApart, WorkerHolds

\* Enqueue of a job that is in no queue.
LEMMA EnqueueOnce ==
  ASSUME BrokerTypeOK, QueueOnce, NEW job \in Job, ~Queued(job.jid), Enqueue(job.queue, job)
  PROVE  QueueOnce'
<1>. DEFINE q == job.queue
            data == ToJSON(job)
<1>1. /\ q \in Queues /\ data \in Bytes /\ data.jid = job.jid
      /\ queues' = [queues EXCEPT ![q] = Append(@, data)]
  BY ToJSONType DEF ToJSON, Job, Enqueue
<1>. HIDE DEF q, data
<1>2. /\ queues[q] \in Seq(Bytes)
      /\ queues'[q] = Append(queues[q], data)
      /\ \A r \in Queues \ {q} : queues'[r] = queues[r]
  BY <1>1 DEF BrokerTypeOK
<1>3. \A i \in DOMAIN queues'[q] :
        \/ i \in DOMAIN queues[q] /\ queues'[q][i] = queues[q][i]
        \/ i = Len(queues[q]) + 1 /\ queues'[q][i] = data
  BY <1>1, <1>2
<1>4. \A r \in Queues : \A i \in DOMAIN queues'[r] :
        \/ i \in DOMAIN queues[r] /\ queues'[r][i] = queues[r][i] /\ queues[r][i].jid # data.jid
        \/ r = q /\ i = Len(queues[q]) + 1 /\ queues'[r][i] = data
  BY <1>1, <1>2, <1>3 DEF Queued
<1>. QED  BY <1>4 DEF QueueOnce

\* Dequeue takes the only copy in the queues.
LEMMA DequeueOnce ==
  ASSUME BrokerTypeOK, QueueOnce, NEW q \in Queues, Dequeue(q)
  PROVE  QueueOnce' /\ \A jid \in JIDs : Queued(jid)' => jid # DequeuedJob(q).jid
<1>1. /\ queues[q] \in Seq(Bytes) /\ queues[q] # <<>>
      /\ queues'[q] = Tail(queues[q])
      /\ \A r \in Queues \ {q} : queues'[r] = queues[r]
      /\ DequeuedJob(q).jid = Head(queues[q]).jid
  BY DequeueType DEF BrokerTypeOK, Dequeue
<1>2. \A i \in DOMAIN queues'[q] :
        /\ i \in Int /\ i + 1 \in DOMAIN queues[q] /\ i + 1 # 1
        /\ queues'[q][i] = queues[q][i + 1]
  BY <1>1
<1>3. 1 \in DOMAIN queues[q] /\ queues[q][1] = Head(queues[q])
  BY <1>1
<1>4. ASSUME NEW r \in Queues, NEW i \in DOMAIN queues'[r],
             queues'[r][i].jid = DequeuedJob(q).jid
      PROVE  FALSE
  <2>1. CASE r = q
    <3>1. queues[q][i + 1].jid = queues[q][1].jid /\ i + 1 # 1 /\ i + 1 \in DOMAIN queues[q]
      BY <1>1, <1>2, <1>3, <1>4, <2>1
    <3>. QED  BY <1>3, <3>1 DEF QueueOnce
  <2>2. CASE r # q
    <3>1. queues[r][i].jid = queues[q][1].jid /\ i \in DOMAIN queues[r]
      BY <1>1, <1>3, <1>4, <2>2
    <3>. QED  BY <1>3, <2>2, <3>1 DEF QueueOnce
  <2>. QED  BY <2>1, <2>2
<1>5. ASSUME NEW r \in Queues, NEW t \in Queues, NEW i \in DOMAIN queues'[r],
             NEW k \in DOMAIN queues'[t], queues'[r][i].jid = queues'[t][k].jid
      PROVE  r = t /\ i = k
  <2>1. CASE r = q /\ t = q
    <3>1. i + 1 = k + 1 /\ i \in Int /\ k \in Int
      BY <1>2, <1>5, <2>1 DEF QueueOnce
    <3>. QED  BY <2>1, <3>1
  <2>2. CASE r = q /\ t # q
    <3>1. /\ i + 1 \in DOMAIN queues[q] /\ k \in DOMAIN queues[t]
          /\ queues[q][i + 1].jid = queues[t][k].jid
      BY <1>1, <1>2, <1>5, <2>2
    <3>. QED  BY <2>2, <3>1 DEF QueueOnce
  <2>3. CASE r # q /\ t = q
    <3>1. /\ i \in DOMAIN queues[r] /\ k + 1 \in DOMAIN queues[q]
          /\ queues[r][i].jid = queues[q][k + 1].jid
      BY <1>1, <1>2, <1>5, <2>3
    <3>. QED  BY <2>3, <3>1 DEF QueueOnce
  <2>4. CASE r # q /\ t # q
    BY <1>1, <1>5, <2>4 DEF QueueOnce
  <2>. QED  BY <2>1, <2>2, <2>3, <2>4
<1>6. \A jid \in JIDs : Queued(jid)' => jid # DequeuedJob(q).jid
  BY <1>4 DEF Queued
<1>7. QueueOnce'
  BY <1>5 DEF QueueOnce
<1>. QED  BY <1>6, <1>7

\* AddToRetry of a job that is not in the retry set.
LEMMA AddToRetryOnce ==
  ASSUME RetryOnce, BatchInRetry, NEW job, ~InRetry(job.jid), AddToRetry(job),
         \A e \in Engines : retrier'[e].batch = retrier[e].batch
  PROVE  RetryOnce' /\ BatchInRetry'
<1>1. retry' = retry \cup {ToJSON(job)} /\ ToJSON(job).jid = job.jid
  BY DEF AddToRetry, ToJSON
<1>2. RetryOnce'
  BY <1>1 DEF RetryOnce, InRetry
<1>3. BatchInRetry'
  BY <1>1 DEF BatchInRetry, InBatch
<1>. QED  BY <1>2, <1>3

-----------------------------------------------------------------------------
(* Each goroutine keeps the copies of a job apart. *)

\* fetcher() takes a job out of its queue, and puts back the one it has.
LEMMA FetcherKeepsApart ==
  ASSUME TypeOK, Calm, Alone, Placed, NEW e \in Engines, Fetcher(e)
  PROVE  Placed'
<1>. USE CalmCalls
<1>1. /\ BrokerTypeOK
      /\ fetcher[e].pc \in {"send", "fallback", "ack"} => fetcher[e].job \in Job
      /\ \A jid \in JIDs : FetcherHolds(jid) <=> FetcherHas(e, jid)
      /\ UNCHANGED <<client, retrier, reaper>>
  BY DEF TypeOK, FetcherTypeOK, Fetchers, Fetcher, FetcherTop, FetcherPoll, FetcherSend,
         FetcherHandBack, FetcherFallback, FetcherAck, history, Alone, FetcherHolds
<1>2. QueueOnce /\ RetryOnce /\ WorkersApart /\ PlacesApart /\ Known /\ BatchInRetry /\ NothingToReap
  BY DEF Placed, Apart
<1>3. CASE FetcherTop(e)
  <2>1. UNCHANGED <<queues, retry, expired, worker>>
    BY <1>3 DEF FetcherTop, brokerVars
  <2>2. \A jid \in JIDs : ~FetcherHolds(jid)'
    <3>1. CASE FetcherPolls(e)
      BY <3>1 DEF FetcherPolls, FetcherHolds, FetcherHas, Alone, TypeOK, FetcherTypeOK
    <3>2. CASE FetcherGoes(e, "exited", NoJob)
      BY <3>2, FetcherMoves
    <3>. QED  BY <1>3, <3>1, <3>2 DEF FetcherTop
  <2>. QED  BY <1>1, <1>2, <2>1, <2>2, SameHolders DEF Placed, Apart, PlacesApart, Known
<1>4. CASE FetcherPoll(e)
  <2>1. CASE Dequeue(PolledQueue(e)) /\ FetcherGoes(e, "send", DequeuedJob(PolledQueue(e)))
    <3>1. /\ Queued(DequeuedJob(PolledQueue(e)).jid) /\ DequeuedJob(PolledQueue(e)) \in Job
          /\ \A jid \in JIDs : Queued(jid)' => Queued(jid)
      BY <1>1, <2>1, DequeueQueues, DequeueType, PolledQueueType
    <3>2. QueueOnce' /\ \A jid \in JIDs : Queued(jid)' => jid # DequeuedJob(PolledQueue(e)).jid
      BY <1>1, <1>2, <2>1, DequeueOnce, PolledQueueType
    <3>3. UNCHANGED <<retry, worker>> /\ NothingToReap'
      BY <1>1, <1>2, <1>4, <2>1 DEF FetcherPoll, Dequeue, NothingToReap
    <3>4. \A jid \in JIDs : FetcherHolds(jid)' <=> jid = DequeuedJob(PolledQueue(e)).jid
      BY <2>1, FetcherMoves
    <3>5. DequeuedJob(PolledQueue(e)).jid \in JIDs
      BY <3>1 DEF Job
    <3>. QED  BY <1>1, <1>2, <3>1, <3>2, <3>3, <3>4, SameHolders
              DEF Placed, Apart, PlacesApart, Known
  <2>2. CASE FetcherGoes(e, "top", NoJob) /\ UNCHANGED brokerVars
    <3>1. UNCHANGED <<queues, retry, expired, worker>>
      BY <1>4, <2>2 DEF FetcherPoll, brokerVars
    <3>2. \A jid \in JIDs : ~FetcherHolds(jid)'
      BY <2>2, FetcherMoves
    <3>. QED  BY <1>1, <1>2, <3>1, <3>2, SameHolders DEF Placed, Apart, PlacesApart, Known
  <2>. QED  BY <1>4, <2>1, <2>2 DEF FetcherPoll, Call
<1>5. CASE FetcherSend(e)
  <2>. DEFINE job == [fetcher[e].job EXCEPT !.state = "active"]
  <2>1. UNCHANGED <<queues, retry, expired>> /\ FetcherGoes(e, "top", NoJob)
    BY <1>5 DEF FetcherSend, brokerVars
  <2>2. \A jid \in JIDs : ~FetcherHolds(jid)'
    BY <2>1, FetcherMoves
  <2>3. job.jid = fetcher[e].job.jid /\ fetcher[e].job.jid \in JIDs
    BY <1>1, <1>5 DEF FetcherSend, Job
  <2>4. FetcherHolds(fetcher[e].job.jid)
    BY <1>5 DEF FetcherHolds, FetcherHas, FetcherSend
  <2>5. PICK s \in Slots : worker[s].pc = "idle" /\ WorkerGoes(s, "perform", job)
    BY <1>5 DEF FetcherSend, WorkerGoes
  <2>. HIDE DEF job
  <2>6. /\ ~WorkerHolds(job.jid)
        /\ \A jid \in JIDs : ~WorkerHas(s, jid)
    BY <1>2, <2>3, <2>4, <2>5 DEF PlacesApart, WorkerHas
  <2>7. /\ WorkersApart'
        /\ \A jid \in JIDs : WorkerHolds(jid)' <=> WorkerHolds(jid) \/ jid = fetcher[e].job.jid
    BY <1>2, <2>3, <2>5, <2>6, WorkerTakes
  <2>. QED  BY <1>1, <1>2, <2>1, <2>2, <2>3, <2>4, <2>7, SameHolders
            DEF Placed, Apart, PlacesApart, Known
<1>6. CASE FetcherHandBack(e)
  <2>. DEFINE job == [fetcher[e].job EXCEPT !.state = "pending"]
  <2>1. job \in Job /\ job.jid = fetcher[e].job.jid /\ job.jid \in JIDs
    BY <1>1, <1>6 DEF FetcherHandBack, Job, JobState
  <2>2. Enqueue(job.queue, job) /\ FetcherGoes(e, "ack", job) /\ worker' = worker
    BY <1>6 DEF FetcherHandBack, Call
  <2>3. FetcherHolds(job.jid)
    BY <1>6, <2>1 DEF FetcherHolds, FetcherHas, FetcherHandBack
  <2>. HIDE DEF job
  <2>4. QueueOnce' /\ \A jid \in JIDs : Queued(jid)' <=> Queued(jid) \/ jid = job.jid
    BY <1>1, <1>2, <2>1, <2>2, <2>3, EnqueueOnce, EnqueueQueues DEF PlacesApart
  <2>5. UNCHANGED <<retry, expired>>
    BY <2>2 DEF Enqueue
  <2>6. \A jid \in JIDs : ~FetcherHolds(jid)'
    BY <2>2, FetcherMoves
  <2>. QED  BY <1>1, <1>2, <2>1, <2>2, <2>3, <2>4, <2>5, <2>6, SameHolders
            DEF Placed, Apart, PlacesApart, Known
<1>7. CASE FetcherFallback(e)
  <2>. DEFINE job == fetcher[e].job
  <2>1. job \in Job /\ job.jid \in JIDs
    BY <1>1, <1>7 DEF FetcherFallback, Job
  <2>2. AddToRetry(job) /\ FetcherGoes(e, "ack", job) /\ worker' = worker
    BY <1>7 DEF FetcherFallback, Call
  <2>3. FetcherHolds(job.jid)
    BY <1>7 DEF FetcherHolds, FetcherHas, FetcherFallback
  <2>. HIDE DEF job
  <2>4. /\ RetryOnce' /\ BatchInRetry'
        /\ \A jid \in JIDs : InRetry(jid)' <=> InRetry(jid) \/ jid = job.jid
    BY <1>1, <1>2, <2>1, <2>2, <2>3, AddToRetryOnce, AddToRetryAdds DEF PlacesApart
  <2>5. UNCHANGED <<queues, expired>>
    BY <2>2 DEF AddToRetry
  <2>6. \A jid \in JIDs : ~FetcherHolds(jid)'
    BY <2>2, FetcherMoves
  <2>. QED  BY <1>1, <1>2, <2>1, <2>2, <2>3, <2>4, <2>5, <2>6, SameHolders
            DEF Placed, Apart, PlacesApart, Known
<1>8. CASE FetcherAck(e)
  <2>1. Ack(fetcher[e].job) /\ FetcherGoes(e, "exited", NoJob) /\ worker' = worker
    BY <1>8 DEF FetcherAck, Call
  <2>2. UNCHANGED <<queues, retry>> /\ NothingToReap'
    BY <1>1, <1>2, <2>1 DEF Ack, NothingToReap
  <2>3. \A jid \in JIDs : ~FetcherHolds(jid)'
    BY <2>1, FetcherMoves
  <2>. QED  BY <1>1, <1>2, <2>1, <2>2, <2>3, SameHolders DEF Placed, Apart, PlacesApart, Known
<1>. QED  BY <1>3, <1>4, <1>5, <1>6, <1>7, <1>8 DEF Fetcher

\* processJob() settles the job of its worker, which nobody else has.
LEMMA WorkerKeepsApart ==
  ASSUME TypeOK, Calm, Placed, NEW s \in Slots, Worker(s)
  PROVE  Placed'
<1>. USE CalmCalls
<1>1. /\ BrokerTypeOK
      /\ worker[s].pc \in {"perform", "schedule", "ack"} => worker[s].job \in Job
      /\ UNCHANGED <<client, fetcher, retrier, reaper>>
  BY DEF TypeOK, WorkerTypeOK, Workers, Worker, JobSucceeds, JobFails, JobMeetsOpenCircuit,
         WorkerSchedules, WorkerAcks, WorkerExits, history
<1>2. QueueOnce /\ RetryOnce /\ WorkersApart /\ PlacesApart /\ Known /\ BatchInRetry /\ NothingToReap
  BY DEF Placed, Apart
<1>3. ASSUME NEW pc, NEW job, WorkerGoes(s, pc, job), UNCHANGED <<queues, retry>>,
             NothingToReap',
             pc \in {"perform", "schedule"} => WorkerHas(s, job.jid)
      PROVE  Placed'
  <2>1. WorkersApart' /\ \A jid \in JIDs : WorkerHolds(jid)' => WorkerHolds(jid)
    BY <1>2, <1>3, WorkerMoves
  <2>. QED  BY <1>1, <1>2, <1>3, <2>1, SameHolders DEF Placed, Apart, PlacesApart, Known
<1>4. CASE JobSucceeds(s)
  <2>. DEFINE job == [worker[s].job EXCEPT !.state = "success"]
  <2>1. WorkerGoes(s, "ack", job) /\ UNCHANGED <<queues, retry, expired>>
    BY <1>4 DEF JobSucceeds, Call, RecordSuccess
  <2>. HIDE DEF job
  <2>. QED  BY <1>1, <1>2, <1>3, <2>1, SameHolders
<1>5. CASE JobFails(s)
  <2>. DEFINE job == FailedJob(worker[s].job)
  <2>1. WorkerGoes(s, "schedule", job) /\ UNCHANGED <<queues, retry, expired>>
    BY <1>5 DEF JobFails, Call, RecordFailure
  <2>2. WorkerHas(s, job.jid)
    BY <1>1, <1>5, FailedJobType DEF JobFails, WorkerHas
  <2>. HIDE DEF job
  <2>. QED  BY <1>1, <1>2, <1>3, <2>1, <2>2, SameHolders
<1>6. CASE JobMeetsOpenCircuit(s)
  <2>. DEFINE job == [worker[s].job EXCEPT !.state = "pending"]
  <2>1. WorkerGoes(s, "schedule", job) /\ UNCHANGED <<queues, retry, expired>>
    BY <1>6 DEF JobMeetsOpenCircuit, Call, RecordFailure
  <2>2. WorkerHas(s, job.jid)
    BY <1>1, <1>6 DEF JobMeetsOpenCircuit, WorkerHas, Job
  <2>. HIDE DEF job
  <2>. QED  BY <1>1, <1>2, <1>3, <2>1, <2>2, SameHolders
<1>7. CASE WorkerSchedules(s)
  <2>. DEFINE job == worker[s].job
  <2>1. WorkerGoes(s, "ack", job) /\ (AddToDead(job) \/ AddToRetry(job))
    BY <1>7 DEF WorkerSchedules, Call
  <2>2. WorkerHas(s, job.jid) /\ job.jid \in JIDs
    BY <1>1, <1>7 DEF WorkerSchedules, WorkerHas, Job
  <2>. HIDE DEF job
  <2>3. CASE AddToDead(job)
    <3>1. UNCHANGED <<queues, retry, expired>>
      BY <2>3 DEF AddToDead
    <3>. QED  BY <1>1, <1>2, <1>3, <2>1, <3>1, SameHolders
  <2>4. CASE AddToRetry(job)
    <3>1. /\ WorkersApart'
          /\ \A jid \in JIDs : WorkerHolds(jid)' => WorkerHolds(jid) /\ jid # job.jid
      BY <1>2, <2>1, <2>2, WorkerMoves
    <3>2. WorkerHolds(job.jid)
      BY <2>2 DEF WorkerHolds
    <3>3. /\ RetryOnce' /\ BatchInRetry'
          /\ \A jid \in JIDs : InRetry(jid)' <=> InRetry(jid) \/ jid = job.jid
      BY <1>1, <1>2, <2>2, <2>4, <3>2, AddToRetryOnce, AddToRetryAdds DEF PlacesApart
    <3>4. UNCHANGED <<queues, expired>>
      BY <2>4 DEF AddToRetry
    <3>. QED  BY <1>1, <1>2, <2>2, <3>1, <3>2, <3>3, <3>4, SameHolders
              DEF Placed, Apart, PlacesApart, Known
  <2>. QED  BY <2>1, <2>3, <2>4
<1>8. CASE WorkerAcks(s)
  <2>1. WorkerGoes(s, "idle", NoJob) /\ Ack(worker[s].job)
    BY <1>8 DEF WorkerAcks, Call
  <2>2. UNCHANGED <<queues, retry>> /\ NothingToReap'
    BY <1>1, <1>2, <2>1 DEF Ack, NothingToReap
  <2>. QED  BY <1>1, <1>2, <1>3, <2>1, <2>2
<1>9. CASE WorkerExits(s)
  <2>1. WorkerGoes(s, "exited", NoJob) /\ UNCHANGED <<queues, retry, expired>>
    BY <1>9 DEF WorkerExits, brokerVars
  <2>. QED  BY <1>1, <1>2, <1>3, <2>1, SameHolders
<1>. QED  BY <1>4, <1>5, <1>6, <1>7, <1>8, <1>9 DEF Worker

\* retryLoop() takes out of the retry set the job it enqueues.
LEMMA RetrierKeepsApart ==
  ASSUME TypeOK, Budget, Calm, Alone, Placed, NEW e \in Engines, Retrier(e)
  PROVE  Placed'
<1>. USE CalmCalls
<1>1. /\ BrokerTypeOK
      /\ retrier[e].pc \in {"enqueue", "fallback"} => retrier[e].job \in Job
      /\ retrier[e].batch \in SUBSET Job
      /\ \A jid \in JIDs : RetrierHolds(jid) <=> RetrierHas(e, jid)
      /\ UNCHANGED <<client, fetcher, worker, reaper>>
  BY DEF TypeOK, RetrierTypeOK, Retriers, Retrier, RetryTick, RetrySkips, RetryRemoves,
         RetryEnqueues, RetryFallsBack, RetryExits, history, Alone, RetrierHolds
<1>2. QueueOnce /\ RetryOnce /\ WorkersApart /\ PlacesApart /\ Known /\ BatchInRetry /\ NothingToReap
  BY DEF Placed, Apart
<1>3. ASSUME NEW pc \in {"loop", "exited"}, NEW batch, RetrierGoes(e, pc, NoJob, batch),
             UNCHANGED <<queues, retry, expired>>, \A job \in batch : InBatch(job)
      PROVE  Placed'
  <2>1. /\ \A jid \in JIDs : ~RetrierHolds(jid)'
        /\ \A f \in Engines : retrier'[f].batch = batch
    BY <1>3, RetrierMoves
  <2>2. BatchInRetry'
    BY <1>3, <2>1 DEF BatchInRetry, InBatch
  <2>. QED  BY <1>1, <1>2, <1>3, <2>1, <2>2, SameHolders DEF Placed, Apart, PlacesApart, Known
<1>4. CASE RetryTick(e)
  <2>1. PICK batch \in Batches(due, RetryLimit) : RetrierGoes(e, "loop", NoJob, RetryJobs(batch))
    BY <1>4 DEF RetryTick
  <2>2. \A data \in batch : /\ data \in retry /\ ToJSON(FromJSON(data)) = data
                            /\ FromJSON(data).rawPayload = NoRaw
    BY <1>1, BatchesType, ParseSerialise DEF BrokerTypeOK, Budget, RetryBudget, FromJSON
  <2>3. \A job \in RetryJobs(batch) : InBatch(job)
    BY <2>2 DEF RetryJobs, InBatch
  <2>4. UNCHANGED <<queues, retry, expired>>
    BY <1>4 DEF RetryTick, brokerVars
  <2>. QED  BY <1>3, <2>1, <2>3, <2>4
<1>5. CASE RetrySkips(e)
  <2>1. PICK job \in retrier[e].batch : RetrierGoes(e, "loop", NoJob, retrier[e].batch \ {job})
    BY <1>5 DEF RetrySkips
  <2>2. UNCHANGED <<queues, retry, expired>>
    BY <1>5 DEF RetrySkips, brokerVars
  <2>3. \A j \in retrier[e].batch \ {job} : InBatch(j)
    BY <1>2 DEF BatchInRetry
  <2>. QED  BY <1>3, <2>1, <2>2, <2>3
<1>6. CASE RetryRemoves(e)
  <2>1. PICK old \in retrier[e].batch :
          /\ RemoveFromRetry(old)
          /\ RetrierGoes(e, "enqueue", [old EXCEPT !.state = "pending"], retrier[e].batch \ {old})
    BY <1>6 DEF RetryRemoves, Call
  <2>. DEFINE job == [old EXCEPT !.state = "pending"]
              rest == retrier[e].batch \ {old}
  <2>2. /\ job.jid = old.jid /\ old.jid \in JIDs /\ ToJSON(old).jid = old.jid
        /\ RetrierGoes(e, "enqueue", job, rest)
    BY <1>1, <2>1 DEF Job, ToJSON
  <2>3. /\ retry' = retry \ {ToJSON(old)} /\ ToJSON(old) \in retry
        /\ UNCHANGED <<queues, expired>>
    BY <1>2, <2>1 DEF RemoveFromRetry, BatchInRetry, InBatch
  <2>4. \A j \in rest : InBatch(j)'
    <3>1. ASSUME NEW j \in rest
          PROVE  ToJSON(j) # ToJSON(old)
      <4>1. j \in Job /\ old \in Job /\ j # old /\ j.rawPayload = NoRaw /\ old.rawPayload = NoRaw
        BY <1>1, <1>2, <2>1 DEF BatchInRetry, InBatch
      <4>. QED  BY <4>1 DEF Job, ToJSON
    <3>. QED  BY <1>2, <2>3, <3>1 DEF BatchInRetry, InBatch
  <2>. HIDE DEF job, rest
  <2>5. /\ \A jid \in JIDs : RetrierHolds(jid)' <=> jid = old.jid
        /\ \A f \in Engines : retrier'[f].batch = rest
    BY <2>2, RetrierMoves
  <2>6. BatchInRetry'
    BY <2>4, <2>5 DEF BatchInRetry
  <2>7. RetryOnce' /\ \A jid \in JIDs : InRetry(jid)' => InRetry(jid) /\ jid # old.jid
    BY <1>2, <2>2, <2>3 DEF RetryOnce, InRetry
  <2>8. InRetry(old.jid)
    BY <2>2, <2>3 DEF InRetry
  <2>. QED  BY <1>1, <1>2, <2>2, <2>3, <2>5, <2>6, <2>7, <2>8, SameHolders
            DEF Placed, Apart, PlacesApart, Known
<1>7. CASE RetryEnqueues(e)
  <2>. DEFINE job == retrier[e].job
  <2>1. job \in Job /\ job.jid \in JIDs
    BY <1>1, <1>7 DEF RetryEnqueues, Job
  <2>2. RetrierHolds(job.jid)
    BY <1>7 DEF RetryEnqueues, RetrierHolds, RetrierHas
  <2>3. \/ Enqueue(job.queue, job) /\ RetrierGoes(e, "loop", NoJob, retrier[e].batch)
        \/ /\ RetrierGoes(e, "fallback", NotReenqueued(job), retrier[e].batch)
           /\ UNCHANGED brokerVars
    BY <1>7 DEF RetryEnqueues, Call, CallWithEngineContext
  <2>. HIDE DEF job
  <2>4. CASE Enqueue(job.queue, job) /\ RetrierGoes(e, "loop", NoJob, retrier[e].batch)
    <3>1. QueueOnce' /\ \A jid \in JIDs : Queued(jid)' <=> Queued(jid) \/ jid = job.jid
      BY <1>1, <1>2, <2>1, <2>2, <2>4, EnqueueOnce, EnqueueQueues DEF PlacesApart
    <3>2. UNCHANGED <<retry, expired>>
      BY <2>4 DEF Enqueue
    <3>3. /\ \A jid \in JIDs : ~RetrierHolds(jid)'
          /\ \A f \in Engines : retrier'[f].batch = retrier[e].batch
      BY <2>4, RetrierMoves
    <3>4. BatchInRetry'
      BY <1>2, <3>2, <3>3 DEF BatchInRetry, InBatch
    <3>. QED  BY <1>1, <1>2, <2>1, <2>2, <3>1, <3>2, <3>3, <3>4, SameHolders
              DEF Placed, Apart, PlacesApart, Known
  <2>5. CASE /\ RetrierGoes(e, "fallback", NotReenqueued(job), retrier[e].batch)
             /\ UNCHANGED brokerVars
    <3>1. UNCHANGED <<queues, retry, expired>>
      BY <2>5 DEF brokerVars
    <3>2. NotReenqueued(job).jid = job.jid
      BY <2>1, FailedJobType
    <3>3. /\ \A jid \in JIDs : RetrierHolds(jid)' <=> jid = job.jid
          /\ \A f \in Engines : retrier'[f].batch = retrier[e].batch
      BY <2>5, <3>2, RetrierMoves
    <3>4. BatchInRetry'
      BY <1>2, <3>1, <3>3 DEF BatchInRetry, InBatch
    <3>. QED  BY <1>1, <1>2, <2>1, <2>2, <3>1, <3>3, <3>4, SameHolders
              DEF Placed, Apart, PlacesApart, Known
  <2>. QED  BY <2>3, <2>4, <2>5
<1>8. CASE RetryFallsBack(e)
  <2>. DEFINE job == retrier[e].job
  <2>1. job \in Job /\ job.jid \in JIDs
    BY <1>1, <1>8 DEF RetryFallsBack, Job
  <2>2. RetrierHolds(job.jid)
    BY <1>8 DEF RetryFallsBack, RetrierHolds, RetrierHas
  <2>3. /\ AddToDead(job) \/ AddToRetry(job)
        /\ RetrierGoes(e, "loop", NoJob, retrier[e].batch)
    BY <1>8 DEF RetryFallsBack, Call
  <2>. HIDE DEF job
  <2>4. CASE AddToDead(job)
    <3>1. UNCHANGED <<queues, retry, expired>>
      BY <2>4 DEF AddToDead
    <3>. QED  BY <1>2, <1>3, <2>3, <3>1 DEF BatchInRetry
  <2>5. CASE AddToRetry(job)
    <3>1. /\ \A jid \in JIDs : ~RetrierHolds(jid)'
          /\ \A f \in Engines : retrier'[f].batch = retrier[f].batch
      BY <2>3, RetrierMoves DEF Alone
    <3>2. /\ RetryOnce' /\ BatchInRetry'
          /\ \A jid \in JIDs : InRetry(jid)' <=> InRetry(jid) \/ jid = job.jid
      BY <1>2, <2>1, <2>2, <2>5, <3>1, AddToRetryOnce, AddToRetryAdds DEF PlacesApart
    <3>3. UNCHANGED <<queues, expired>>
      BY <2>5 DEF AddToRetry
    <3>. QED  BY <1>1, <1>2, <2>1, <2>2, <3>1, <3>2, <3>3, SameHolders
              DEF Placed, Apart, PlacesApart, Known
  <2>. QED  BY <2>3, <2>4, <2>5
<1>9. CASE RetryExits(e)
  <2>1. RetrierGoes(e, "exited", NoJob, {}) /\ UNCHANGED <<queues, retry, expired>>
    BY <1>9 DEF RetryExits, brokerVars
  <2>. QED  BY <1>3, <2>1
<1>. QED  BY <1>4, <1>5, <1>6, <1>7, <1>8, <1>9 DEF Retrier

\* reaperLoop() finds nothing.
LEMMA ReaperKeepsApart ==
  ASSUME TypeOK, Placed, NEW e \in Engines, Reaper(e)
  PROVE  Placed' /\ UNCHANGED <<processing, fetcher, worker>>
<1>1. expired = {} /\ reaper[e].batch = {}
  BY DEF Placed, NothingToReap
<1>2. ReaperExits(e)
  BY <1>1 DEF Reaper, ReaperTick, ReaperSkips, ReaperEnqueues
<1>3. /\ UNCHANGED <<queues, retry, expired, processing, client, fetcher, worker, retrier>>
      /\ ReaperGoes(e, "exited", {})
  BY <1>2 DEF ReaperExits, brokerVars, history
<1>4. NothingToReap'
  BY <1>1, <1>3 DEF NothingToReap, ReaperGoes, TypeOK, Reapers, Placed
<1>. QED  BY <1>3, <1>4, SameHolders DEF Placed, Apart, PlacesApart, Known

\* A client enqueues a job that is nowhere yet, or a queue is cleared.
LEMMA ClientKeepsApart ==
  ASSUME TypeOK, Calm, Placed, NEW q \in Queues,
         ClearQueue(q) \/ \E jid \in JIDs : ClientEnqueue(jid, q)
  PROVE  Placed' /\ UNCHANGED <<processing, fetcher, worker>>
<1>. USE CalmCalls
<1>1. BrokerTypeOK /\ client \in [JIDs -> {"none", "accepted", "failed"}]
  BY DEF TypeOK, HistoryTypeOK
<1>2. QueueOnce /\ RetryOnce /\ WorkersApart /\ PlacesApart /\ Known /\ BatchInRetry /\ NothingToReap
  BY DEF Placed, Apart
<1>3. CASE ClearQueue(q)
  <2>1. /\ UNCHANGED <<retry, expired, processing, client, fetcher, worker, retrier, reaper>>
        /\ queues' = [queues EXCEPT ![q] = <<>>]
    BY <1>3 DEF ClearQueue, DeleteKey, engineVars, history
  <2>2. \A r \in Queues : \A i \in DOMAIN queues'[r] :
          i \in DOMAIN queues[r] /\ queues'[r][i] = queues[r][i]
    BY <1>1, <2>1 DEF BrokerTypeOK
  <2>3. QueueOnce' /\ \A jid \in JIDs : Queued(jid)' => Queued(jid)
    BY <1>2, <2>2 DEF QueueOnce, Queued
  <2>. QED  BY <1>2, <2>1, <2>3, SameHolders DEF Placed, Apart, PlacesApart, Known
<1>4. ASSUME NEW j \in JIDs, ClientEnqueue(j, q)
      PROVE  Placed' /\ UNCHANGED <<processing, fetcher, worker>>
  <2>1. PICK job \in {NewJob(j, q)} \cup {SetRetry(NewJob(j, q), n) : n \in RetryOptions} :
          Enqueue(q, job) /\ client' = [client EXCEPT ![j] = "accepted"]
    BY <1>4 DEF ClientEnqueue, Call
  <2>2. job \in Job /\ job.jid = j /\ job.queue = q
    BY <2>1, ClampType, RetryAssumption, ProcessorAssumption DEF NewJob, SetRetry, Job, JobState
  <2>3. UNCHANGED <<fetcher, worker, retrier, reaper>> /\ client[j] = "none"
    BY <1>4 DEF ClientEnqueue, engineVars
  <2>4. QueueOnce' /\ \A jid \in JIDs : Queued(jid)' <=> Queued(jid) \/ jid = j
    BY <1>1, <1>2, <2>1, <2>2, <2>3, EnqueueOnce, EnqueueQueues DEF Known
  <2>5. UNCHANGED <<retry, expired, processing>>
    BY <2>1 DEF Enqueue
  <2>6. \A jid \in JIDs : client'[jid] = "none" => client[jid] = "none" /\ jid # j
    BY <1>1, <2>1
  <2>7. Apart'
    BY <1>2, <2>3, <2>4, <2>5, SameHolders DEF Apart, PlacesApart, Known
  <2>8. Known'
    BY <1>2, <2>3, <2>4, <2>5, <2>6, SameHolders DEF Known
  <2>. QED  BY <1>2, <2>3, <2>5, <2>7, <2>8, SameHolders DEF Placed
<1>. QED  BY <1>3, <1>4

\* A start finds the goroutines of the engine idle.
LEMMA LifeKeepsApart ==
  ASSUME TypeOK, DownIsIdle, Calm, Placed, NEW e \in Engines,
         Start(e) \/ Stop(e) \/ StopReturns(e) \/ Crash(e)
  PROVE  Placed'
<1>. USE CalmCalls
<1>1. UNCHANGED <<queues, retry, expired, client>>
  BY DEF Start, Stop, StopReturns, Crash, brokerVars, history
<1>2. CASE Start(e)
  <2>1. \A f \in Engines, jid \in JIDs : /\ FetcherHas(f, jid)' => FetcherHas(f, jid)
                                         /\ RetrierHas(f, jid)' => RetrierHas(f, jid)
    BY <1>2 DEF Start, FetcherHas, RetrierHas, NoFetcher, NoRetrier, TypeOK, FetcherTypeOK,
                RetrierTypeOK
  <2>2. \A s \in Slots, jid \in JIDs : WorkerHas(s, jid)' => WorkerHas(s, jid)
    BY <1>2 DEF Start, WorkerHas, NoWorker
  <2>3. \A f \in Engines : /\ retrier'[f].batch \in {{}, retrier[f].batch}
                           /\ reaper'[f].batch \in {{}, reaper[f].batch}
    BY <1>2 DEF Start, NoRetrier, NoReaper, TypeOK, RetrierTypeOK
  <2>4. WorkersApart' /\ BatchInRetry' /\ NothingToReap'
    BY <1>1, <2>2, <2>3 DEF Placed, Apart, WorkersApart, BatchInRetry, InBatch, NothingToReap
  <2>5. \A jid \in JIDs : /\ FetcherHolds(jid)' => FetcherHolds(jid)
                          /\ WorkerHolds(jid)' => WorkerHolds(jid)
                          /\ RetrierHolds(jid)' => RetrierHolds(jid)
    BY <2>1, <2>2 DEF FetcherHolds, WorkerHolds, RetrierHolds
  <2>. QED  BY <1>1, <2>4, <2>5, SameHolders DEF Placed, Apart, PlacesApart, Known
<1>3. CASE Stop(e) \/ StopReturns(e)
  <2>1. UNCHANGED <<fetcher, worker, retrier, reaper>>
    BY <1>3 DEF Stop, StopReturns
  <2>. QED  BY <1>1, <2>1, SameHolders DEF Placed, Apart, PlacesApart, Known
<1>. QED  BY <1>2, <1>3 DEF Crash

-----------------------------------------------------------------------------
(* Every lease is of a job in hand. *)

\* A goroutine that goes on with the same job, or with one more, holds what it held.
LEMMA FetcherHeld ==
  ASSUME TypeOK, RawKept, NEW e \in Engines, NEW pc, NEW job, FetcherGoes(e, pc, job),
         job # NoJob => Raw(job), worker' = worker
  PROVE  /\ RawKept'
         /\ \A data : job # NoJob /\ job.rawPayload = data => Held(data)'
         /\ \A data : Held(data) =>
              Held(data)' \/ (fetcher[e].job # NoJob /\ fetcher[e].job.rawPayload = data)
<1>1. \A f \in Engines : fetcher'[f].job = IF f = e THEN job ELSE fetcher[f].job
  BY DEF FetcherGoes, TypeOK, FetcherTypeOK
<1>2. RawKept'
  BY <1>1 DEF RawKept, Raw
<1>3. \A data : job # NoJob /\ job.rawPayload = data => Held(data)'
  BY <1>1 DEF Held
<1>4. \A data : Held(data) => Held(data)' \/ (fetcher[e].job # NoJob /\ fetcher[e].job.rawPayload = data)
  BY <1>1 DEF Held
<1>. QED  BY <1>2, <1>3, <1>4

\* The same for a worker.
LEMMA WorkerHeld ==
  ASSUME TypeOK, RawKept, NEW s \in Slots, NEW pc, NEW job, WorkerGoes(s, pc, job),
         job # NoJob => Raw(job), fetcher' = fetcher
  PROVE  /\ RawKept'
         /\ \A data : job # NoJob /\ job.rawPayload = data => Held(data)'
         /\ \A data : Held(data) =>
              Held(data)' \/ (worker[s].job # NoJob /\ worker[s].job.rawPayload = data)
<1>1. \A t \in Slots : worker'[t].job = IF t = s THEN job ELSE worker[t].job
  BY DEF WorkerGoes, TypeOK, WorkerTypeOK
<1>2. RawKept'
  BY <1>1 DEF RawKept, Raw
<1>3. \A data : job # NoJob /\ job.rawPayload = data => Held(data)'
  BY <1>1 DEF Held
<1>4. \A data : Held(data) => Held(data)' \/ (worker[s].job # NoJob /\ worker[s].job.rawPayload = data)
  BY <1>1 DEF Held
<1>. QED  BY <1>2, <1>3, <1>4

\* What is left of the leases after a dequeue and after an ack.
LEMMA AckRaw ==
  ASSUME NEW job, Raw(job), Ack(job)
  PROVE  processing' = processing \ {job.rawPayload}
BY RawAssumption DEF Raw, Ack, RawOrSerialize

\* fetcher() has a lease for the job it holds, and acks no other.
LEMMA FetcherKeepsHeld ==
  ASSUME TypeOK, Calm, RawKept, AllHeld, NEW e \in Engines, Fetcher(e)
  PROVE  RawKept' /\ AllHeld'
<1>. USE CalmCalls
<1>1. /\ BrokerTypeOK
      /\ (fetcher[e].pc \in {"send", "fallback", "ack"}) <=> (fetcher[e].job # NoJob)
      /\ fetcher[e].job # NoJob => fetcher[e].job \in Job /\ Raw(fetcher[e].job)
  BY DEF TypeOK, FetcherTypeOK, Fetchers, RawKept
<1>2. CASE FetcherTop(e)
  <2>1. UNCHANGED <<processing, worker>> /\ fetcher[e].job = NoJob
    BY <1>1, <1>2 DEF FetcherTop, brokerVars
  <2>2. \A f \in Engines : fetcher'[f].job = fetcher[f].job
    BY <1>2, <2>1 DEF FetcherTop, FetcherGoes, FetcherPolls, TypeOK, FetcherTypeOK
  <2>. QED  BY <2>1, <2>2 DEF RawKept, AllHeld, Held
<1>3. CASE FetcherPoll(e)
  <2>1. CASE Dequeue(PolledQueue(e)) /\ FetcherGoes(e, "send", DequeuedJob(PolledQueue(e)))
    <3>. DEFINE q == PolledQueue(e)
                job == DequeuedJob(q)
    <3>1. /\ job \in Job /\ job.rawPayload = Head(queues[q]) /\ job.jid = Head(queues[q]).jid
          /\ q \in Queues /\ processing' = processing \cup {Head(queues[q])}
          /\ FetcherGoes(e, "send", job)
      BY <1>1, <2>1, DequeueType, PolledQueueType DEF Dequeue
    <3>2. Head(queues[q]) \in Bytes
      BY <1>1, <2>1, <3>1 DEF BrokerTypeOK, Dequeue
    <3>. HIDE DEF q, job
    <3>3. Raw(job) /\ job # NoJob
      BY <3>1, <3>2, ProcessorAssumption DEF Raw
    <3>4. worker' = worker /\ fetcher[e].job = NoJob
      BY <1>1, <1>3 DEF FetcherPoll
    <3>. QED  BY <3>1, <3>3, <3>4, FetcherHeld DEF AllHeld
  <2>2. CASE FetcherGoes(e, "top", NoJob) /\ UNCHANGED brokerVars
    <3>1. UNCHANGED <<processing, worker>> /\ fetcher[e].job = NoJob
      BY <1>1, <1>3, <2>2 DEF FetcherPoll, brokerVars
    <3>. QED  BY <2>2, <3>1, FetcherHeld DEF AllHeld
  <2>. QED  BY <1>3, <2>1, <2>2 DEF FetcherPoll, Call
<1>4. CASE FetcherSend(e)
  <2>. DEFINE job == [fetcher[e].job EXCEPT !.state = "active"]
  <2>1. /\ job.rawPayload = fetcher[e].job.rawPayload /\ job.jid = fetcher[e].job.jid
        /\ Raw(fetcher[e].job) /\ processing' = processing
    BY <1>1, <1>4 DEF FetcherSend, Job, brokerVars
  <2>2. PICK s \in Slots : worker[s].pc = "idle" /\ WorkerGoes(s, "perform", job)
    BY <1>4 DEF FetcherSend, WorkerGoes
  <2>3. job \in Job
    BY <1>1, <1>4 DEF FetcherSend, Job, JobState
  <2>. HIDE DEF job
  <2>4. \A f \in Engines : fetcher'[f].job = IF f = e THEN NoJob ELSE fetcher[f].job
    BY <1>4 DEF FetcherSend, FetcherGoes, TypeOK, FetcherTypeOK
  <2>5. /\ \A t \in Slots : worker'[t].job = IF t = s THEN job ELSE worker[t].job
        /\ worker[s].job = NoJob /\ job # NoJob
    BY <2>2, <2>3, ProcessorAssumption DEF WorkerGoes, TypeOK, WorkerTypeOK
  <2>. QED  BY <2>1, <2>4, <2>5 DEF RawKept, AllHeld, Held, Raw
<1>5. CASE FetcherHandBack(e)
  <2>. DEFINE job == [fetcher[e].job EXCEPT !.state = "pending"]
  <2>1. /\ job.rawPayload = fetcher[e].job.rawPayload /\ job.jid = fetcher[e].job.jid
        /\ Raw(fetcher[e].job) /\ job \in Job
    BY <1>1, <1>5 DEF FetcherHandBack, Job, JobState
  <2>2. Enqueue(job.queue, job) /\ FetcherGoes(e, "ack", job) /\ worker' = worker
    BY <1>5 DEF FetcherHandBack, Call
  <2>. HIDE DEF job
  <2>3. job # NoJob /\ Raw(job) /\ processing' = processing
    BY <2>1, <2>2, ProcessorAssumption DEF Raw, Enqueue
  <2>. QED  BY <2>1, <2>2, <2>3, FetcherHeld DEF AllHeld
<1>6. CASE FetcherFallback(e)
  <2>1. /\ AddToRetry(fetcher[e].job) /\ FetcherGoes(e, "ack", fetcher[e].job) /\ worker' = worker
        /\ fetcher[e].job # NoJob
    BY <1>1, <1>6 DEF FetcherFallback, Call
  <2>2. processing' = processing
    BY <2>1 DEF AddToRetry
  <2>. QED  BY <1>1, <2>1, <2>2, FetcherHeld DEF AllHeld
<1>7. CASE FetcherAck(e)
  <2>1. /\ Ack(fetcher[e].job) /\ FetcherGoes(e, "exited", NoJob) /\ worker' = worker
        /\ fetcher[e].job # NoJob
    BY <1>1, <1>7 DEF FetcherAck, Call
  <2>2. processing' = processing \ {fetcher[e].job.rawPayload}
    BY <1>1, <2>1, AckRaw
  <2>. QED  BY <1>1, <2>1, <2>2, FetcherHeld DEF AllHeld
<1>. QED  BY <1>2, <1>3, <1>4, <1>5, <1>6, <1>7 DEF Fetcher

\* processJob() keeps the bytes of the dequeue and acks them.
LEMMA WorkerKeepsHeld ==
  ASSUME TypeOK, Calm, RawKept, AllHeld, NEW s \in Slots, Worker(s)
  PROVE  RawKept' /\ AllHeld'
<1>. USE CalmCalls
<1>1. /\ (worker[s].pc \in {"perform", "schedule", "ack"}) <=> (worker[s].job # NoJob)
      /\ worker[s].job # NoJob => worker[s].job \in Job /\ Raw(worker[s].job)
  BY DEF TypeOK, WorkerTypeOK, Workers, RawKept
<1>2. fetcher' = fetcher
  BY DEF Worker, JobSucceeds, JobFails, JobMeetsOpenCircuit, WorkerSchedules, WorkerAcks, WorkerExits
<1>3. ASSUME NEW pc, NEW job, WorkerGoes(s, pc, job), processing' = processing,
             job # NoJob, job.jid = worker[s].job.jid, job.rawPayload = worker[s].job.rawPayload,
             worker[s].job # NoJob
      PROVE  RawKept' /\ AllHeld'
  <2>1. Raw(job)
    BY <1>1, <1>3 DEF Raw
  <2>. QED  BY <1>2, <1>3, <2>1, WorkerHeld DEF AllHeld
<1>4. CASE JobSucceeds(s)
  <2>. DEFINE job == [worker[s].job EXCEPT !.state = "success"]
  <2>1. WorkerGoes(s, "ack", job) /\ processing' = processing /\ worker[s].job \in Job
    BY <1>1, <1>4 DEF JobSucceeds, Call, RecordSuccess
  <2>2. /\ job \in Job /\ job.jid = worker[s].job.jid
        /\ job.rawPayload = worker[s].job.rawPayload
    BY <2>1 DEF Job, JobState
  <2>. HIDE DEF job
  <2>. QED  BY <1>3, <2>1, <2>2, ProcessorAssumption
<1>5. CASE JobFails(s)
  <2>. DEFINE job == FailedJob(worker[s].job)
  <2>1. WorkerGoes(s, "schedule", job) /\ processing' = processing /\ worker[s].job \in Job
    BY <1>1, <1>5 DEF JobFails, Call, RecordFailure
  <2>2. /\ job \in Job /\ job.jid = worker[s].job.jid
        /\ job.rawPayload = worker[s].job.rawPayload
    BY <2>1, FailedJobType DEF FailedJob, Job
  <2>. HIDE DEF job
  <2>. QED  BY <1>3, <2>1, <2>2, ProcessorAssumption
<1>6. CASE JobMeetsOpenCircuit(s)
  <2>. DEFINE job == [worker[s].job EXCEPT !.state = "pending"]
  <2>1. WorkerGoes(s, "schedule", job) /\ processing' = processing /\ worker[s].job \in Job
    BY <1>1, <1>6 DEF JobMeetsOpenCircuit, Call, RecordFailure
  <2>2. /\ job \in Job /\ job.jid = worker[s].job.jid
        /\ job.rawPayload = worker[s].job.rawPayload
    BY <2>1 DEF Job, JobState
  <2>. HIDE DEF job
  <2>. QED  BY <1>3, <2>1, <2>2, ProcessorAssumption
<1>7. CASE WorkerSchedules(s)
  <2>1. WorkerGoes(s, "ack", worker[s].job) /\ processing' = processing /\ worker[s].job # NoJob
    BY <1>1, <1>7 DEF WorkerSchedules, Call, AddToDead, AddToRetry
  <2>. QED  BY <1>3, <2>1
<1>8. CASE WorkerAcks(s)
  <2>1. WorkerGoes(s, "idle", NoJob) /\ Ack(worker[s].job) /\ worker[s].job # NoJob
    BY <1>1, <1>8 DEF WorkerAcks, Call
  <2>2. processing' = processing \ {worker[s].job.rawPayload}
    BY <1>1, <2>1, AckRaw
  <2>. QED  BY <1>2, <2>1, <2>2, WorkerHeld DEF AllHeld
<1>9. CASE WorkerExits(s)
  <2>1. WorkerGoes(s, "exited", NoJob) /\ processing' = processing /\ worker[s].job = NoJob
    BY <1>1, <1>9 DEF WorkerExits, brokerVars
  <2>. QED  BY <1>2, <2>1, WorkerHeld DEF AllHeld
<1>. QED  BY <1>4, <1>5, <1>6, <1>7, <1>8, <1>9 DEF Worker

\* The other steps leave leases and hands alone.
LEMMA OthersKeepHeld ==
  ASSUME RawKept, AllHeld, UNCHANGED <<processing, fetcher, worker>>
  PROVE  RawKept' /\ AllHeld'
BY DEF RawKept, AllHeld, Held

\* A start finds the hands of the engine empty.
LEMMA LifeKeepsHeld ==
  ASSUME TypeOK, DownIsIdle, Calm, RawKept, AllHeld, NEW e \in Engines,
         Start(e) \/ Stop(e) \/ StopReturns(e) \/ Crash(e)
  PROVE  RawKept' /\ AllHeld'
<1>. USE CalmCalls
<1>1. CASE Start(e)
  <2>1. fetcher[e].job = NoJob /\ \A s \in Slots : s[1] = e => worker[s].job = NoJob
    BY <1>1 DEF Start, DownIsIdle, TypeOK, FetcherTypeOK, WorkerTypeOK
  <2>2. /\ processing' = processing
        /\ \A f \in Engines : fetcher'[f].job = fetcher[f].job
        /\ \A s \in Slots : worker'[s].job = worker[s].job
    BY <1>1, <2>1 DEF Start, brokerVars, NoFetcher, NoWorker, TypeOK, FetcherTypeOK, WorkerTypeOK
  <2>. QED  BY <2>2 DEF RawKept, AllHeld, Held
<1>2. CASE Stop(e) \/ StopReturns(e)
  BY <1>2, OthersKeepHeld DEF Stop, StopReturns, brokerVars
<1>. QED  BY <1>1, <1>2 DEF Crash

-----------------------------------------------------------------------------
LeaseInv == TypeOK /\ Budget /\ DownIsIdle /\ Placed /\ RawKept /\ AllHeld

\* Every step keeps the copies apart and the leases held.
LEMMA StepLeaseInv ==
  ASSUME LeaseInv, [Next]_vars, Calm, Alone
  PROVE  LeaseInv'
<1>. USE DEF LeaseInv
<1>1. TypeOK' /\ Budget' /\ DownIsIdle'
  BY StepType, StepBudget, StepDownIsIdle
<1>2. Placed' /\ RawKept' /\ AllHeld'
  <2>1. CASE UNCHANGED vars
    <3>1. UNCHANGED <<queues, retry, expired, processing, client, fetcher, worker, retrier, reaper>>
      BY <2>1 DEF vars, brokerVars, engineVars, history
    <3>. QED  BY <3>1, SameHolders, OthersKeepHeld DEF Placed, Apart, PlacesApart, Known
  <2>2. ASSUME NEW q \in Queues, ClearQueue(q) \/ \E jid \in JIDs : ClientEnqueue(jid, q)
        PROVE  Placed' /\ RawKept' /\ AllHeld'
    BY <2>2, ClientKeepsApart, OthersKeepHeld
  <2>3. ASSUME NEW e \in Engines, Start(e) \/ Stop(e) \/ StopReturns(e) \/ Crash(e)
        PROVE  Placed' /\ RawKept' /\ AllHeld'
    BY <2>3, LifeKeepsApart, LifeKeepsHeld
  <2>4. ASSUME NEW e \in Engines, Fetcher(e)
        PROVE  Placed' /\ RawKept' /\ AllHeld'
    BY <2>4, FetcherKeepsApart, FetcherKeepsHeld
  <2>5. ASSUME NEW e \in Engines, Retrier(e)
        PROVE  Placed' /\ RawKept' /\ AllHeld'
    <3>1. UNCHANGED <<processing, fetcher, worker>>
      BY <2>5, CalmCalls
         DEF Retrier, RetryTick, RetrySkips, RetryRemoves, RetryEnqueues, RetryFallsBack,
             RetryExits, Call, CallWithEngineContext, RemoveFromRetry, Enqueue, AddToDead,
             AddToRetry, brokerVars
    <3>. QED  BY <2>5, <3>1, RetrierKeepsApart, OthersKeepHeld
  <2>6. ASSUME NEW e \in Engines, Reaper(e)
        PROVE  Placed' /\ RawKept' /\ AllHeld'
    BY <2>6, ReaperKeepsApart, OthersKeepHeld
  <2>7. ASSUME NEW s \in Slots, Worker(s)
        PROVE  Placed' /\ RawKept' /\ AllHeld'
    BY <2>7, WorkerKeepsApart, WorkerKeepsHeld
  <2>8. ASSUME NEW data \in processing, OrphanLeaseExpires(data) \/ HeldLeaseExpires(data)
        PROVE  FALSE
    BY <2>8, CalmCalls DEF OrphanLeaseExpires, HeldLeaseExpires, AllHeld
  <2>9. ASSUME NEW data \in retry, BackoffEnds(data)
        PROVE  Placed' /\ RawKept' /\ AllHeld'
    <3>1. UNCHANGED <<queues, retry, expired, processing, client, fetcher, worker, retrier, reaper>>
      BY <2>9 DEF BackoffEnds, RetryFallsDue, engineVars, history
    <3>. QED  BY <3>1, SameHolders, OthersKeepHeld DEF Placed, Apart, PlacesApart, Known
  <2>. QED  BY <2>1, <2>2, <2>3, <2>4, <2>5, <2>6, <2>7, <2>8, <2>9 DEF Next
<1>. QED  BY <1>1, <1>2

\* In the beginning there is nothing anywhere.
LEMMA InitLeaseInv == Init => LeaseInv
<1>. SUFFICES ASSUME Init PROVE LeaseInv
  OBVIOUS
<1>1. TypeOK /\ Budget
  BY InitType, InitBudget
<1>2. /\ queues = [q \in Queues |-> <<>>] /\ processing = {} /\ expired = {} /\ retry = {}
      /\ fetcher = [e \in Engines |-> NoFetcher] /\ worker = [s \in Slots |-> NoWorker]
      /\ retrier = [e \in Engines |-> NoRetrier] /\ reaper = [e \in Engines |-> NoReaper]
  BY DEF Init, BrokerInit
<1>3. \A q \in Queues : DOMAIN queues[q] = {}
  BY <1>2
<1>4. \A jid : ~Queued(jid) /\ ~InRetry(jid) /\ ~FetcherHolds(jid) /\ ~WorkerHolds(jid) /\ ~RetrierHolds(jid)
  BY <1>2, <1>3 DEF Queued, InRetry, FetcherHolds, WorkerHolds, RetrierHolds, FetcherHas, WorkerHas,
                    RetrierHas, NoFetcher, NoWorker, NoRetrier
<1>5. QueueOnce /\ RetryOnce
  BY <1>2, <1>3 DEF QueueOnce, RetryOnce
<1>6. WorkersApart
  BY <1>2 DEF WorkersApart, WorkerHas, NoWorker
<1>7. BatchInRetry /\ NothingToReap
  BY <1>2 DEF BatchInRetry, NothingToReap, NoRetrier, NoReaper
<1>8. DownIsIdle /\ RawKept /\ AllHeld
  BY <1>2 DEF DownIsIdle, RawKept, AllHeld, NoFetcher, NoWorker, NoRetrier
<1>. QED  BY <1>1, <1>4, <1>5, <1>6, <1>7, <1>8 DEF LeaseInv, Placed, Apart, PlacesApart, Known

\* The invariant holds throughout.
LEMMA LeaseInvHolds ==
  ASSUME Calm, Alone
  PROVE  Spec => []LeaseInv
<1>1. LeaseInv /\ [Next]_vars => LeaseInv'
  BY StepLeaseInv
<1>. QED  BY <1>1, InitLeaseInv, PTL DEF Spec

\* In one engine whose calls succeed and whose leases hold, no job runs on two
\* workers at once, whatever is stopped, started and cleared: processJob() has the
\* only copy of the job it performs.
THEOREM NeverTwiceAtATime ==
  ASSUME Calm, Alone
  PROVE  Spec => []OneExecutor
<1>1. LeaseInv => OneExecutor
  <2>. SUFFICES ASSUME LeaseInv, NEW s \in Slots, NEW t \in Slots, s # t,
                       worker[s].pc = "perform", worker[t].pc = "perform",
                       worker[s].job.jid = worker[t].job.jid
                PROVE  FALSE
    BY DEF OneExecutor
  <2>1. worker[s].job.jid \in JIDs
    BY DEF LeaseInv, TypeOK, WorkerTypeOK, Workers, Job
  <2>. QED  BY <2>1 DEF LeaseInv, Placed, Apart, WorkersApart, WorkerHas
<1>. QED  BY <1>1, LeaseInvHolds, PTL

\* When its Stop has returned, no lease is left: every lease is of a job that a
\* goroutine holds (AllHeld), and the goroutines hold nothing (DownIsIdle).
THEOREM StopGivesLeasesBack ==
  ASSUME Calm, Alone
  PROVE  Spec => []StopLeavesNoLease
<1>1. LeaseInv => StopLeavesNoLease
  <2>. SUFFICES ASSUME LeaseInv, \A e \in Engines : status[e] = "down",
                       NEW data \in processing
                PROVE  FALSE
    BY DEF StopLeavesNoLease
  <2>1. \A e \in Engines : fetcher[e].job = NoJob
    BY DEF LeaseInv, DownIsIdle, TypeOK, FetcherTypeOK
  <2>2. \A s \in Slots : s[1] \in Engines /\ worker[s].job = NoJob
    BY DEF LeaseInv, DownIsIdle, TypeOK, WorkerTypeOK, Slots
  <2>. QED  BY <2>1, <2>2 DEF LeaseInv, AllHeld, Held
<1>. QED  BY <1>1, LeaseInvHolds, PTL

-----------------------------------------------------------------------------
(* HeldIsLeased: an ack takes away no lease but the job's own.                *)
(*                                                                            *)
(* Leases are keyed by bytes.  A worker that is slow to ack may do so after   *)
(* the job has been retried, dequeued again and leased again.  Its ack is     *)
(* harmless because the new lease has other bytes: whatever copy there is of  *)
(* a job that a worker is about to ack has a higher retry count than the      *)
(* bytes it will ack.  An open circuit puts the job into the retry set with   *)
(* its old retry count, so the argument needs that no handler answers that.   *)

Breakerless == "circuit open" \notin Outcomes

QueueNewer(jid, n) ==
  \A q \in Queues : \A i \in DOMAIN queues[q] :
    queues[q][i].jid = jid => queues[q][i].retryCount > n
RetryNewer(jid, n) == \A data \in retry : data.jid = jid => data.retryCount > n
FetcherNewer(jid, n) ==
  \A e \in Engines : FetcherHas(e, jid) => fetcher[e].job.rawPayload.retryCount > n
WorkerNewer(jid, n) ==
  \A s \in Slots : WorkerHas(s, jid) => worker[s].job.rawPayload.retryCount > n
RetrierNewer(jid, n) ==
  \A e \in Engines : RetrierHas(e, jid) => retrier[e].job.retryCount > n

\* Every copy of the job that can still run has been retried more than n times.
Newer(jid, n) ==
  /\ QueueNewer(jid, n) /\ RetryNewer(jid, n)
  /\ FetcherNewer(jid, n) /\ WorkerNewer(jid, n) /\ RetrierNewer(jid, n)

\* Only a failed attempt separates a job from the bytes it was dequeued as.
RawCounts ==
  /\ \A e \in Engines : fetcher[e].job # NoJob =>
       fetcher[e].job.retryCount = fetcher[e].job.rawPayload.retryCount
  /\ \A s \in Slots :
       /\ worker[s].pc = "perform" =>
            worker[s].job.retryCount = worker[s].job.rawPayload.retryCount
       /\ worker[s].pc = "schedule" =>
            worker[s].job.retryCount > worker[s].job.rawPayload.retryCount

\* Goroutines hold jobs that clients have enqueued.
HandsKnown ==
  /\ \A e \in Engines : fetcher[e].job # NoJob => client[fetcher[e].job.jid] # "none"
  /\ \A s \in Slots : worker[s].job # NoJob => client[worker[s].job.jid] # "none"

\* What is about to be acked is older than every copy.
AckedOlder ==
  /\ \A s \in Slots, jid \in JIDs, n \in Nat :
       (/\ worker[s].pc = "ack" /\ worker[s].job.jid = jid
        /\ worker[s].job.rawPayload.retryCount = n) => Newer(jid, n)
  /\ \A e \in Engines, jid \in JIDs :
       fetcher[e].pc = "ack" /\ fetcher[e].job.jid = jid => ~WorkerHolds(jid)

\* The same of the copies outside fetchers and workers.
StoreNewer(jid, n) == QueueNewer(jid, n) /\ RetryNewer(jid, n) /\ RetrierNewer(jid, n)

\* Copies only age.
StoreAges == \A jid \in JIDs, n \in Nat : StoreNewer(jid, n) => StoreNewer(jid, n)'
Ages == \A jid \in JIDs, n \in Nat : Newer(jid, n) => Newer(jid, n)'

\* Enqueue of a job that is new enough.
LEMMA EnqueueNewer ==
  ASSUME BrokerTypeOK, NEW job \in Job, Enqueue(job.queue, job), NEW jid, NEW n,
         QueueNewer(jid, n), job.jid = jid => job.retryCount > n
  PROVE  QueueNewer(jid, n)'
<1>. DEFINE q == job.queue
            data == ToJSON(job)
<1>1. /\ q \in Queues /\ data \in Bytes /\ data.jid = job.jid /\ data.retryCount = job.retryCount
      /\ queues' = [queues EXCEPT ![q] = Append(@, data)]
  BY ToJSONType DEF ToJSON, Job, Enqueue
<1>. HIDE DEF q, data
<1>2. /\ queues[q] \in Seq(Bytes)
      /\ queues'[q] = Append(queues[q], data)
      /\ \A r \in Queues \ {q} : queues'[r] = queues[r]
  BY <1>1 DEF BrokerTypeOK
<1>3. \A i \in DOMAIN queues'[q] :
        \/ i \in DOMAIN queues[q] /\ queues'[q][i] = queues[q][i]
        \/ queues'[q][i] = data
  BY <1>1, <1>2
<1>4. \A r \in Queues : \A i \in DOMAIN queues'[r] :
        \/ i \in DOMAIN queues[r] /\ queues'[r][i] = queues[r][i]
        \/ queues'[r][i] = data
  BY <1>2, <1>3
<1>. QED  BY <1>1, <1>4 DEF QueueNewer

\* Dequeue passes the count on.
LEMMA DequeueNewer ==
  ASSUME BrokerTypeOK, RetryBudget, NEW q \in Queues, Dequeue(q)
  PROVE  /\ \A jid, n : QueueNewer(jid, n) => /\ QueueNewer(jid, n)'
                                              /\ DequeuedJob(q).jid = jid => Head(queues[q]).retryCount > n
         /\ DequeuedJob(q).retryCount = Head(queues[q]).retryCount
<1>1. /\ queues[q] \in Seq(Bytes) /\ queues[q] # <<>>
      /\ queues'[q] = Tail(queues[q])
      /\ \A r \in Queues \ {q} : queues'[r] = queues[r]
      /\ DequeuedJob(q).jid = Head(queues[q]).jid
  BY DequeueType DEF BrokerTypeOK, Dequeue
<1>2. \A i \in DOMAIN queues'[q] : i + 1 \in DOMAIN queues[q] /\ queues'[q][i] = queues[q][i + 1]
  BY <1>1
<1>3. 1 \in DOMAIN queues[q] /\ queues[q][1] = Head(queues[q]) /\ Head(queues[q]) \in Bytes
  BY <1>1
<1>4. ASSUME NEW jid, NEW n, QueueNewer(jid, n)
      PROVE  /\ QueueNewer(jid, n)'
             /\ DequeuedJob(q).jid = jid => Head(queues[q]).retryCount > n
  BY <1>1, <1>2, <1>3, <1>4 DEF QueueNewer
<1>5. Runnable(Head(queues[q]))
  BY <1>3 DEF RetryBudget
<1>6. FromJSON(Head(queues[q])).retryCount = Head(queues[q]).retryCount
  BY <1>3, <1>5, ParseRunnable
<1>7. DequeuedJob(q).retryCount = Head(queues[q]).retryCount
  BY <1>6 DEF DequeuedJob, FromJSON
<1>. QED  BY <1>4, <1>7

\* AddToRetry of a job that is new enough.
LEMMA AddToRetryNewer ==
  ASSUME NEW job, AddToRetry(job), NEW jid, NEW n, RetryNewer(jid, n),
         job.jid = jid => job.retryCount > n
  PROVE  RetryNewer(jid, n)'
<1>1. ToJSON(job).jid = job.jid /\ ToJSON(job).retryCount = job.retryCount
  BY DEF ToJSON
<1>. QED  BY <1>1 DEF AddToRetry, RetryNewer

\* Moves of the goroutines.
LEMMA GoesNewer ==
  ASSUME TypeOK, NEW jid \in JIDs, NEW n
  PROVE  /\ \A e \in Engines : \A pc, job :
              FetcherGoes(e, pc, job) /\ FetcherNewer(jid, n)
                /\ (pc \in {"send", "fallback"} /\ job.jid = jid => job.rawPayload.retryCount > n)
              => FetcherNewer(jid, n)'
         /\ \A s \in Slots : \A pc, job :
              WorkerGoes(s, pc, job) /\ WorkerNewer(jid, n)
                /\ (pc \in {"perform", "schedule"} /\ job.jid = jid => job.rawPayload.retryCount > n)
              => WorkerNewer(jid, n)'
         /\ \A e \in Engines : \A pc, job, batch :
              RetrierGoes(e, pc, job, batch) /\ RetrierNewer(jid, n)
                /\ (pc \in {"enqueue", "fallback"} /\ job.jid = jid => job.retryCount > n)
              => RetrierNewer(jid, n)'
<1>1. ASSUME NEW e \in Engines, NEW pc, NEW job, FetcherGoes(e, pc, job), FetcherNewer(jid, n),
             pc \in {"send", "fallback"} /\ job.jid = jid => job.rawPayload.retryCount > n
      PROVE  FetcherNewer(jid, n)'
  BY <1>1 DEF FetcherNewer, FetcherHas, FetcherGoes, TypeOK, FetcherTypeOK
<1>2. ASSUME NEW s \in Slots, NEW pc, NEW job, WorkerGoes(s, pc, job), WorkerNewer(jid, n),
             pc \in {"perform", "schedule"} /\ job.jid = jid => job.rawPayload.retryCount > n
      PROVE  WorkerNewer(jid, n)'
  BY <1>2 DEF WorkerNewer, WorkerHas, WorkerGoes, TypeOK, WorkerTypeOK
<1>3. ASSUME NEW e \in Engines, NEW pc, NEW job, NEW batch, RetrierGoes(e, pc, job, batch),
             RetrierNewer(jid, n),
             pc \in {"enqueue", "fallback"} /\ job.jid = jid => job.retryCount > n
      PROVE  RetrierNewer(jid, n)'
  BY <1>3 DEF RetrierNewer, RetrierHas, RetrierGoes, TypeOK, RetrierTypeOK
<1>. QED  BY <1>1, <1>2, <1>3

\* A place that does not change.
LEMMA SameNewer ==
  /\ queues' = queues => \A jid, n : QueueNewer(jid, n) => QueueNewer(jid, n)'
  /\ retry' \subseteq retry => \A jid, n : RetryNewer(jid, n) => RetryNewer(jid, n)'
  /\ fetcher' = fetcher => \A jid, n : FetcherNewer(jid, n) => FetcherNewer(jid, n)'
  /\ worker' = worker => \A jid, n : WorkerNewer(jid, n) => WorkerNewer(jid, n)'
  /\ retrier' = retrier => \A jid, n : RetrierNewer(jid, n) => RetrierNewer(jid, n)'
BY DEF QueueNewer, RetryNewer, FetcherNewer, WorkerNewer, RetrierNewer, FetcherHas, WorkerHas,
       RetrierHas

\* fetcher() passes its job on as it took it.
LEMMA FetcherAges ==
  ASSUME TypeOK, Budget, Excluded("error"), RawCounts, NEW e \in Engines, Fetcher(e)
  PROVE  Ages /\ RawCounts'
<1>. USE CallsSucceed
<1>1. /\ BrokerTypeOK /\ RetryBudget
      /\ (fetcher[e].pc \in {"send", "fallback", "ack"}) <=> (fetcher[e].job # NoJob)
      /\ fetcher[e].job # NoJob => /\ fetcher[e].job \in Job
                                   /\ fetcher[e].job.retryCount = fetcher[e].job.rawPayload.retryCount
      /\ retrier' = retrier
  BY DEF TypeOK, Budget, FetcherTypeOK, Fetchers, RawCounts, Fetcher, FetcherTop, FetcherPoll,
         FetcherSend, FetcherHandBack, FetcherFallback, FetcherAck
<1>2. ASSUME NEW pc, NEW job, FetcherGoes(e, pc, job), worker' = worker,
             job # NoJob => job.retryCount = job.rawPayload.retryCount
      PROVE  RawCounts'
  <2>1. \A f \in Engines : fetcher'[f].job = IF f = e THEN job ELSE fetcher[f].job
    BY <1>2 DEF FetcherGoes, TypeOK, FetcherTypeOK
  <2>. QED  BY <1>2, <2>1 DEF RawCounts
<1>3. CASE FetcherTop(e)
  <2>1. UNCHANGED <<queues, retry, worker>> /\ fetcher[e].job = NoJob
    BY <1>1, <1>3 DEF FetcherTop, brokerVars
  <2>2. \A f \in Engines : /\ fetcher'[f].job = fetcher[f].job
                           /\ fetcher'[f].pc \in {"send", "fallback"} => fetcher'[f] = fetcher[f]
    BY <1>3, <2>1 DEF FetcherTop, FetcherGoes, FetcherPolls, TypeOK, FetcherTypeOK
  <2>3. \A jid, n : FetcherNewer(jid, n) => FetcherNewer(jid, n)'
    BY <2>2 DEF FetcherNewer, FetcherHas
  <2>4. RawCounts'
    BY <2>1, <2>2 DEF RawCounts
  <2>. QED  BY <1>1, <2>1, <2>3, <2>4, SameNewer DEF Ages, Newer
<1>4. CASE FetcherPoll(e)
  <2>0. worker' = worker
    BY <1>4 DEF FetcherPoll
  <2>1. CASE Dequeue(PolledQueue(e)) /\ FetcherGoes(e, "send", DequeuedJob(PolledQueue(e)))
    <3>. DEFINE q == PolledQueue(e)
                job == DequeuedJob(q)
    <3>1. /\ job \in Job /\ job.rawPayload = Head(queues[q]) /\ FetcherGoes(e, "send", job)
          /\ q \in Queues /\ Dequeue(q) /\ retry' = retry
      BY <1>1, <2>1, DequeueType, PolledQueueType DEF Dequeue
    <3>2. /\ \A jid, n : QueueNewer(jid, n) => /\ QueueNewer(jid, n)'
                                               /\ job.jid = jid => job.rawPayload.retryCount > n
          /\ job.retryCount = job.rawPayload.retryCount
      BY <1>1, <3>1, DequeueNewer
    <3>. HIDE DEF q, job
    <3>3. RawCounts'
      BY <1>2, <2>0, <3>1, <3>2
    <3>. QED  BY <1>1, <2>0, <3>1, <3>2, <3>3, SameNewer, GoesNewer DEF Ages, Newer
  <2>2. CASE FetcherGoes(e, "top", NoJob) /\ UNCHANGED brokerVars
    <3>1. UNCHANGED <<queues, retry>>
      BY <2>2 DEF brokerVars
    <3>2. RawCounts'
      BY <1>2, <2>0, <2>2
    <3>. QED  BY <1>1, <2>0, <2>2, <3>1, <3>2, SameNewer, GoesNewer DEF Ages, Newer
  <2>. QED  BY <1>4, <2>1, <2>2 DEF FetcherPoll, Call
<1>5. CASE FetcherSend(e)
  <2>. DEFINE job == [fetcher[e].job EXCEPT !.state = "active"]
  <2>1. /\ job.rawPayload = fetcher[e].job.rawPayload /\ job.jid = fetcher[e].job.jid
        /\ job.retryCount = fetcher[e].job.retryCount /\ fetcher[e].job # NoJob
        /\ UNCHANGED <<queues, retry>> /\ FetcherGoes(e, "top", NoJob)
    BY <1>1, <1>5 DEF FetcherSend, Job, brokerVars
  <2>2. PICK s \in Slots : WorkerGoes(s, "perform", job)
    BY <1>5 DEF FetcherSend, WorkerGoes
  <2>. HIDE DEF job
  <2>3. ASSUME NEW jid \in JIDs, NEW n, FetcherNewer(jid, n)
        PROVE  job.jid = jid => job.rawPayload.retryCount > n
    BY <1>5, <2>1, <2>3 DEF FetcherSend, FetcherNewer, FetcherHas
  <2>4. /\ \A f \in Engines : fetcher'[f].job = IF f = e THEN NoJob ELSE fetcher[f].job
        /\ \A t \in Slots : worker'[t] = IF t = s THEN [pc |-> "perform", job |-> job] ELSE worker[t]
    BY <2>1, <2>2 DEF FetcherGoes, WorkerGoes, TypeOK, FetcherTypeOK, WorkerTypeOK
  <2>5. RawCounts'
    BY <1>1, <2>1, <2>4 DEF RawCounts
  <2>6. \A jid \in JIDs, n \in Nat : Newer(jid, n) => FetcherNewer(jid, n)' /\ WorkerNewer(jid, n)'
    BY <2>1, <2>2, <2>3, GoesNewer DEF Newer
  <2>. QED  BY <1>1, <2>1, <2>5, <2>6, SameNewer DEF Ages, Newer
<1>6. CASE FetcherHandBack(e)
  <2>. DEFINE job == [fetcher[e].job EXCEPT !.state = "pending"]
  <2>1. /\ job.rawPayload = fetcher[e].job.rawPayload /\ job.jid = fetcher[e].job.jid
        /\ job.retryCount = fetcher[e].job.retryCount /\ job \in Job /\ fetcher[e].job # NoJob
    BY <1>1, <1>6 DEF FetcherHandBack, Job, JobState
  <2>2. Enqueue(job.queue, job) /\ FetcherGoes(e, "ack", job) /\ worker' = worker
    BY <1>6 DEF FetcherHandBack, Call
  <2>. HIDE DEF job
  <2>3. ASSUME NEW jid \in JIDs, NEW n, FetcherNewer(jid, n)
        PROVE  job.jid = jid => job.retryCount > n
    BY <1>1, <1>6, <2>1, <2>3 DEF FetcherHandBack, FetcherNewer, FetcherHas
  <2>4. \A jid \in JIDs, n \in Nat : Newer(jid, n) => FetcherNewer(jid, n)' /\ QueueNewer(jid, n)'
    BY <1>1, <2>1, <2>2, <2>3, GoesNewer, EnqueueNewer DEF Newer
  <2>5. retry' = retry
    BY <2>2 DEF Enqueue
  <2>6. RawCounts'
    BY <1>1, <1>2, <2>1, <2>2
  <2>. QED  BY <1>1, <2>2, <2>4, <2>5, <2>6, SameNewer DEF Ages, Newer
<1>7. CASE FetcherFallback(e)
  <2>. DEFINE job == fetcher[e].job
  <2>1. /\ AddToRetry(job) /\ FetcherGoes(e, "ack", job) /\ worker' = worker
        /\ job # NoJob /\ job.retryCount = job.rawPayload.retryCount
    BY <1>1, <1>7 DEF FetcherFallback, Call
  <2>2. ASSUME NEW jid \in JIDs, NEW n, FetcherNewer(jid, n)
        PROVE  job.jid = jid => job.retryCount > n
    BY <1>1, <1>7, <2>1, <2>2 DEF FetcherFallback, FetcherNewer, FetcherHas
  <2>. HIDE DEF job
  <2>3. \A jid \in JIDs, n \in Nat : Newer(jid, n) => FetcherNewer(jid, n)' /\ RetryNewer(jid, n)'
    BY <2>1, <2>2, GoesNewer, AddToRetryNewer DEF Newer
  <2>4. queues' = queues
    BY <2>1 DEF AddToRetry
  <2>5. RawCounts'
    BY <1>2, <2>1
  <2>. QED  BY <1>1, <2>1, <2>3, <2>4, <2>5, SameNewer DEF Ages, Newer
<1>8. CASE FetcherAck(e)
  <2>1. Ack(fetcher[e].job) /\ FetcherGoes(e, "exited", NoJob) /\ worker' = worker
    BY <1>8 DEF FetcherAck, Call
  <2>2. UNCHANGED <<queues, retry>>
    BY <2>1 DEF Ack
  <2>3. RawCounts'
    BY <1>2, <2>1
  <2>. QED  BY <1>1, <2>1, <2>2, <2>3, SameNewer, GoesNewer DEF Ages, Newer
<1>. QED  BY <1>3, <1>4, <1>5, <1>6, <1>7, <1>8 DEF Fetcher

\* processJob() puts a job into the retry set with one more attempt counted.
LEMMA WorkerAges ==
  ASSUME TypeOK, Excluded("error"), Breakerless, RawKept, RawCounts, NEW s \in Slots, Worker(s)
  PROVE  Ages /\ RawCounts'
<1>. USE CallsSucceed
<1>1. /\ BrokerTypeOK
      /\ (worker[s].pc \in {"perform", "schedule", "ack"}) <=> (worker[s].job # NoJob)
      /\ worker[s].job # NoJob => worker[s].job \in Job /\ worker[s].job.rawPayload \in Bytes
      /\ UNCHANGED <<fetcher, retrier>>
  BY DEF TypeOK, WorkerTypeOK, Workers, RawKept, Raw, Worker, JobSucceeds, JobFails,
         JobMeetsOpenCircuit, WorkerSchedules, WorkerAcks, WorkerExits
<1>2. ASSUME NEW pc, NEW job, WorkerGoes(s, pc, job),
             pc # "perform",
             pc = "schedule" => job.retryCount > job.rawPayload.retryCount
      PROVE  RawCounts'
  <2>1. \A t \in Slots : worker'[t] = IF t = s THEN [pc |-> pc, job |-> job] ELSE worker[t]
    BY <1>2 DEF WorkerGoes, TypeOK, WorkerTypeOK
  <2>. QED  BY <1>1, <1>2, <2>1 DEF RawCounts
<1>3. CASE JobSucceeds(s)
  <2>. DEFINE job == [worker[s].job EXCEPT !.state = "success"]
  <2>1. WorkerGoes(s, "ack", job) /\ UNCHANGED <<queues, retry>>
    BY <1>3 DEF JobSucceeds, Call, RecordSuccess
  <2>. HIDE DEF job
  <2>. QED  BY <1>1, <1>2, <2>1, SameNewer, GoesNewer DEF Ages, Newer
<1>4. CASE JobFails(s)
  <2>. DEFINE job == FailedJob(worker[s].job)
  <2>1. WorkerGoes(s, "schedule", job) /\ UNCHANGED <<queues, retry>> /\ worker[s].job \in Job
    BY <1>1, <1>4 DEF JobFails, Call, RecordFailure
  <2>2. /\ job.jid = worker[s].job.jid /\ job.rawPayload = worker[s].job.rawPayload
        /\ job.retryCount = worker[s].job.retryCount + 1
    BY <2>1 DEF FailedJob, Job
  <2>3. worker[s].job.retryCount = job.rawPayload.retryCount /\ worker[s].job.retryCount \in Nat
    BY <1>4, <2>1, <2>2 DEF JobFails, RawCounts, Job
  <2>. HIDE DEF job
  <2>4. job.retryCount > job.rawPayload.retryCount
    BY <2>2, <2>3
  <2>5. \A jid, n : WorkerNewer(jid, n) => (job.jid = jid => job.rawPayload.retryCount > n)
    BY <1>4, <2>2 DEF JobFails, WorkerNewer, WorkerHas
  <2>6. RawCounts'
    BY <1>2, <2>1, <2>4
  <2>. QED  BY <1>1, <2>1, <2>5, <2>6, SameNewer, GoesNewer DEF Ages, Newer
<1>5. CASE WorkerSchedules(s)
  <2>. DEFINE job == worker[s].job
  <2>1. WorkerGoes(s, "ack", job) /\ (AddToDead(job) \/ AddToRetry(job))
    BY <1>5 DEF WorkerSchedules, Call
  <2>2. /\ job.retryCount > job.rawPayload.retryCount /\ job.retryCount \in Nat
        /\ job.rawPayload.retryCount \in Nat
    BY <1>1, <1>5 DEF WorkerSchedules, RawCounts, Job, Bytes
  <2>3. \A jid \in JIDs, n \in Nat : WorkerNewer(jid, n) => (job.jid = jid => job.rawPayload.retryCount > n)
    BY <1>5 DEF WorkerSchedules, WorkerNewer, WorkerHas
  <2>. HIDE DEF job
  <2>4. \A jid \in JIDs, n \in Nat : WorkerNewer(jid, n) => (job.jid = jid => job.retryCount > n)
    BY <2>2, <2>3
  <2>5. queues' = queues /\ \A jid \in JIDs, n \in Nat : Newer(jid, n) => RetryNewer(jid, n)'
    <3>1. CASE AddToDead(job)
      BY <3>1, SameNewer DEF AddToDead, Newer
    <3>2. CASE AddToRetry(job)
      <4>1. queues' = queues
        BY <3>2 DEF AddToRetry
      <4>. QED  BY <2>4, <3>2, <4>1, AddToRetryNewer DEF Newer
    <3>. QED  BY <2>1, <3>1, <3>2
  <2>6. RawCounts'
    BY <1>2, <2>1
  <2>. QED  BY <1>1, <2>1, <2>5, <2>6, SameNewer, GoesNewer DEF Ages, Newer
<1>6. CASE WorkerAcks(s)
  <2>1. WorkerGoes(s, "idle", NoJob) /\ Ack(worker[s].job)
    BY <1>6 DEF WorkerAcks, Call
  <2>2. UNCHANGED <<queues, retry>>
    BY <2>1 DEF Ack
  <2>. QED  BY <1>1, <1>2, <2>1, <2>2, SameNewer, GoesNewer DEF Ages, Newer
<1>7. CASE WorkerExits(s)
  <2>1. WorkerGoes(s, "exited", NoJob) /\ UNCHANGED <<queues, retry>>
    BY <1>7 DEF WorkerExits, brokerVars
  <2>. QED  BY <1>1, <1>2, <2>1, SameNewer, GoesNewer DEF Ages, Newer
<1>. QED  BY <1>3, <1>4, <1>5, <1>6, <1>7
          DEF Worker, JobMeetsOpenCircuit, HandlerMayReturn, Breakerless

\* retryLoop() enqueues a job with the count it had in the retry set, or one more.
LEMMA RetrierAges ==
  ASSUME TypeOK, Calm, Placed, NEW e \in Engines, Retrier(e)
  PROVE  StoreAges /\ UNCHANGED <<fetcher, worker>>
<1>. USE CalmCalls
<1>1. /\ BrokerTypeOK
      /\ retrier[e].pc \in {"enqueue", "fallback"} => retrier[e].job \in Job
      /\ retrier[e].batch \in SUBSET Job
      /\ UNCHANGED <<fetcher, worker>>
  BY DEF TypeOK, RetrierTypeOK, Retriers, Retrier, RetryTick, RetrySkips, RetryRemoves,
         RetryEnqueues, RetryFallsBack, RetryExits
<1>2. ASSUME NEW pc \in {"loop", "exited"}, NEW batch, RetrierGoes(e, pc, NoJob, batch),
             UNCHANGED <<queues, retry>>
      PROVE  StoreAges
  BY <1>1, <1>2, SameNewer, GoesNewer DEF StoreAges, StoreNewer
<1>3. CASE RetryTick(e)
  <2>1. UNCHANGED <<queues, retry>>
    BY <1>3 DEF RetryTick, brokerVars
  <2>. QED  BY <1>2, <1>3, <2>1 DEF RetryTick
<1>4. CASE RetrySkips(e)
  <2>1. UNCHANGED <<queues, retry>>
    BY <1>4 DEF RetrySkips, brokerVars
  <2>. QED  BY <1>2, <1>4, <2>1 DEF RetrySkips
<1>5. CASE RetryRemoves(e)
  <2>1. PICK old \in retrier[e].batch :
          /\ RemoveFromRetry(old)
          /\ RetrierGoes(e, "enqueue", [old EXCEPT !.state = "pending"], retrier[e].batch \ {old})
    BY <1>5 DEF RetryRemoves, Call
  <2>. DEFINE job == [old EXCEPT !.state = "pending"]
              rest == retrier[e].batch \ {old}
  <2>2. /\ RetrierGoes(e, "enqueue", job, rest)
        /\ job.jid = ToJSON(old).jid /\ job.retryCount = ToJSON(old).retryCount
        /\ ToJSON(old) \in retry
    BY <1>1, <2>1 DEF Job, ToJSON, Placed, BatchInRetry, InBatch
  <2>3. queues' = queues /\ retry' \subseteq retry
    BY <2>1 DEF RemoveFromRetry
  <2>. HIDE DEF job, rest
  <2>4. \A jid, n : RetryNewer(jid, n) => (job.jid = jid => job.retryCount > n)
    BY <2>2 DEF RetryNewer
  <2>. QED  BY <1>1, <2>2, <2>3, <2>4, SameNewer, GoesNewer DEF StoreAges, StoreNewer
<1>6. CASE RetryEnqueues(e)
  <2>. DEFINE job == retrier[e].job
  <2>1. job \in Job /\ \A jid, n : RetrierNewer(jid, n) => (job.jid = jid => job.retryCount > n)
    BY <1>1, <1>6 DEF RetryEnqueues, RetrierNewer, RetrierHas
  <2>2. \/ Enqueue(job.queue, job) /\ RetrierGoes(e, "loop", NoJob, retrier[e].batch)
        \/ /\ RetrierGoes(e, "fallback", NotReenqueued(job), retrier[e].batch)
           /\ UNCHANGED brokerVars
    BY <1>6 DEF RetryEnqueues, Call, CallWithEngineContext
  <2>. HIDE DEF job
  <2>3. CASE Enqueue(job.queue, job) /\ RetrierGoes(e, "loop", NoJob, retrier[e].batch)
    <3>1. retry' = retry
      BY <2>3 DEF Enqueue
    <3>2. \A jid \in JIDs, n \in Nat : StoreNewer(jid, n) => QueueNewer(jid, n)' /\ RetrierNewer(jid, n)'
      BY <1>1, <2>1, <2>3, EnqueueNewer, GoesNewer DEF StoreNewer
    <3>. QED  BY <1>1, <3>1, <3>2, SameNewer DEF StoreAges, StoreNewer
  <2>4. CASE /\ RetrierGoes(e, "fallback", NotReenqueued(job), retrier[e].batch)
             /\ UNCHANGED brokerVars
    <3>. DEFINE next == NotReenqueued(job)
    <3>1. next.jid = job.jid /\ next.retryCount = job.retryCount + 1 /\ job.retryCount \in Nat
      BY <2>1 DEF NotReenqueued, Job
    <3>2. RetrierGoes(e, "fallback", next, retrier[e].batch) /\ UNCHANGED <<queues, retry>>
      BY <2>4 DEF brokerVars
    <3>. HIDE DEF next
    <3>3. \A jid \in JIDs, n \in Nat : RetrierNewer(jid, n) => (next.jid = jid => next.retryCount > n)
      BY <2>1, <3>1
    <3>. QED  BY <1>1, <3>2, <3>3, SameNewer, GoesNewer DEF StoreAges, StoreNewer
  <2>. QED  BY <2>2, <2>3, <2>4
<1>7. CASE RetryFallsBack(e)
  <2>. DEFINE job == retrier[e].job
  <2>1. \A jid, n : RetrierNewer(jid, n) => (job.jid = jid => job.retryCount > n)
    BY <1>7 DEF RetryFallsBack, RetrierNewer, RetrierHas
  <2>2. /\ AddToDead(job) \/ AddToRetry(job)
        /\ RetrierGoes(e, "loop", NoJob, retrier[e].batch)
    BY <1>7 DEF RetryFallsBack, Call
  <2>. HIDE DEF job
  <2>3. CASE AddToDead(job)
    BY <1>1, <1>2, <2>2, <2>3 DEF AddToDead
  <2>4. CASE AddToRetry(job)
    <3>1. queues' = queues
      BY <2>4 DEF AddToRetry
    <3>2. \A jid \in JIDs, n \in Nat : StoreNewer(jid, n) => RetryNewer(jid, n)' /\ RetrierNewer(jid, n)'
      BY <2>1, <2>2, <2>4, AddToRetryNewer, GoesNewer DEF StoreNewer
    <3>. QED  BY <1>1, <3>1, <3>2, SameNewer DEF StoreAges, StoreNewer
  <2>. QED  BY <2>2, <2>3, <2>4
<1>8. CASE RetryExits(e)
  <2>1. UNCHANGED <<queues, retry>>
    BY <1>8 DEF RetryExits, brokerVars
  <2>. QED  BY <1>2, <1>8, <2>1 DEF RetryExits
<1>. QED  BY <1>1, <1>3, <1>4, <1>5, <1>6, <1>7, <1>8 DEF Retrier

\* A new job has a JID of its own.
LEMMA ClientAges ==
  ASSUME TypeOK, Calm, NEW q \in Queues, NEW j \in JIDs, ClientEnqueue(j, q)
  PROVE  /\ \A jid \in JIDs \ {j}, n \in Nat : Newer(jid, n) => Newer(jid, n)'
         /\ client[j] = "none" /\ client' = [client EXCEPT ![j] = "accepted"]
         /\ UNCHANGED <<fetcher, worker, processing>>
<1>. USE CalmCalls
<1>1. PICK job \in {NewJob(j, q)} \cup {SetRetry(NewJob(j, q), n) : n \in RetryOptions} :
        Enqueue(q, job) /\ client' = [client EXCEPT ![j] = "accepted"]
  BY DEF ClientEnqueue, Call
<1>2. job \in Job /\ job.jid = j /\ job.queue = q
  BY <1>1, ClampType, RetryAssumption, ProcessorAssumption DEF NewJob, SetRetry, Job, JobState
<1>3. UNCHANGED <<fetcher, worker, retrier, retry, processing>> /\ client[j] = "none"
  BY <1>1 DEF ClientEnqueue, engineVars, Enqueue
<1>4. \A jid \in JIDs \ {j}, n \in Nat : QueueNewer(jid, n) => QueueNewer(jid, n)'
  BY <1>1, <1>2, EnqueueNewer DEF TypeOK
<1>. QED  BY <1>1, <1>3, <1>4, SameNewer DEF Newer

\* What is nowhere is newer than anything.
LEMMA NowhereNewer ==
  ASSUME NEW jid \in JIDs, NEW n,
         ~Queued(jid)', ~InRetry(jid)', ~FetcherHolds(jid)', ~WorkerHolds(jid)', ~RetrierHolds(jid)'
  PROVE  Newer(jid, n)'
BY DEF Newer, QueueNewer, RetryNewer, FetcherNewer, WorkerNewer, RetrierNewer, Queued, InRetry,
       FetcherHolds, WorkerHolds, RetrierHolds

AckInv == RawCounts /\ HandsKnown /\ AckedOlder /\ HeldIsLeased

\* fetcher() acks a job that it has handed back, and so that no worker has.
LEMMA FetcherKeepsAcked ==
  ASSUME LeaseInv, AckInv, Calm, Alone, NEW e \in Engines, Fetcher(e)
  PROVE  AckInv'
<1>0. ~Disturb("error")
  BY CalmCalls DEF LeaseInv
<1>. USE <1>0
<1>1. /\ TypeOK /\ BrokerTypeOK /\ Budget /\ RawKept /\ Placed /\ Known /\ PlacesApart
      /\ RawCounts /\ HandsKnown /\ AckedOlder /\ HeldIsLeased
      /\ (fetcher[e].pc \in {"send", "fallback", "ack"}) <=> (fetcher[e].job # NoJob)
      /\ fetcher[e].job # NoJob => fetcher[e].job \in Job /\ Raw(fetcher[e].job)
      /\ client' = client
  BY DEF LeaseInv, AckInv, Placed, Apart, TypeOK, FetcherTypeOK, Fetchers, RawKept, Fetcher,
         FetcherTop, FetcherPoll, FetcherSend, FetcherHandBack, FetcherFallback, FetcherAck, history
<1>2. Ages /\ RawCounts'
  BY <1>1, FetcherAges DEF Calm
<1>3. ASSUME NEW pc, NEW job, FetcherGoes(e, pc, job), worker' = worker,
             job # NoJob => client[job.jid] # "none",
             pc = "ack" => FetcherHolds(job.jid) /\ job.jid \in JIDs,
             pc = "send" => job.rawPayload \in processing',
             processing \subseteq processing'
      PROVE  AckInv'
  <2>1. \A f \in Engines : f = e /\ fetcher'[f].job = job /\ fetcher'[f].pc = pc
    BY <1>1, <1>3 DEF Alone, FetcherGoes, TypeOK, FetcherTypeOK
  <2>2. HandsKnown'
    BY <1>1, <1>3, <2>1 DEF HandsKnown
  <2>3. HeldIsLeased'
    BY <1>1, <1>3, <2>1 DEF HeldIsLeased
  <2>4. ASSUME NEW f \in Engines, NEW jid \in JIDs, fetcher'[f].pc = "ack", fetcher'[f].job.jid = jid
        PROVE  ~WorkerHolds(jid)'
    BY <1>1, <1>3, <2>1, <2>4, SameHolders DEF PlacesApart
  <2>5. AckedOlder'
    BY <1>1, <1>2, <1>3, <2>4 DEF AckedOlder, Ages
  <2>. QED  BY <1>2, <2>2, <2>3, <2>5 DEF AckInv
<1>4. CASE FetcherTop(e)
  <2>1. UNCHANGED <<processing, worker>> /\ fetcher[e].job = NoJob
    BY <1>1, <1>4 DEF FetcherTop, brokerVars
  <2>2. \A f \in Engines : /\ fetcher'[f].job = fetcher[f].job
                           /\ fetcher'[f].pc \in {"send", "fallback", "ack"} => fetcher'[f] = fetcher[f]
    BY <1>1, <1>4, <2>1 DEF FetcherTop, FetcherGoes, FetcherPolls, TypeOK, FetcherTypeOK
  <2>3. HandsKnown' /\ HeldIsLeased'
    BY <1>1, <2>1, <2>2 DEF HandsKnown, HeldIsLeased
  <2>4. AckedOlder'
    BY <1>1, <1>2, <2>1, <2>2, SameHolders DEF AckedOlder, Ages
  <2>. QED  BY <1>2, <2>3, <2>4 DEF AckInv
<1>5. CASE FetcherPoll(e)
  <2>1. CASE Dequeue(PolledQueue(e)) /\ FetcherGoes(e, "send", DequeuedJob(PolledQueue(e)))
    <3>. DEFINE q == PolledQueue(e)
                job == DequeuedJob(q)
    <3>1. /\ job \in Job /\ job.rawPayload = Head(queues[q]) /\ FetcherGoes(e, "send", job)
          /\ processing' = processing \cup {Head(queues[q])} /\ Queued(job.jid)
      BY <1>1, <2>1, DequeueType, DequeueQueues, PolledQueueType DEF Dequeue
    <3>2. worker' = worker /\ job.jid \in JIDs
      BY <1>5, <3>1 DEF FetcherPoll, Job
    <3>. HIDE DEF q, job
    <3>3. client[job.jid] # "none"
      BY <1>1, <3>1, <3>2 DEF Known
    <3>. QED  BY <1>3, <3>1, <3>2, <3>3
  <2>2. CASE FetcherGoes(e, "top", NoJob) /\ UNCHANGED brokerVars
    <3>1. UNCHANGED <<processing, worker>>
      BY <1>5, <2>2 DEF FetcherPoll, brokerVars
    <3>. QED  BY <1>3, <2>2, <3>1
  <2>. QED  BY <1>5, <2>1, <2>2 DEF FetcherPoll, Call
<1>6. CASE FetcherSend(e)
  <2>. DEFINE job == [fetcher[e].job EXCEPT !.state = "active"]
  <2>1. /\ job.rawPayload = fetcher[e].job.rawPayload /\ job.jid = fetcher[e].job.jid
        /\ fetcher[e].job # NoJob /\ fetcher[e].job.rawPayload \in processing
        /\ processing' = processing
    BY <1>1, <1>6 DEF FetcherSend, Job, brokerVars, HeldIsLeased
  <2>2. PICK s \in Slots : WorkerGoes(s, "perform", job)
    BY <1>6 DEF FetcherSend, WorkerGoes
  <2>. HIDE DEF job
  <2>3. \A f \in Engines : f = e /\ fetcher'[f].job = NoJob /\ fetcher'[f].pc = "top"
    BY <1>1, <1>6 DEF FetcherSend, FetcherGoes, TypeOK, FetcherTypeOK, Alone
  <2>4. \A t \in Slots : worker'[t] = IF t = s THEN [pc |-> "perform", job |-> job] ELSE worker[t]
    BY <1>1, <2>2 DEF WorkerGoes, TypeOK, WorkerTypeOK
  <2>5. HandsKnown'
    BY <1>1, <2>1, <2>3, <2>4 DEF HandsKnown
  <2>6. HeldIsLeased'
    BY <1>1, <2>1, <2>3, <2>4 DEF HeldIsLeased
  <2>7. AckedOlder'
    BY <1>1, <1>2, <2>3, <2>4 DEF AckedOlder, Ages
  <2>. QED  BY <1>2, <2>5, <2>6, <2>7 DEF AckInv
<1>7. CASE FetcherHandBack(e)
  <2>. DEFINE job == [fetcher[e].job EXCEPT !.state = "pending"]
  <2>1. /\ job.jid = fetcher[e].job.jid /\ fetcher[e].job # NoJob /\ job.jid \in JIDs
    BY <1>1, <1>7 DEF FetcherHandBack, Job
  <2>2. FetcherGoes(e, "ack", job) /\ worker' = worker /\ processing' = processing
    BY <1>7 DEF FetcherHandBack, Call, Enqueue
  <2>3. FetcherHolds(job.jid)
    BY <1>7, <2>1 DEF FetcherHandBack, FetcherHolds, FetcherHas
  <2>4. client[job.jid] # "none"
    BY <1>1, <2>1 DEF HandsKnown
  <2>. HIDE DEF job
  <2>. QED  BY <1>3, <2>1, <2>2, <2>3, <2>4
<1>8. CASE FetcherFallback(e)
  <2>. DEFINE job == fetcher[e].job
  <2>1. job # NoJob /\ job.jid \in JIDs
    BY <1>1, <1>8 DEF FetcherFallback, Job
  <2>2. FetcherGoes(e, "ack", job) /\ worker' = worker /\ processing' = processing
    BY <1>8 DEF FetcherFallback, Call, AddToRetry
  <2>3. FetcherHolds(job.jid)
    BY <1>8 DEF FetcherFallback, FetcherHolds, FetcherHas
  <2>4. client[job.jid] # "none"
    BY <1>1, <2>1 DEF HandsKnown
  <2>. HIDE DEF job
  <2>. QED  BY <1>3, <2>1, <2>2, <2>3, <2>4
<1>9. CASE FetcherAck(e)
  <2>. DEFINE job == fetcher[e].job
  <2>1. Ack(job) /\ FetcherGoes(e, "exited", NoJob) /\ worker' = worker /\ Raw(job) /\ job.jid \in JIDs
    BY <1>1, <1>9 DEF FetcherAck, Call, Job
  <2>2. processing' = processing \ {job.rawPayload}
    BY <2>1, AckRaw
  <2>3. ~WorkerHolds(job.jid)
    BY <1>1, <1>9, <2>1 DEF FetcherAck, AckedOlder
  <2>4. \A s \in Slots : worker[s].pc \in {"perform", "schedule"} =>
          worker[s].job.rawPayload.jid = worker[s].job.jid /\ worker[s].job.jid # job.jid
    BY <1>1, <2>3 DEF RawKept, Raw, TypeOK, WorkerTypeOK, WorkerHolds, WorkerHas
  <2>5. \A f \in Engines : f = e /\ fetcher'[f].job = NoJob /\ fetcher'[f].pc = "exited"
    BY <1>1, <2>1 DEF FetcherGoes, TypeOK, FetcherTypeOK, Alone
  <2>. HIDE DEF job
  <2>6. HeldIsLeased'
    BY <1>1, <2>1, <2>2, <2>4, <2>5 DEF HeldIsLeased, Raw
  <2>7. HandsKnown' /\ AckedOlder'
    BY <1>1, <1>2, <2>1, <2>5 DEF HandsKnown, AckedOlder, Ages
  <2>. QED  BY <1>2, <2>6, <2>7 DEF AckInv
<1>. QED  BY <1>4, <1>5, <1>6, <1>7, <1>8, <1>9 DEF Fetcher

\* processJob() acks a job that is done, dead or in the retry set with a higher count.
LEMMA WorkerKeepsAcked ==
  ASSUME LeaseInv, AckInv, Calm, Breakerless, NEW s \in Slots, Worker(s)
  PROVE  AckInv'
<1>0. ~Disturb("error")
  BY CalmCalls DEF LeaseInv
<1>. USE <1>0
<1>1. /\ TypeOK /\ BrokerTypeOK /\ RawKept /\ Placed /\ WorkersApart /\ PlacesApart
      /\ RawCounts /\ HandsKnown /\ AckedOlder /\ HeldIsLeased
      /\ (worker[s].pc \in {"perform", "schedule", "ack"}) <=> (worker[s].job # NoJob)
      /\ worker[s].job # NoJob => worker[s].job \in Job /\ Raw(worker[s].job)
      /\ UNCHANGED <<client, fetcher, retrier>>
  BY DEF LeaseInv, AckInv, Placed, Apart, TypeOK, WorkerTypeOK, Workers, RawKept, Worker,
         JobSucceeds, JobFails, JobMeetsOpenCircuit, WorkerSchedules, WorkerAcks, WorkerExits, history
<1>2. Ages /\ RawCounts'
  BY <1>1, WorkerAges DEF Calm
<1>3. ASSUME NEW pc \in {"idle", "exited", "schedule", "ack"}, NEW job, WorkerGoes(s, pc, job),
             job # NoJob => /\ worker[s].job # NoJob /\ job.jid = worker[s].job.jid
                            /\ job.rawPayload = worker[s].job.rawPayload,
             (pc \in {"schedule", "ack"}) <=> (job # NoJob),
             pc = "schedule" => worker[s].pc = "perform",
             \A jid \in JIDs, n \in Nat :
               pc = "ack" /\ job.jid = jid /\ job.rawPayload.retryCount = n => Newer(jid, n)',
             \/ processing' = processing
             \/ /\ pc = "idle" /\ processing' = processing \ {worker[s].job.rawPayload}
                /\ worker[s].pc = "ack"
      PROVE  AckInv'
  <2>1. \A t \in Slots : worker'[t] = IF t = s THEN [pc |-> pc, job |-> job] ELSE worker[t]
    BY <1>1, <1>3 DEF WorkerGoes, TypeOK, WorkerTypeOK
  <2>2. HandsKnown'
    BY <1>1, <1>3, <2>1 DEF HandsKnown
  <2>3. \A jid \in JIDs : WorkerHolds(jid)' => WorkerHolds(jid)
    BY <1>3, <2>1 DEF WorkerHolds, WorkerHas
  <2>4. AckedOlder'
    BY <1>1, <1>2, <1>3, <2>1, <2>3 DEF AckedOlder, Ages
  <2>5. CASE processing' = processing
    <3>1. HeldIsLeased'
      BY <1>1, <1>3, <2>1, <2>5 DEF HeldIsLeased
    <3>. QED  BY <1>2, <2>2, <2>4, <3>1 DEF AckInv
  <2>6. CASE /\ pc = "idle" /\ processing' = processing \ {worker[s].job.rawPayload}
             /\ worker[s].pc = "ack"
    <3>. DEFINE raw == worker[s].job.rawPayload
    <3>1. raw \in Bytes /\ raw.jid = worker[s].job.jid /\ raw.jid \in JIDs /\ raw.retryCount \in Nat
      BY <1>1, <2>6 DEF Raw, Bytes
    <3>2. Newer(raw.jid, raw.retryCount)
      BY <1>1, <2>6, <3>1 DEF AckedOlder
    <3>. HIDE DEF raw
    <3>3. ASSUME NEW f \in Engines, fetcher[f].pc = "send"
          PROVE  fetcher[f].job.rawPayload # raw
      <4>1. fetcher[f].job.rawPayload.jid = fetcher[f].job.jid
        BY <1>1, <3>3 DEF RawKept, Raw, TypeOK, FetcherTypeOK
      <4>. QED  BY <3>1, <3>2, <3>3, <4>1 DEF Newer, FetcherNewer, FetcherHas
    <3>4. ASSUME NEW t \in Slots, worker[t].pc \in {"perform", "schedule"}
          PROVE  worker[t].job.rawPayload # raw
      <4>1. worker[t].job.rawPayload.jid = worker[t].job.jid
        BY <1>1, <3>4 DEF RawKept, Raw, TypeOK, WorkerTypeOK
      <4>. QED  BY <3>1, <3>2, <3>4, <4>1 DEF Newer, WorkerNewer, WorkerHas
    <3>5. processing' = processing \ {raw}
      BY <2>6 DEF raw
    <3>6. HeldIsLeased'
      BY <1>1, <2>1, <2>6, <3>3, <3>4, <3>5 DEF HeldIsLeased
    <3>. QED  BY <1>2, <2>2, <2>4, <3>6 DEF AckInv
  <2>. QED  BY <1>3, <2>5, <2>6
<1>4. CASE JobSucceeds(s)
  <2>. DEFINE job == [worker[s].job EXCEPT !.state = "success"]
  <2>1. /\ WorkerGoes(s, "ack", job) /\ UNCHANGED <<queues, retry, processing>>
        /\ worker[s].job \in Job /\ worker[s].job # NoJob
    BY <1>1, <1>4 DEF JobSucceeds, Call, RecordSuccess
  <2>2. /\ job \in Job /\ job.jid = worker[s].job.jid /\ job.rawPayload = worker[s].job.rawPayload
        /\ WorkerHas(s, job.jid) /\ job.jid \in JIDs
    BY <1>4, <2>1 DEF JobSucceeds, WorkerHas, Job, JobState
  <2>. HIDE DEF job
  <2>3. ASSUME NEW jid \in JIDs, NEW n \in Nat, job.jid = jid
        PROVE  Newer(jid, n)'
    <3>1. WorkerHas(s, jid) /\ WorkerHolds(jid)
      BY <2>2, <2>3 DEF WorkerHolds
    <3>2. ~WorkerHolds(jid)'
      BY <1>1, <2>1, <3>1, WorkerMoves
    <3>3. ~Queued(jid) /\ ~InRetry(jid) /\ ~FetcherHolds(jid) /\ ~RetrierHolds(jid)
      BY <1>1, <3>1 DEF PlacesApart
    <3>. QED  BY <1>1, <2>1, <3>2, <3>3, SameHolders, NowhereNewer
  <2>4. job # NoJob
    BY <2>2, ProcessorAssumption
  <2>. QED  BY <1>3, <2>1, <2>2, <2>3, <2>4
<1>5. CASE JobFails(s)
  <2>. DEFINE job == FailedJob(worker[s].job)
  <2>1. /\ WorkerGoes(s, "schedule", job) /\ processing' = processing /\ worker[s].pc = "perform"
        /\ worker[s].job \in Job /\ worker[s].job # NoJob
    BY <1>1, <1>5 DEF JobFails, Call, RecordFailure
  <2>2. job \in Job /\ job.jid = worker[s].job.jid /\ job.rawPayload = worker[s].job.rawPayload
    BY <2>1, FailedJobType DEF FailedJob, Job
  <2>. HIDE DEF job
  <2>3. job # NoJob
    BY <2>2, ProcessorAssumption
  <2>. QED  BY <1>3, <2>1, <2>2, <2>3
<1>6. CASE WorkerSchedules(s)
  <2>. DEFINE job == worker[s].job
  <2>1. /\ WorkerGoes(s, "ack", job) /\ (AddToDead(job) \/ AddToRetry(job))
        /\ job \in Job /\ job # NoJob /\ WorkerHas(s, job.jid) /\ job.jid \in JIDs
        /\ job.retryCount > job.rawPayload.retryCount
    BY <1>1, <1>6 DEF WorkerSchedules, Call, WorkerHas, Job, RawCounts
  <2>2. UNCHANGED <<queues, processing>>
    BY <2>1 DEF AddToDead, AddToRetry
  <2>. HIDE DEF job
  <2>3. ASSUME NEW jid \in JIDs, NEW n \in Nat, job.jid = jid, job.rawPayload.retryCount = n
        PROVE  Newer(jid, n)'
    <3>1. WorkerHas(s, jid) /\ WorkerHolds(jid)
      BY <2>1, <2>3 DEF WorkerHolds
    <3>2. ~WorkerHolds(jid)'
      BY <1>1, <2>1, <3>1, WorkerMoves
    <3>3. ~Queued(jid) /\ ~InRetry(jid) /\ ~FetcherHolds(jid) /\ ~RetrierHolds(jid)
      BY <1>1, <3>1 DEF PlacesApart
    <3>4. ~Queued(jid)' /\ ~FetcherHolds(jid)' /\ ~RetrierHolds(jid)'
      BY <1>1, <2>2, <3>3, SameHolders
    <3>5. QueueNewer(jid, n)' /\ FetcherNewer(jid, n)' /\ WorkerNewer(jid, n)' /\ RetrierNewer(jid, n)'
      BY <3>2, <3>4 DEF QueueNewer, FetcherNewer, WorkerNewer, RetrierNewer, Queued,
                        FetcherHolds, WorkerHolds, RetrierHolds
    <3>6. RetryNewer(jid, n)
      BY <3>3 DEF RetryNewer, InRetry
    <3>7. RetryNewer(jid, n)'
      <4>1. CASE AddToDead(job)
        BY <3>6, <4>1, SameNewer DEF AddToDead
      <4>2. CASE AddToRetry(job)
        BY <2>1, <2>3, <3>6, <4>2, AddToRetryNewer
      <4>. QED  BY <2>1, <4>1, <4>2
    <3>. QED  BY <3>5, <3>7 DEF Newer
  <2>4. job = worker[s].job
    BY DEF job
  <2>. QED  BY <1>3, <2>1, <2>2, <2>3, <2>4
<1>7. CASE WorkerAcks(s)
  <2>1. /\ WorkerGoes(s, "idle", NoJob) /\ Ack(worker[s].job) /\ Raw(worker[s].job)
        /\ worker[s].pc = "ack"
    BY <1>1, <1>7 DEF WorkerAcks, Call
  <2>2. processing' = processing \ {worker[s].job.rawPayload}
    BY <2>1, AckRaw
  <2>. QED  BY <1>3, <2>1, <2>2
<1>8. CASE WorkerExits(s)
  <2>1. WorkerGoes(s, "exited", NoJob) /\ processing' = processing
    BY <1>8 DEF WorkerExits, brokerVars
  <2>. QED  BY <1>3, <2>1
<1>. QED  BY <1>4, <1>5, <1>6, <1>7, <1>8
          DEF Worker, JobMeetsOpenCircuit, HandlerMayReturn, Breakerless

\* Steps that leave the leases and the hands of fetchers and workers alone.
LEMMA OthersKeepAcked ==
  ASSUME AckInv, Ages, UNCHANGED <<processing, client, fetcher, worker>>
  PROVE  AckInv'
<1>1. RawCounts' /\ HandsKnown' /\ HeldIsLeased'
  BY DEF AckInv, RawCounts, HandsKnown, HeldIsLeased
<1>2. AckedOlder'
  BY SameHolders DEF AckInv, AckedOlder, Ages
<1>. QED  BY <1>1, <1>2 DEF AckInv

\* A client's job is nobody's yet.
LEMMA ClientKeepsAcked ==
  ASSUME TypeOK, AckInv, Calm, NEW q \in Queues,
         ClearQueue(q) \/ \E jid \in JIDs : ClientEnqueue(jid, q)
  PROVE  AckInv'
<1>. USE CalmCalls
<1>1. CASE ClearQueue(q)
  <2>1. /\ UNCHANGED <<retry, processing, client, fetcher, worker, retrier>>
        /\ queues' = [queues EXCEPT ![q] = <<>>]
    BY <1>1 DEF ClearQueue, DeleteKey, engineVars, history
  <2>2. \A r \in Queues : \A i \in DOMAIN queues'[r] :
          i \in DOMAIN queues[r] /\ queues'[r][i] = queues[r][i]
    BY <2>1 DEF TypeOK, BrokerTypeOK
  <2>3. \A jid, n : QueueNewer(jid, n) => QueueNewer(jid, n)'
    BY <2>2 DEF QueueNewer
  <2>4. Ages
    BY <2>1, <2>3, SameNewer DEF Ages, Newer
  <2>. QED  BY <2>1, <2>4, OthersKeepAcked
<1>2. ASSUME NEW j \in JIDs, ClientEnqueue(j, q)
      PROVE  AckInv'
  <2>1. /\ \A jid \in JIDs \ {j}, n \in Nat : Newer(jid, n) => Newer(jid, n)'
        /\ client[j] = "none" /\ client' = [client EXCEPT ![j] = "accepted"]
        /\ UNCHANGED <<fetcher, worker, processing>>
    BY <1>2, ClientAges
  <2>2. \A jid : client'[jid] = "none" => client[jid] = "none"
    BY <2>1 DEF TypeOK, HistoryTypeOK
  <2>3. RawCounts' /\ HandsKnown' /\ HeldIsLeased'
    BY <2>1, <2>2 DEF AckInv, RawCounts, HandsKnown, HeldIsLeased
  <2>4. \A s \in Slots : worker[s].pc = "ack" => worker[s].job.jid # j
    BY <2>1 DEF AckInv, HandsKnown, TypeOK, WorkerTypeOK
  <2>5. AckedOlder'
    BY <2>1, <2>4, SameHolders DEF AckInv, AckedOlder
  <2>. QED  BY <2>3, <2>5 DEF AckInv
<1>. QED  BY <1>1, <1>2

\* A start finds the hands of the engine empty.
LEMMA LifeKeepsAcked ==
  ASSUME TypeOK, DownIsIdle, AckInv, Calm, NEW e \in Engines,
         Start(e) \/ Stop(e) \/ StopReturns(e) \/ Crash(e)
  PROVE  AckInv'
<1>. USE CalmCalls
<1>1. UNCHANGED <<queues, retry, processing, client>>
  BY DEF Start, Stop, StopReturns, Crash, brokerVars, history
<1>2. CASE Start(e)
  <2>1. \A f \in Engines :
          /\ fetcher'[f] = fetcher[f] \/ (fetcher'[f].pc = "top" /\ fetcher'[f].job = NoJob)
          /\ retrier'[f] = retrier[f] \/ retrier'[f].pc = "loop"
    BY <1>2 DEF Start, NoFetcher, NoRetrier, TypeOK, FetcherTypeOK, RetrierTypeOK
  <2>2. \A s \in Slots : worker'[s] = worker[s] \/ (worker'[s].pc = "idle" /\ worker'[s].job = NoJob)
    BY <1>2 DEF Start, NoWorker
  <2>3. \A jid, n : /\ FetcherNewer(jid, n) => FetcherNewer(jid, n)'
                    /\ WorkerNewer(jid, n) => WorkerNewer(jid, n)'
                    /\ RetrierNewer(jid, n) => RetrierNewer(jid, n)'
    BY <2>1, <2>2 DEF FetcherNewer, WorkerNewer, RetrierNewer, FetcherHas, WorkerHas, RetrierHas
  <2>4. Ages
    BY <1>1, <2>3, SameNewer DEF Ages, Newer
  <2>5. RawCounts' /\ HandsKnown' /\ HeldIsLeased'
    BY <1>1, <2>1, <2>2 DEF AckInv, RawCounts, HandsKnown, HeldIsLeased
  <2>6. \A jid \in JIDs : WorkerHolds(jid)' => WorkerHolds(jid)
    BY <2>2 DEF WorkerHolds, WorkerHas
  <2>7. AckedOlder'
    BY <2>1, <2>2, <2>4, <2>6 DEF AckInv, AckedOlder, Ages
  <2>. QED  BY <2>5, <2>7 DEF AckInv
<1>3. CASE Stop(e) \/ StopReturns(e)
  <2>1. UNCHANGED <<fetcher, worker, retrier>>
    BY <1>3 DEF Stop, StopReturns
  <2>. QED  BY <1>1, <2>1, SameNewer, OthersKeepAcked DEF Ages, Newer
<1>. QED  BY <1>2, <1>3 DEF Crash

\* Every step keeps the leases of the jobs in hand.
LEMMA StepAcked ==
  ASSUME LeaseInv, AckInv, [Next]_vars, Calm, Alone, Breakerless
  PROVE  AckInv'
<1>1. TypeOK /\ DownIsIdle /\ Placed /\ AllHeld
  BY DEF LeaseInv
<1>. USE <1>1
<1>2. ASSUME UNCHANGED <<queues, retry, processing, client, fetcher, worker, retrier>>
      PROVE  AckInv'
  BY <1>2, SameNewer, OthersKeepAcked DEF Ages, Newer
<1>3. CASE UNCHANGED vars
  BY <1>2, <1>3 DEF vars, brokerVars, engineVars, history
<1>4. ASSUME NEW q \in Queues, ClearQueue(q) \/ \E jid \in JIDs : ClientEnqueue(jid, q)
      PROVE  AckInv'
  BY <1>4, ClientKeepsAcked
<1>5. ASSUME NEW e \in Engines, Start(e) \/ Stop(e) \/ StopReturns(e) \/ Crash(e)
      PROVE  AckInv'
  BY <1>5, LifeKeepsAcked
<1>6. ASSUME NEW e \in Engines, Fetcher(e)
      PROVE  AckInv'
  BY <1>6, FetcherKeepsAcked
<1>7. ASSUME NEW e \in Engines, Retrier(e)
      PROVE  AckInv'
  <2>1. UNCHANGED <<processing, client, fetcher, worker>>
    BY <1>7, CalmCalls
       DEF Retrier, RetryTick, RetrySkips, RetryRemoves, RetryEnqueues, RetryFallsBack,
           RetryExits, Call, CallWithEngineContext, RemoveFromRetry, Enqueue, AddToDead,
           AddToRetry, brokerVars, history
  <2>2. Ages
    BY <1>7, RetrierAges, SameNewer DEF Ages, Newer, StoreAges, StoreNewer
  <2>. QED  BY <2>1, <2>2, OthersKeepAcked
<1>8. ASSUME NEW e \in Engines, Reaper(e)
      PROVE  AckInv'
  <2>1. expired = {} /\ reaper[e].batch = {}
    BY DEF Placed, NothingToReap
  <2>2. ReaperExits(e)
    BY <1>8, <2>1 DEF Reaper, ReaperTick, ReaperSkips, ReaperEnqueues
  <2>. QED  BY <1>2, <2>2 DEF ReaperExits, brokerVars, history
<1>9. ASSUME NEW s \in Slots, Worker(s)
      PROVE  AckInv'
  BY <1>9, WorkerKeepsAcked
<1>10. ASSUME NEW data \in processing, OrphanLeaseExpires(data) \/ HeldLeaseExpires(data)
       PROVE  FALSE
  BY <1>10, CalmCalls DEF OrphanLeaseExpires, HeldLeaseExpires, AllHeld
<1>11. ASSUME NEW data \in retry, BackoffEnds(data)
       PROVE  AckInv'
  BY <1>2, <1>11 DEF BackoffEnds, RetryFallsDue, engineVars, history
<1>. QED  BY <1>3, <1>4, <1>5, <1>6, <1>7, <1>8, <1>9, <1>10, <1>11 DEF Next

\* In one engine without a circuit breaker, whose calls succeed and whose leases
\* hold, a job in the hands of a fetcher or a worker is under a lease: no late Ack
\* of an earlier attempt takes the lease of the present one away.
THEOREM LeasesAreKept ==
  ASSUME Calm, Alone, Breakerless
  PROVE  Spec => []HeldIsLeased
<1>1. Init => AckInv
  <2>. SUFFICES ASSUME Init PROVE AckInv
    OBVIOUS
  <2>1. /\ \A e \in Engines : fetcher[e].pc = "exited" /\ fetcher[e].job = NoJob
        /\ \A s \in Slots : worker[s].pc = "exited" /\ worker[s].job = NoJob
    BY DEF Init, NoFetcher, NoWorker
  <2>. QED  BY <2>1 DEF AckInv, RawCounts, HandsKnown, AckedOlder, HeldIsLeased
<1>2. LeaseInv /\ AckInv /\ [Next]_vars => AckInv'
  BY StepAcked
<1>3. AckInv => HeldIsLeased
  BY DEF AckInv
<1>. QED  BY <1>1, <1>2, <1>3, LeaseInvHolds, PTL DEF Spec

-----------------------------------------------------------------------------
(* FollowsLifecycle: the engine implements JobLifecycle.                      *)
(*                                                                            *)
(* A job's phase is read off the places it can be in, so a step keeps to the  *)
(* life cycle when the job that moves has no other copy (Placed) and has not  *)
(* finished before.  LifeInv adds the latter, and that every copy of a job    *)
(* has counted its failed attempts: that bounds them by the retry count.  The *)
(* argument needs no assumption on the handlers: an open circuit leaves the   *)
(* count of a job as it is.                                                   *)

FetcherAbove(jid, n) ==
  \A e \in Engines : FetcherHas(e, jid) => fetcher[e].job.retryCount > n
WorkerAbove(jid, n) ==
  \A s \in Slots : WorkerHas(s, jid) => worker[s].job.retryCount > n

\* Every copy of the job has a retry count above n.
Above(jid, n) == StoreNewer(jid, n) /\ FetcherAbove(jid, n) /\ WorkerAbove(jid, n)

\* Retry counts do not fall, and no copy comes from nowhere.
Counts == \A jid \in JIDs, n \in Nat : Above(jid, n) => Above(jid, n)'

\* Moves of fetchers and workers.
LEMMA GoesAbove ==
  ASSUME TypeOK, NEW jid \in JIDs, NEW n
  PROVE  /\ \A e \in Engines : \A pc, job :
              FetcherGoes(e, pc, job) /\ FetcherAbove(jid, n)
                /\ (pc \in {"send", "fallback"} /\ job.jid = jid => job.retryCount > n)
              => FetcherAbove(jid, n)'
         /\ \A s \in Slots : \A pc, job :
              WorkerGoes(s, pc, job) /\ WorkerAbove(jid, n)
                /\ (pc \in {"perform", "schedule"} /\ job.jid = jid => job.retryCount > n)
              => WorkerAbove(jid, n)'
<1>1. ASSUME NEW e \in Engines, NEW pc, NEW job, FetcherGoes(e, pc, job), FetcherAbove(jid, n),
             pc \in {"send", "fallback"} /\ job.jid = jid => job.retryCount > n
      PROVE  FetcherAbove(jid, n)'
  BY <1>1 DEF FetcherAbove, FetcherHas, FetcherGoes, TypeOK, FetcherTypeOK
<1>2. ASSUME NEW s \in Slots, NEW pc, NEW job, WorkerGoes(s, pc, job), WorkerAbove(jid, n),
             pc \in {"perform", "schedule"} /\ job.jid = jid => job.retryCount > n
      PROVE  WorkerAbove(jid, n)'
  BY <1>2 DEF WorkerAbove, WorkerHas, WorkerGoes, TypeOK, WorkerTypeOK
<1>. QED  BY <1>1, <1>2

\* Hands that do not change.
LEMMA SameAbove ==
  /\ fetcher' = fetcher => \A jid, n : FetcherAbove(jid, n) => FetcherAbove(jid, n)'
  /\ worker' = worker => \A jid, n : WorkerAbove(jid, n) => WorkerAbove(jid, n)'
BY DEF FetcherAbove, WorkerAbove, FetcherHas, WorkerHas

\* fetcher() leaves the count of its job alone.
LEMMA FetcherCounts ==
  ASSUME TypeOK, Budget, Calm, NEW e \in Engines, Fetcher(e)
  PROVE  Counts
<1>. USE CalmCalls DEF Counts, Above, StoreNewer
<1>1. /\ BrokerTypeOK /\ RetryBudget
      /\ (fetcher[e].pc \in {"send", "fallback", "ack"}) <=> (fetcher[e].job # NoJob)
      /\ fetcher[e].job # NoJob => fetcher[e].job \in Job
      /\ retrier' = retrier
  BY DEF TypeOK, Budget, FetcherTypeOK, Fetchers, Fetcher, FetcherTop, FetcherPoll,
         FetcherSend, FetcherHandBack, FetcherFallback, FetcherAck
<1>2. CASE FetcherTop(e)
  <2>1. UNCHANGED <<queues, retry, worker>>
    BY <1>2 DEF FetcherTop, brokerVars
  <2>2. \A f \in Engines : fetcher'[f].pc \in {"send", "fallback"} => fetcher'[f] = fetcher[f]
    BY <1>2 DEF FetcherTop, FetcherGoes, FetcherPolls, TypeOK, FetcherTypeOK
  <2>3. \A jid, n : FetcherAbove(jid, n) => FetcherAbove(jid, n)'
    BY <2>2 DEF FetcherAbove, FetcherHas
  <2>. QED  BY <1>1, <2>1, <2>3, SameNewer, SameAbove
<1>3. CASE FetcherPoll(e)
  <2>0. worker' = worker
    BY <1>3 DEF FetcherPoll
  <2>1. CASE Dequeue(PolledQueue(e)) /\ FetcherGoes(e, "send", DequeuedJob(PolledQueue(e)))
    <3>. DEFINE q == PolledQueue(e)
                job == DequeuedJob(q)
    <3>1. FetcherGoes(e, "send", job) /\ q \in Queues /\ Dequeue(q) /\ retry' = retry
      BY <2>1, PolledQueueType DEF Dequeue
    <3>2. \A jid, n : QueueNewer(jid, n) => /\ QueueNewer(jid, n)'
                                            /\ job.jid = jid => job.retryCount > n
      BY <1>1, <3>1, DequeueNewer
    <3>. HIDE DEF q, job
    <3>. QED  BY <1>1, <2>0, <3>1, <3>2, SameNewer, SameAbove, GoesAbove
  <2>2. CASE FetcherGoes(e, "top", NoJob) /\ UNCHANGED brokerVars
    <3>1. UNCHANGED <<queues, retry>>
      BY <2>2 DEF brokerVars
    <3>. QED  BY <1>1, <2>0, <2>2, <3>1, SameNewer, SameAbove, GoesAbove
  <2>. QED  BY <1>3, <2>1, <2>2 DEF FetcherPoll, Call
<1>4. CASE FetcherSend(e)
  <2>. DEFINE job == [fetcher[e].job EXCEPT !.state = "active"]
  <2>1. /\ job.jid = fetcher[e].job.jid /\ job.retryCount = fetcher[e].job.retryCount
        /\ UNCHANGED <<queues, retry>> /\ FetcherGoes(e, "top", NoJob)
    BY <1>1, <1>4 DEF FetcherSend, Job, brokerVars
  <2>2. PICK s \in Slots : WorkerGoes(s, "perform", job)
    BY <1>4 DEF FetcherSend, WorkerGoes
  <2>. HIDE DEF job
  <2>3. ASSUME NEW jid \in JIDs, NEW n, FetcherAbove(jid, n)
        PROVE  job.jid = jid => job.retryCount > n
    BY <1>4, <2>1, <2>3 DEF FetcherSend, FetcherAbove, FetcherHas
  <2>4. \A jid \in JIDs, n \in Nat : Above(jid, n) => FetcherAbove(jid, n)' /\ WorkerAbove(jid, n)'
    BY <2>1, <2>2, <2>3, GoesAbove
  <2>. QED  BY <1>1, <2>1, <2>4, SameNewer
<1>5. CASE FetcherHandBack(e)
  <2>. DEFINE job == [fetcher[e].job EXCEPT !.state = "pending"]
  <2>1. job.jid = fetcher[e].job.jid /\ job.retryCount = fetcher[e].job.retryCount /\ job \in Job
    BY <1>1, <1>5 DEF FetcherHandBack, Job, JobState
  <2>2. Enqueue(job.queue, job) /\ FetcherGoes(e, "ack", job) /\ worker' = worker
    BY <1>5 DEF FetcherHandBack, Call
  <2>. HIDE DEF job
  <2>3. ASSUME NEW jid \in JIDs, NEW n, FetcherAbove(jid, n)
        PROVE  job.jid = jid => job.retryCount > n
    BY <1>5, <2>1, <2>3 DEF FetcherHandBack, FetcherAbove, FetcherHas
  <2>4. \A jid \in JIDs, n \in Nat : Above(jid, n) => FetcherAbove(jid, n)' /\ QueueNewer(jid, n)'
    BY <1>1, <2>1, <2>2, <2>3, GoesAbove, EnqueueNewer
  <2>5. retry' = retry
    BY <2>2 DEF Enqueue
  <2>. QED  BY <1>1, <2>2, <2>4, <2>5, SameNewer, SameAbove
<1>6. CASE FetcherFallback(e)
  <2>. DEFINE job == fetcher[e].job
  <2>1. AddToRetry(job) /\ FetcherGoes(e, "ack", job) /\ worker' = worker
    BY <1>6 DEF FetcherFallback, Call
  <2>2. ASSUME NEW jid \in JIDs, NEW n, FetcherAbove(jid, n)
        PROVE  job.jid = jid => job.retryCount > n
    BY <1>6, <2>2 DEF FetcherFallback, FetcherAbove, FetcherHas
  <2>. HIDE DEF job
  <2>3. \A jid \in JIDs, n \in Nat : Above(jid, n) => FetcherAbove(jid, n)' /\ RetryNewer(jid, n)'
    BY <2>1, <2>2, GoesAbove, AddToRetryNewer
  <2>4. queues' = queues
    BY <2>1 DEF AddToRetry
  <2>. QED  BY <1>1, <2>1, <2>3, <2>4, SameNewer, SameAbove
<1>7. CASE FetcherAck(e)
  <2>1. Ack(fetcher[e].job) /\ FetcherGoes(e, "exited", NoJob) /\ worker' = worker
    BY <1>7 DEF FetcherAck, Call
  <2>2. UNCHANGED <<queues, retry>>
    BY <2>1 DEF Ack
  <2>. QED  BY <1>1, <2>1, <2>2, SameNewer, SameAbove, GoesAbove
<1>. QED  BY <1>2, <1>3, <1>4, <1>5, <1>6, <1>7 DEF Fetcher

\* processJob() and handleFailure() count one attempt more, or none.
LEMMA WorkerCounts ==
  ASSUME TypeOK, Calm, NEW s \in Slots, Worker(s)
  PROVE  Counts
<1>. USE CalmCalls DEF Counts, Above, StoreNewer
<1>1. /\ worker[s].pc \in {"perform", "schedule", "ack"} => worker[s].job \in Job
      /\ UNCHANGED <<fetcher, retrier>>
  BY DEF TypeOK, WorkerTypeOK, Workers, Worker, JobSucceeds, JobFails,
         JobMeetsOpenCircuit, WorkerSchedules, WorkerAcks, WorkerExits
<1>2. ASSUME NEW pc, NEW job, WorkerGoes(s, pc, job), UNCHANGED <<queues, retry>>,
             pc \in {"perform", "schedule"} => \A jid \in JIDs, n \in Nat :
               WorkerAbove(jid, n) => (job.jid = jid => job.retryCount > n)
      PROVE  Counts
  BY <1>1, <1>2, SameNewer, SameAbove, GoesAbove
<1>3. CASE JobSucceeds(s)
  <2>1. UNCHANGED <<queues, retry>>
    BY <1>3 DEF JobSucceeds, Call, RecordSuccess
  <2>2. WorkerGoes(s, "ack", [worker[s].job EXCEPT !.state = "success"])
    BY <1>3 DEF JobSucceeds
  <2>. QED  BY <1>2, <2>1, <2>2
<1>4. CASE JobFails(s)
  <2>. DEFINE job == FailedJob(worker[s].job)
  <2>1. /\ WorkerGoes(s, "schedule", job) /\ UNCHANGED <<queues, retry>>
        /\ worker[s].job \in Job /\ worker[s].pc = "perform"
    BY <1>1, <1>4 DEF JobFails, Call, RecordFailure
  <2>2. /\ job.jid = worker[s].job.jid /\ worker[s].job.retryCount \in Nat
        /\ job.retryCount = worker[s].job.retryCount + 1
    BY <2>1 DEF FailedJob, Job
  <2>. HIDE DEF job
  <2>3. ASSUME NEW jid \in JIDs, NEW n \in Nat, WorkerAbove(jid, n), job.jid = jid
        PROVE  job.retryCount > n
    <3>1. worker[s].job.retryCount > n
      BY <2>1, <2>2, <2>3 DEF WorkerAbove, WorkerHas
    <3>. QED  BY <2>2, <3>1
  <2>. QED  BY <1>2, <2>1, <2>3
<1>5. CASE JobMeetsOpenCircuit(s)
  <2>. DEFINE job == [worker[s].job EXCEPT !.state = "pending"]
  <2>1. WorkerGoes(s, "schedule", job) /\ UNCHANGED <<queues, retry>> /\ worker[s].job \in Job
    BY <1>1, <1>5 DEF JobMeetsOpenCircuit, Call, RecordFailure
  <2>2. job.jid = worker[s].job.jid /\ job.retryCount = worker[s].job.retryCount
    BY <2>1 DEF Job
  <2>. HIDE DEF job
  <2>3. \A jid \in JIDs, n \in Nat : WorkerAbove(jid, n) => (job.jid = jid => job.retryCount > n)
    BY <1>5, <2>2 DEF JobMeetsOpenCircuit, WorkerAbove, WorkerHas
  <2>. QED  BY <1>2, <2>1, <2>3
<1>6. CASE WorkerSchedules(s)
  <2>. DEFINE job == worker[s].job
  <2>1. WorkerGoes(s, "ack", job) /\ (AddToDead(job) \/ AddToRetry(job))
    BY <1>6 DEF WorkerSchedules, Call
  <2>2. \A jid \in JIDs, n \in Nat : WorkerAbove(jid, n) => (job.jid = jid => job.retryCount > n)
    BY <1>6 DEF WorkerSchedules, WorkerAbove, WorkerHas
  <2>. HIDE DEF job
  <2>3. CASE AddToDead(job)
    BY <1>2, <2>1, <2>3 DEF AddToDead
  <2>4. CASE AddToRetry(job)
    <3>1. queues' = queues
      BY <2>4 DEF AddToRetry
    <3>2. \A jid \in JIDs, n \in Nat : Above(jid, n) => RetryNewer(jid, n)' /\ WorkerAbove(jid, n)'
      BY <2>1, <2>2, <2>4, AddToRetryNewer, GoesAbove
    <3>. QED  BY <1>1, <3>1, <3>2, SameNewer, SameAbove
  <2>. QED  BY <2>1, <2>3, <2>4
<1>7. CASE WorkerAcks(s)
  <2>1. WorkerGoes(s, "idle", NoJob) /\ Ack(worker[s].job)
    BY <1>7 DEF WorkerAcks, Call
  <2>. QED  BY <1>2, <2>1 DEF Ack
<1>8. CASE WorkerExits(s)
  <2>1. WorkerGoes(s, "exited", NoJob) /\ UNCHANGED <<queues, retry>>
    BY <1>8 DEF WorkerExits, brokerVars
  <2>. QED  BY <1>2, <2>1
<1>. QED  BY <1>3, <1>4, <1>5, <1>6, <1>7, <1>8 DEF Worker

-----------------------------------------------------------------------------
(* What has finished is nowhere any more. *)

Alive(jid) == \/ Queued(jid) \/ InRetry(jid)
              \/ FetcherHolds(jid) \/ WorkerHolds(jid) \/ RetrierHolds(jid)

\* Every copy of a job has counted the attempts that failed, ...
FailuresCounted == \A jid \in JIDs, n \in Nat : n < failures[jid] => Above(jid, n)
\* ... a job with a copy has not finished, ...
FinishedGone == \A jid \in JIDs : Alive(jid) => ~Finished(jid)
\* ... and nothing has happened to a job that no client has enqueued.
NewIsNew == \A jid \in JIDs : client[jid] = "none" => failures[jid] = 0 /\ ~Finished(jid)

LifeInv == FailuresCounted /\ FinishedGone /\ NewIsNew

\* No copy comes from nowhere: it would have a retry count, and what has no copy
\* is above every count.
LEMMA NoneFromNowhere ==
  ASSUME TypeOK', Counts, NEW jid \in JIDs, Alive(jid)'
  PROVE  Alive(jid)
<1>. SUFFICES ASSUME ~Alive(jid) PROVE FALSE
  OBVIOUS
<1>1. \A n \in Nat : Above(jid, n)
  BY DEF Alive, Queued, InRetry, FetcherHolds, WorkerHolds, RetrierHolds, Above, StoreNewer,
         QueueNewer, RetryNewer, RetrierNewer, FetcherAbove, WorkerAbove
<1>2. \A n \in Nat : Above(jid, n)'
  BY <1>1 DEF Counts
<1>3. CASE Queued(jid)'
  <2>1. PICK q \in Queues : \E i \in DOMAIN queues'[q] : queues'[q][i].jid = jid
    BY <1>3 DEF Queued
  <2>2. PICK i \in DOMAIN queues'[q] : queues'[q][i].jid = jid
    BY <2>1
  <2>3. queues'[q] \in Seq(Bytes)
    BY DEF TypeOK, BrokerTypeOK
  <2>4. queues'[q][i].retryCount \in Nat
    <3>1. queues'[q][i] \in Bytes
      BY <2>2, <2>3
    <3>. QED  BY <3>1 DEF Bytes
  <2>5. PICK n \in Nat : queues'[q][i].retryCount = n
    BY <2>4
  <2>6. QueueNewer(jid, n)'
    BY <1>2 DEF Above, StoreNewer
  <2>7. n > n
    BY <2>2, <2>5, <2>6 DEF QueueNewer
  <2>. QED  BY <2>7
<1>4. CASE InRetry(jid)'
  <2>1. PICK data \in retry' : data.jid = jid
    BY <1>4 DEF InRetry
  <2>2. data.retryCount \in Nat
    BY <2>1 DEF TypeOK, BrokerTypeOK, Bytes
  <2>3. PICK n \in Nat : data.retryCount = n
    BY <2>2
  <2>4. RetryNewer(jid, n)'
    BY <1>2 DEF Above, StoreNewer
  <2>5. n > n
    BY <2>1, <2>3, <2>4 DEF RetryNewer
  <2>. QED  BY <2>5
<1>5. CASE FetcherHolds(jid)'
  <2>1. PICK e \in Engines : FetcherHas(e, jid)'
    BY <1>5 DEF FetcherHolds
  <2>2. fetcher'[e].job.retryCount \in Nat
    BY <2>1 DEF TypeOK, FetcherTypeOK, FetcherHas, Fetchers, Job
  <2>3. PICK n \in Nat : fetcher'[e].job.retryCount = n
    BY <2>2
  <2>4. FetcherAbove(jid, n)'
    BY <1>2 DEF Above
  <2>5. n > n
    BY <2>1, <2>3, <2>4 DEF FetcherAbove
  <2>. QED  BY <2>5
<1>6. CASE WorkerHolds(jid)'
  <2>1. PICK s \in Slots : WorkerHas(s, jid)'
    BY <1>6 DEF WorkerHolds
  <2>2. worker'[s].job.retryCount \in Nat
    BY <2>1 DEF TypeOK, WorkerTypeOK, WorkerHas, Workers, Job
  <2>3. PICK n \in Nat : worker'[s].job.retryCount = n
    BY <2>2
  <2>4. WorkerAbove(jid, n)'
    BY <1>2 DEF Above
  <2>5. n > n
    BY <2>1, <2>3, <2>4 DEF WorkerAbove
  <2>. QED  BY <2>5
<1>7. CASE RetrierHolds(jid)'
  <2>1. PICK e \in Engines : RetrierHas(e, jid)'
    BY <1>7 DEF RetrierHolds
  <2>2. retrier'[e].job.retryCount \in Nat
    BY <2>1 DEF TypeOK, RetrierTypeOK, RetrierHas, Retriers, Job
  <2>3. PICK n \in Nat : retrier'[e].job.retryCount = n
    BY <2>2
  <2>4. RetrierNewer(jid, n)'
    BY <1>2 DEF Above, StoreNewer
  <2>5. n > n
    BY <2>1, <2>3, <2>4 DEF RetrierNewer
  <2>. QED  BY <2>5
<1>. QED  BY <1>3, <1>4, <1>5, <1>6, <1>7 DEF Alive

\* A step that finishes no job but one that is gone then.
LEMMA LivesOn ==
  ASSUME TypeOK', LifeInv, Counts, UNCHANGED <<client, failures>>,
         \A jid \in JIDs : Finished(jid)' =>
           Finished(jid) \/ (client[jid] # "none" /\ ~Alive(jid)')
  PROVE  LifeInv'
<1>1. FailuresCounted'
  BY DEF LifeInv, FailuresCounted, Counts
<1>2. FinishedGone'
  BY NoneFromNowhere DEF LifeInv, FinishedGone
<1>3. NewIsNew'
  BY DEF LifeInv, NewIsNew
<1>. QED  BY <1>1, <1>2, <1>3 DEF LifeInv

-----------------------------------------------------------------------------
(* Steps as JobLifecycle sees them. *)

Buried(jid) == \E data \in dead : data.jid = jid
WorkerDying(jid) == \E s \in Slots : WorkerHas(s, jid) /\ worker[s].job.state = "dead"
RetrierDying(jid) == \E e \in Engines : RetrierHas(e, jid) /\ retrier[e].job.state = "dead"

\* Phases are read off four facts about the job.
LEMMA SamePhase ==
  ASSUME NEW jid, client'[jid] = client[jid], Performing(jid)' <=> Performing(jid),
         (jid \in succeeded') <=> (jid \in succeeded), Dying(jid)' <=> Dying(jid)
  PROVE  Phase(jid)' = Phase(jid)
BY DEF Phase

\* Nothing to see.
LEMMA LifeStutters ==
  ASSUME \A jid \in JIDs : Phase(jid)' = Phase(jid), failures' = failures
  PROVE  [Life!Next]_(Life!vars)
<1>1. [jid \in JIDs |-> Phase(jid)]' = [jid \in JIDs |-> Phase(jid)]
  OBVIOUS
<1>. QED  BY <1>1 DEF Life!vars

\* One job moves.
LEMMA LifeMoves ==
  ASSUME NEW j \in JIDs, NEW from, NEW to, Phase(j) = from, Phase(j)' = to,
         \A jid \in JIDs : jid # j => Phase(jid)' = Phase(jid)
  PROVE  Life!Moves(j, from, to)
<1>1. [jid \in JIDs |-> Phase(jid)]' = [[jid \in JIDs |-> Phase(jid)] EXCEPT ![j] = to]
  OBVIOUS
<1>. QED  BY <1>1 DEF Life!Moves

\* A move of a worker that leaves its job, or goes on with the same one.
LEMMA WorkerPhase ==
  ASSUME TypeOK, WorkersApart, NEW s \in Slots, NEW pc, NEW job, WorkerGoes(s, pc, job)
  PROVE  \A jid \in JIDs :
           /\ (~WorkerHas(s, jid) /\ (pc \in {"perform", "schedule"} => job.jid # jid)) =>
                /\ Performing(jid)' <=> Performing(jid)
                /\ WorkerDying(jid)' <=> WorkerDying(jid)
           /\ (WorkerHas(s, jid) /\ pc # "perform") =>
                /\ ~Performing(jid)'
                /\ WorkerDying(jid)' <=> (pc = "schedule" /\ job.jid = jid /\ job.state = "dead")
                /\ WorkerDying(jid) <=> worker[s].job.state = "dead"
           /\ (pc = "perform" /\ job.jid = jid) => Performing(jid)'
<1>. SUFFICES ASSUME NEW jid \in JIDs
              PROVE  /\ (~WorkerHas(s, jid) /\ (pc \in {"perform", "schedule"} => job.jid # jid)) =>
                          /\ Performing(jid)' <=> Performing(jid)
                          /\ WorkerDying(jid)' <=> WorkerDying(jid)
                     /\ (WorkerHas(s, jid) /\ pc # "perform") =>
                          /\ ~Performing(jid)'
                          /\ WorkerDying(jid)' <=> (pc = "schedule" /\ job.jid = jid /\ job.state = "dead")
                          /\ WorkerDying(jid) <=> worker[s].job.state = "dead"
                     /\ (pc = "perform" /\ job.jid = jid) => Performing(jid)'
  OBVIOUS
<1>1. \A t \in Slots : worker'[t] = IF t = s THEN [pc |-> pc, job |-> job] ELSE worker[t]
  BY DEF WorkerGoes, TypeOK, WorkerTypeOK
<1>2. CASE ~WorkerHas(s, jid) /\ (pc \in {"perform", "schedule"} => job.jid # jid)
  BY <1>1, <1>2 DEF Performing, WorkerDying, WorkerHas
<1>3. CASE WorkerHas(s, jid) /\ pc # "perform"
  <2>1. \A t \in Slots : t # s => ~WorkerHas(t, jid)
    BY <1>3 DEF WorkersApart
  <2>2. ~Performing(jid)'
    BY <1>1, <1>3, <2>1 DEF Performing, WorkerHas
  <2>3. WorkerDying(jid)' <=> (pc = "schedule" /\ job.jid = jid /\ job.state = "dead")
    BY <1>1, <1>3, <2>1 DEF WorkerDying, WorkerHas
  <2>4. WorkerDying(jid) <=> worker[s].job.state = "dead"
    BY <1>3, <2>1 DEF WorkerDying
  <2>. QED  BY <1>3, <2>2, <2>3, <2>4
<1>4. CASE pc = "perform" /\ job.jid = jid
  <2>1. Performing(jid)'
    BY <1>1, <1>4 DEF Performing
  <2>. QED  BY <1>2, <1>4, <2>1
<1>. QED  BY <1>2, <1>3, <1>4

\* A move of the retry loop of the only engine.
LEMMA RetrierPhase ==
  ASSUME TypeOK, Alone, NEW e \in Engines, NEW pc, NEW job, NEW batch,
         RetrierGoes(e, pc, job, batch)
  PROVE  \A jid \in JIDs :
           /\ RetrierDying(jid)' <=>
                (pc \in {"enqueue", "fallback"} /\ job.jid = jid /\ job.state = "dead")
           /\ RetrierDying(jid) <=> (RetrierHas(e, jid) /\ retrier[e].job.state = "dead")
<1>1. \A f \in Engines : f = e
  BY DEF Alone
<1>2. retrier'[e] = [pc |-> pc, job |-> job, batch |-> batch]
  BY DEF RetrierGoes, TypeOK, RetrierTypeOK
<1>. QED  BY <1>1, <1>2 DEF RetrierDying, RetrierHas

\* Goroutines that do not change.
LEMMA SameDying ==
  /\ worker' = worker => \A jid : /\ Performing(jid)' <=> Performing(jid)
                                  /\ WorkerDying(jid)' <=> WorkerDying(jid)
  /\ retrier' = retrier => \A jid : RetrierDying(jid)' <=> RetrierDying(jid)
  /\ dead' = dead => \A jid : Buried(jid)' <=> Buried(jid)
BY DEF Performing, WorkerDying, RetrierDying, WorkerHas, RetrierHas, Buried

\* The parts of Dying and of Finished.
LEMMA DyingParts ==
  \A jid : /\ Dying(jid) <=> Buried(jid) \/ WorkerDying(jid) \/ RetrierDying(jid)
           /\ Dying(jid)' <=> Buried(jid)' \/ WorkerDying(jid)' \/ RetrierDying(jid)'
           /\ Finished(jid) <=> jid \in succeeded \/ Buried(jid)
           /\ Finished(jid)' <=> jid \in succeeded' \/ Buried(jid)'
BY DEF Dying, Buried, WorkerDying, RetrierDying, Finished

\* A job in the hands of one goroutine is nowhere else, and has not finished.
LEMMA OnlyThere ==
  ASSUME Placed, LifeInv, NEW jid \in JIDs
  PROVE  /\ Alive(jid) => client[jid] # "none" /\ jid \notin succeeded /\ ~Buried(jid)
         /\ ~WorkerHolds(jid) => ~Performing(jid) /\ ~WorkerDying(jid)
         /\ ~RetrierHolds(jid) => ~RetrierDying(jid)
         /\ FetcherHolds(jid) => ~WorkerHolds(jid) /\ ~RetrierHolds(jid)
         /\ WorkerHolds(jid) =>
              ~Queued(jid) /\ ~InRetry(jid) /\ ~FetcherHolds(jid) /\ ~RetrierHolds(jid)
         /\ RetrierHolds(jid) =>
              ~Queued(jid) /\ ~InRetry(jid) /\ ~FetcherHolds(jid) /\ ~WorkerHolds(jid)
<1>1. Alive(jid) => client[jid] # "none" /\ jid \notin succeeded /\ ~Buried(jid)
  BY DyingParts DEF Placed, Known, Alive, LifeInv, FinishedGone
<1>2. ~WorkerHolds(jid) => ~Performing(jid) /\ ~WorkerDying(jid)
  BY DEF WorkerHolds, Performing, WorkerDying, WorkerHas
<1>3. ~RetrierHolds(jid) => ~RetrierDying(jid)
  BY DEF RetrierHolds, RetrierDying
<1>. QED  BY <1>1, <1>2, <1>3 DEF Placed, Apart, PlacesApart

LifeStep == [Life!Next]_(Life!vars)

\* A step that changes no fact that a phase is read off.
LEMMA Unnoticed ==
  ASSUME TypeOK', LifeInv, Counts, UNCHANGED history,
         \A jid \in JIDs : /\ Performing(jid)' <=> Performing(jid)
                           /\ Dying(jid)' <=> Dying(jid)
                           /\ Buried(jid)' <=> Buried(jid)
  PROVE  LifeInv' /\ LifeStep
<1>1. UNCHANGED <<client, succeeded, failures>>
  BY DEF history
<1>2. \A jid \in JIDs : Finished(jid)' => Finished(jid)
  BY <1>1, DyingParts
<1>3. \A jid \in JIDs : Phase(jid)' = Phase(jid)
  BY <1>1, SamePhase
<1>. QED  BY <1>1, <1>2, <1>3, LivesOn, LifeStutters DEF LifeStep

\* The hand-over to a worker begins the run of a waiting job; nothing else that
\* fetcher() does shows.
LEMMA FetcherLives ==
  ASSUME TypeOK', LeaseInv, LifeInv, Calm, Alone, NEW e \in Engines, Fetcher(e)
  PROVE  LifeInv' /\ LifeStep
<1>. USE CalmCalls
<1>1. TypeOK /\ Budget /\ Placed /\ WorkersApart
  BY DEF LeaseInv, Placed, Apart
<1>2. Counts /\ UNCHANGED <<client, succeeded, failures, retrier>>
  BY <1>1, FetcherCounts DEF history, Fetcher, FetcherTop, FetcherPoll, FetcherSend,
                             FetcherHandBack, FetcherFallback, FetcherAck
<1>3. ASSUME UNCHANGED <<dead, worker>>
      PROVE  LifeInv' /\ LifeStep
  BY <1>2, <1>3, Unnoticed, SameDying, DyingParts DEF history
<1>4. CASE FetcherTop(e)
  BY <1>3, <1>4 DEF FetcherTop, brokerVars
<1>5. CASE FetcherPoll(e)
  BY <1>1, <1>3, <1>5 DEF FetcherPoll, Call, Dequeue, brokerVars
<1>6. CASE FetcherHandBack(e)
  BY <1>1, <1>3, <1>6 DEF FetcherHandBack, Call, Enqueue
<1>7. CASE FetcherFallback(e)
  BY <1>1, <1>3, <1>7 DEF FetcherFallback, Call, AddToRetry
<1>8. CASE FetcherAck(e)
  BY <1>1, <1>3, <1>8 DEF FetcherAck, Call, Ack
<1>9. CASE FetcherSend(e)
  <2>. DEFINE j == fetcher[e].job.jid
              job == [fetcher[e].job EXCEPT !.state = "active"]
  <2>1. /\ fetcher[e].job \in Job /\ fetcher[e].pc = "send" /\ j \in JIDs /\ job.jid = j
        /\ dead' = dead
    BY <1>1, <1>9 DEF FetcherSend, TypeOK, FetcherTypeOK, Fetchers, Job, brokerVars
  <2>2. PICK s \in Slots : worker[s].pc = "idle" /\ WorkerGoes(s, "perform", job)
    BY <1>9 DEF FetcherSend, WorkerGoes
  <2>3. PICK jj \in JIDs : jj = j
    BY <2>1
  <2>4. FetcherHolds(jj)
    BY <2>1, <2>3 DEF FetcherHolds, FetcherHas
  <2>. HIDE DEF j, job
  <2>5. /\ client[jj] # "none" /\ jj \notin succeeded /\ ~Buried(jj) /\ ~Performing(jj)
        /\ ~WorkerDying(jj) /\ ~RetrierDying(jj)
    BY <1>1, <2>4, OnlyThere DEF Alive
  <2>6. Phase(jj) = "waiting"
    BY <2>5, DyingParts DEF Phase
  <2>7. \A jid \in JIDs : ~WorkerHas(s, jid)
    BY <2>2 DEF WorkerHas
  <2>8. Performing(jj)'
    BY <1>1, <2>1, <2>2, <2>3, WorkerPhase
  <2>9. Phase(jj)' = "running"
    BY <1>2, <2>5, <2>8 DEF Phase
  <2>10. ASSUME NEW jid \in JIDs, jid # jj
         PROVE  Phase(jid)' = Phase(jid)
    <3>1. Performing(jid)' <=> Performing(jid)
      BY <1>1, <2>1, <2>2, <2>3, <2>7, <2>10, WorkerPhase
    <3>2. WorkerDying(jid)' <=> WorkerDying(jid)
      BY <1>1, <2>1, <2>2, <2>3, <2>7, <2>10, WorkerPhase
    <3>3. Dying(jid)' <=> Dying(jid)
      BY <1>2, <2>1, <3>2, DyingParts, SameDying
    <3>. QED  BY <1>2, <3>1, <3>3, SamePhase
  <2>11. Life!Moves(jj, "waiting", "running")
    BY <2>6, <2>9, <2>10, LifeMoves
  <2>12. LifeStep
    BY <1>2, <2>11 DEF LifeStep, Life!Next, Life!Run
  <2>13. \A jid \in JIDs : Finished(jid)' => Finished(jid)
    BY <1>2, <2>1, DyingParts, SameDying
  <2>. QED  BY <1>2, <2>12, <2>13, LivesOn
<1>. QED  BY <1>4, <1>5, <1>6, <1>7, <1>8, <1>9 DEF Fetcher

\* Only job j may finish.
OutcomesStay(j) ==
  \A jid \in JIDs : jid # j => /\ Buried(jid)' <=> Buried(jid)
                               /\ (jid \in succeeded') <=> (jid \in succeeded)

\* What a worker does to the job it performs or schedules, and to the others.
LEMMA WorkerTurns ==
  ASSUME TypeOK, Placed, LifeInv, NEW s \in Slots, worker[s].pc \in {"perform", "schedule"},
         NEW j \in JIDs, worker[s].job.jid = j,
         NEW pc, pc # "perform", NEW job, job.jid = j, WorkerGoes(s, pc, job),
         UNCHANGED <<client, fetcher, retrier>>,
         OutcomesStay(j)
  PROVE  /\ \A jid \in JIDs : jid # j => Phase(jid)' = Phase(jid)
         /\ client[j] # "none" /\ j \notin succeeded /\ ~Buried(j) /\ ~RetrierDying(j)
         /\ worker[s].pc = "perform" => Phase(j) = "running"
         /\ worker[s].pc = "schedule" => ~Performing(j)
         /\ ~Performing(j)' /\ ~RetrierDying(j)'
         /\ WorkerDying(j)' <=> (pc = "schedule" /\ job.state = "dead")
         /\ WorkerDying(j) <=> (worker[s].job.state = "dead")
<1>1. WorkerHas(s, j) /\ WorkerHolds(j) /\ WorkersApart /\ Alive(j)
  BY DEF WorkerHas, WorkerHolds, Placed, Apart, Alive
<1>2. /\ client[j] # "none" /\ j \notin succeeded /\ ~Buried(j) /\ ~RetrierDying(j)
      /\ ~Queued(j) /\ ~InRetry(j) /\ ~FetcherHolds(j) /\ ~RetrierHolds(j)
  BY <1>1, OnlyThere
<1>3. ASSUME NEW jid \in JIDs, jid # j
      PROVE  Phase(jid)' = Phase(jid)
  <2>1. ~WorkerHas(s, jid)
    BY <1>3 DEF WorkerHas
  <2>2. Performing(jid)' <=> Performing(jid)
    BY <1>1, <1>3, <2>1, WorkerPhase
  <2>3. WorkerDying(jid)' <=> WorkerDying(jid)
    BY <1>1, <1>3, <2>1, WorkerPhase
  <2>4. Dying(jid)' <=> Dying(jid)
    BY <1>3, <2>3, DyingParts, SameDying DEF OutcomesStay
  <2>. QED  BY <1>3, <2>2, <2>4, SamePhase DEF OutcomesStay
<1>4. worker[s].pc = "perform" => Phase(j) = "running"
  BY <1>2 DEF Phase, Performing
<1>5. worker[s].pc = "schedule" => ~Performing(j)
  BY <1>1 DEF Performing, WorkersApart, WorkerHas
<1>6. /\ ~Performing(j)'
      /\ WorkerDying(j)' <=> pc = "schedule" /\ job.state = "dead"
      /\ WorkerDying(j) <=> worker[s].job.state = "dead"
  BY <1>1, WorkerPhase
<1>7. ~RetrierDying(j)'
  BY <1>2, SameDying
<1>. QED  BY <1>2, <1>3, <1>4, <1>5, <1>6, <1>7

\* A worker has the only copy of its job.
LEMMA WorkerLeaves ==
  ASSUME TypeOK, Placed, LifeInv, NEW s \in Slots, worker[s].pc \in {"perform", "schedule"},
         NEW j \in JIDs, worker[s].job.jid = j, NEW job, WorkerGoes(s, "ack", job),
         UNCHANGED <<fetcher, retrier, queues, retry>>
  PROVE  ~Alive(j)'
<1>1. WorkerHas(s, j) /\ WorkerHolds(j) /\ WorkersApart
  BY DEF WorkerHas, WorkerHolds, Placed, Apart
<1>2. ~Queued(j) /\ ~InRetry(j) /\ ~FetcherHolds(j) /\ ~RetrierHolds(j)
  BY <1>1, OnlyThere
<1>3. ~WorkerHolds(j)'
  BY <1>1, WorkerMoves
<1>4. ~Queued(j)' /\ ~InRetry(j)' /\ ~FetcherHolds(j)' /\ ~RetrierHolds(j)'
  BY <1>2, SameHolders
<1>. QED  BY <1>3, <1>4 DEF Alive

\* AddToDead of a job.
LEMMA AddToDeadBurial ==
  ASSUME NEW job, AddToDead(job)
  PROVE  \A jid : Buried(jid)' <=> (Buried(jid) \/ jid = job.jid)
<1>1. dead' = dead \cup {ToJSON(job)} /\ ToJSON(job).jid = job.jid
  BY DEF AddToDead, ToJSON
<1>. QED  BY <1>1 DEF Buried

\* The turns of a job with a worker.
LEMMA WorkerLives ==
  ASSUME TypeOK', LeaseInv, LifeInv, Calm, NEW s \in Slots, Worker(s)
  PROVE  LifeInv' /\ LifeStep
<1>. USE CalmCalls
<1>1. TypeOK /\ Budget /\ Placed /\ WorkersApart
  BY DEF LeaseInv, Placed, Apart
<1>2. Counts /\ UNCHANGED <<client, fetcher, retrier>>
  BY <1>1, WorkerCounts DEF history, Worker, JobSucceeds, JobFails, JobMeetsOpenCircuit,
                            WorkerSchedules, WorkerAcks, WorkerExits
<1>3. ASSUME worker[s].pc \in {"perform", "schedule"}
      PROVE  worker[s].job \in Job /\ worker[s].job.jid \in JIDs
  BY <1>1, <1>3 DEF TypeOK, WorkerTypeOK, Workers, Job
<1>4. CASE WorkerAcks(s) \/ WorkerExits(s)
  <2>1. /\ worker[s].pc \in {"ack", "idle"} /\ UNCHANGED <<dead, history>>
        /\ \E pc \in {"idle", "exited"} : WorkerGoes(s, pc, NoJob)
    BY <1>1, <1>4 DEF WorkerAcks, WorkerExits, Call, Ack, brokerVars
  <2>2. PICK pc \in {"idle", "exited"} : WorkerGoes(s, pc, NoJob)
    BY <2>1
  <2>3. \A jid \in JIDs : ~WorkerHas(s, jid)
    BY <2>1 DEF WorkerHas
  <2>4. \A jid \in JIDs : /\ Performing(jid)' <=> Performing(jid)
                          /\ WorkerDying(jid)' <=> WorkerDying(jid)
    BY <1>1, <2>2, <2>3, WorkerPhase
  <2>. QED  BY <1>2, <2>1, <2>4, Unnoticed, SameDying, DyingParts
<1>5. CASE JobSucceeds(s)
  <2>. DEFINE job == [worker[s].job EXCEPT !.state = "success"]
  <2>0. worker[s].pc = "perform" /\ WorkerGoes(s, "ack", job) /\ queues' = queues /\ retry' = retry
    BY <1>1, <1>5 DEF JobSucceeds, Call, RecordSuccess
  <2>1. succeeded' = succeeded \cup {job.jid} /\ UNCHANGED <<dead, failures>>
    BY <1>1, <1>5 DEF JobSucceeds, Call, RecordSuccess
  <2>2. PICK j \in JIDs : worker[s].job.jid = j /\ job.jid = j
    BY <1>3, <2>0 DEF Job
  <2>. HIDE DEF job
  <2>3. OutcomesStay(j)
    BY <2>1, <2>2, SameDying DEF OutcomesStay
  <2>4. /\ \A jid \in JIDs : jid # j => Phase(jid)' = Phase(jid)
        /\ client[j] # "none" /\ Phase(j) = "running" /\ ~Performing(j)' /\ ~Alive(j)'
    <3>1. /\ \A jid \in JIDs : jid # j => Phase(jid)' = Phase(jid)
          /\ client[j] # "none" /\ Phase(j) = "running" /\ ~Performing(j)'
      BY <1>1, <1>2, <2>0, <2>2, <2>3, WorkerTurns
    <3>2. ~Alive(j)'
      BY <1>1, <1>2, <2>0, <2>2, WorkerLeaves
    <3>. QED  BY <3>1, <3>2
  <2>5. Phase(j)' = "done"
    BY <1>2, <2>1, <2>2, <2>4 DEF Phase
  <2>6. Life!Moves(j, "running", "done")
    BY <2>4, <2>5, LifeMoves
  <2>7. LifeStep
    BY <2>1, <2>6 DEF LifeStep, Life!Next, Life!Succeed
  <2>8. \A jid \in JIDs : Finished(jid)' => Finished(jid) \/ (client[jid] # "none" /\ ~Alive(jid)')
    BY <2>3, <2>4, DyingParts DEF OutcomesStay
  <2>. QED  BY <1>2, <2>1, <2>7, <2>8, LivesOn
<1>6. CASE JobMeetsOpenCircuit(s)
  <2>. DEFINE job == [worker[s].job EXCEPT !.state = "pending"]
  <2>1. /\ worker[s].pc = "perform" /\ WorkerGoes(s, "schedule", job)
        /\ UNCHANGED <<dead, succeeded, failures>>
    BY <1>1, <1>6 DEF JobMeetsOpenCircuit, Call, RecordFailure, history
  <2>2. PICK j \in JIDs : worker[s].job.jid = j /\ job.jid = j /\ job.state = "pending"
    BY <1>3, <2>1 DEF Job
  <2>. HIDE DEF job
  <2>3. \A jid \in JIDs : /\ Buried(jid)' <=> Buried(jid)
                          /\ (jid \in succeeded') <=> (jid \in succeeded)
    BY <2>1, SameDying
  <2>4. /\ \A jid \in JIDs : jid # j => Phase(jid)' = Phase(jid)
        /\ client[j] # "none" /\ j \notin succeeded /\ ~Buried(j)
        /\ Phase(j) = "running" /\ ~Performing(j)' /\ ~RetrierDying(j)' /\ ~WorkerDying(j)'
    BY <1>1, <1>2, <2>1, <2>2, <2>3, WorkerTurns DEF OutcomesStay
  <2>5. Phase(j)' = "waiting"
    BY <1>2, <2>3, <2>4, DyingParts DEF Phase
  <2>6. Life!Moves(j, "running", "waiting")
    BY <2>4, <2>5, LifeMoves
  <2>7. LifeStep
    BY <2>1, <2>6 DEF LifeStep, Life!Next, Life!Postpone
  <2>8. \A jid \in JIDs : Finished(jid)' => Finished(jid)
    BY <2>3, DyingParts
  <2>. QED  BY <1>2, <2>1, <2>7, <2>8, LivesOn
<1>7. CASE WorkerSchedules(s)
  <2>. DEFINE job == worker[s].job
  <2>1. /\ worker[s].pc = "schedule" /\ WorkerGoes(s, "ack", job)
        /\ UNCHANGED <<succeeded, failures>>
        /\ \/ job.state = "dead" /\ AddToDead(job)
           \/ job.state # "dead" /\ AddToRetry(job)
    BY <1>1, <1>7 DEF WorkerSchedules, Call, history
  <2>2. PICK j \in JIDs : worker[s].job.jid = j /\ job.jid = j /\ worker[s].job.state = job.state
    BY <1>3, <2>1
  <2>. HIDE DEF job
  <2>3. CASE job.state = "dead" /\ AddToDead(job)
    <3>1. /\ \A jid : Buried(jid)' <=> (Buried(jid) \/ jid = j)
          /\ UNCHANGED <<queues, retry>>
      BY <2>2, <2>3, AddToDeadBurial DEF AddToDead
    <3>2. OutcomesStay(j)
      BY <2>1, <3>1 DEF OutcomesStay
    <3>3. /\ \A jid \in JIDs : jid # j => Phase(jid)' = Phase(jid)
          /\ client[j] # "none" /\ ~Performing(j) /\ ~Performing(j)' /\ WorkerDying(j)
      BY <1>1, <1>2, <2>1, <2>2, <2>3, <3>2, WorkerTurns
    <3>4. Phase(j)' = Phase(j)
      BY <1>2, <2>1, <3>1, <3>3, SamePhase, DyingParts
    <3>5. LifeStep
      BY <2>1, <3>3, <3>4, LifeStutters DEF LifeStep
    <3>6. ~Alive(j)'
      BY <1>1, <1>2, <2>1, <2>2, <3>1, WorkerLeaves
    <3>7. \A jid \in JIDs : Finished(jid)' => Finished(jid) \/ (client[jid] # "none" /\ ~Alive(jid)')
      BY <2>1, <3>1, <3>3, <3>6, DyingParts
    <3>. QED  BY <1>2, <2>1, <3>5, <3>7, LivesOn
  <2>4. CASE job.state # "dead" /\ AddToRetry(job)
    <3>1. \A jid \in JIDs : Buried(jid)' <=> Buried(jid)
      BY <2>4, SameDying DEF AddToRetry
    <3>2. OutcomesStay(j)
      BY <2>1, <3>1 DEF OutcomesStay
    <3>3. /\ \A jid \in JIDs : jid # j => Phase(jid)' = Phase(jid)
          /\ ~Performing(j) /\ ~Performing(j)' /\ ~RetrierDying(j) /\ ~RetrierDying(j)'
          /\ ~WorkerDying(j) /\ ~WorkerDying(j)'
      BY <1>1, <1>2, <2>1, <2>2, <2>4, <3>2, WorkerTurns
    <3>4. Phase(j)' = Phase(j)
      BY <1>2, <2>1, <3>1, <3>3, SamePhase, DyingParts
    <3>5. LifeStep
      BY <2>1, <3>3, <3>4, LifeStutters DEF LifeStep
    <3>6. \A jid \in JIDs : Finished(jid)' => Finished(jid)
      BY <2>1, <3>1, DyingParts
    <3>. QED  BY <1>2, <2>1, <3>5, <3>6, LivesOn
  <2>. QED  BY <2>1, <2>3, <2>4
<1>8. CASE JobFails(s)
  <2>. DEFINE job == FailedJob(worker[s].job)
  <2>1. /\ worker[s].pc = "perform" /\ WorkerGoes(s, "schedule", job)
        /\ UNCHANGED <<queues, retry, dead, succeeded>>
        /\ failures' = [failures EXCEPT ![job.jid] = @ + 1]
    BY <1>1, <1>8 DEF JobFails, Call, RecordFailure
  <2>2. PICK j \in JIDs : /\ worker[s].job.jid = j /\ job.jid = j /\ worker[s].job \in Job
                          /\ job.retryCount = worker[s].job.retryCount + 1
    BY <1>3, <2>1 DEF Job, FailedJob
  <2>. HIDE DEF job
  <2>3. \A jid \in JIDs : /\ Buried(jid)' <=> Buried(jid)
                          /\ (jid \in succeeded') <=> (jid \in succeeded)
    BY <2>1, SameDying
  <2>4. /\ \A jid \in JIDs : jid # j => Phase(jid)' = Phase(jid)
        /\ client[j] # "none" /\ j \notin succeeded /\ ~Buried(j)
        /\ Phase(j) = "running" /\ ~Performing(j)' /\ ~RetrierDying(j)'
    BY <1>1, <1>2, <2>1, <2>2, <2>3, WorkerTurns DEF OutcomesStay
  <2>5. Phase(j)' \in {"waiting", "dead"}
    BY <1>2, <2>3, <2>4 DEF Phase
  <2>6. Life!Moves(j, "running", "waiting") \/ Life!Moves(j, "running", "dead")
    BY <2>4, <2>5, LifeMoves
  <2>7. WorkerHas(s, j) /\ worker[s].job.retryCount \in Nat /\ failures[j] \in Nat
    BY <1>1, <2>1, <2>2 DEF WorkerHas, Job, TypeOK, HistoryTypeOK
  <2>8. failures[j] <= worker[s].job.retryCount
    <3>. SUFFICES ASSUME worker[s].job.retryCount < failures[j] PROVE FALSE
      BY <2>7
    <3>1. PICK n \in Nat : n = worker[s].job.retryCount
      BY <2>7
    <3>2. WorkerAbove(j, n)
      BY <3>1 DEF LifeInv, FailuresCounted, Above
    <3>. QED  BY <2>7, <3>1, <3>2 DEF WorkerAbove
  <2>9. worker[s].job.retryCount <= worker[s].job.retry
    BY <1>1, <2>1 DEF Budget, WorkerBudget, Runnable
  <2>10. failures[j] <= MaxRetryCount
    <3>1. worker[s].job.retry \in 0..MaxRetryCount
      BY <2>2 DEF Job
    <3>. QED  BY <2>7, <2>8, <2>9, <3>1, RetryAssumption
  <2>11. Life!Fail(j)
    BY <2>1, <2>2, <2>6, <2>10 DEF Life!Fail
  <2>12. LifeStep
    BY <2>11 DEF LifeStep, Life!Next
  <2>13. FinishedGone' /\ NewIsNew'
    <3>1. \A jid \in JIDs : Finished(jid)' => Finished(jid)
      BY <2>3, DyingParts
    <3>2. \A jid \in JIDs : jid # j => failures'[jid] = failures[jid]
      BY <1>1, <2>1, <2>2 DEF TypeOK, HistoryTypeOK
    <3>3. FinishedGone'
      BY <1>2, <3>1, NoneFromNowhere DEF LifeInv, FinishedGone
    <3>. QED  BY <1>2, <2>4, <3>1, <3>2, <3>3 DEF LifeInv, NewIsNew
  <2>14. FailuresCounted'
    <3>. SUFFICES ASSUME NEW jid \in JIDs, NEW n \in Nat, n < failures'[jid]
                  PROVE  Above(jid, n)'
      BY DEF FailuresCounted
    <3>1. CASE n < failures[jid]
      BY <1>2, <3>1 DEF LifeInv, FailuresCounted, Counts
    <3>2. CASE ~(n < failures[jid])
      <4>1. jid = j /\ n = failures[j]
        BY <1>1, <2>1, <2>2, <2>7, <3>2 DEF TypeOK, HistoryTypeOK
      <4>2. ~Queued(j)' /\ ~InRetry(j)' /\ ~FetcherHolds(j)' /\ ~RetrierHolds(j)'
        <5>1. WorkerHolds(j)
          BY <2>7 DEF WorkerHolds
        <5>. QED  BY <1>1, <1>2, <2>1, <5>1, OnlyThere, SameHolders
      <4>3. \A t \in Slots : WorkerHas(t, j)' => t = s
        BY <1>1, <2>1, <2>2, <2>7, WorkerPlaces DEF WorkersApart
      <4>4. worker'[s].job.retryCount > n
        <5>1. worker'[s].job = job
          BY <1>1, <2>1 DEF WorkerGoes, TypeOK, WorkerTypeOK
        <5>. QED  BY <2>2, <2>7, <2>8, <4>1, <5>1
      <4>5. WorkerAbove(j, n)'
        BY <4>3, <4>4 DEF WorkerAbove
      <4>6. StoreNewer(j, n)' /\ FetcherAbove(j, n)'
        BY <4>2 DEF StoreNewer, QueueNewer, RetryNewer, RetrierNewer, FetcherAbove, Queued, InRetry,
                    FetcherHolds, RetrierHolds
      <4>. QED  BY <4>1, <4>5, <4>6 DEF Above
    <3>. QED  BY <3>1, <3>2
  <2>. QED  BY <2>12, <2>13, <2>14 DEF LifeInv
<1>. QED  BY <1>4, <1>5, <1>6, <1>7, <1>8 DEF Worker

\* The turns of a job with the retry loop: one that cannot be brought back to its
\* queue may be given up.
LEMMA RetrierLives ==
  ASSUME TypeOK', LeaseInv, LifeInv, Calm, Alone, NEW e \in Engines, Retrier(e)
  PROVE  LifeInv' /\ LifeStep
<1>. USE CalmCalls
<1>1. TypeOK /\ Budget /\ Placed
  BY DEF LeaseInv
<1>2. StoreAges /\ UNCHANGED <<fetcher, worker>>
  BY <1>1, RetrierAges
<1>3. Counts /\ UNCHANGED <<client, succeeded, failures>>
  <2>1. Counts
    BY <1>2, SameAbove DEF Counts, Above, StoreAges
  <2>2. UNCHANGED <<client, succeeded, failures>>
    BY DEF history, Retrier, RetryTick, RetrySkips, RetryRemoves, RetryEnqueues, RetryFallsBack,
           RetryExits
  <2>. QED  BY <2>1, <2>2
<1>4. \A jid \in JIDs : /\ Performing(jid)' <=> Performing(jid)
                        /\ WorkerDying(jid)' <=> WorkerDying(jid)
  BY <1>2, SameDying
<1>5. ASSUME dead' = dead, \A jid \in JIDs : RetrierDying(jid)' <=> RetrierDying(jid)
      PROVE  LifeInv' /\ LifeStep
  <2>1. \A jid \in JIDs : Buried(jid)' <=> Buried(jid)
    BY <1>5, SameDying
  <2>2. \A jid \in JIDs : Dying(jid)' <=> Dying(jid)
    BY <1>4, <1>5, <2>1, DyingParts
  <2>. QED  BY <1>3, <1>4, <2>1, <2>2, Unnoticed DEF history
<1>6. ASSUME NEW pc, NEW job, NEW batch, RetrierGoes(e, pc, job, batch), dead' = dead,
             retrier[e].pc \in {"loop", "enqueue"},
             pc \in {"enqueue", "fallback"} => job.state # "dead"
      PROVE  LifeInv' /\ LifeStep
  <2>1. \A jid \in JIDs : ~RetrierDying(jid)'
    BY <1>1, <1>6, RetrierPhase
  <2>2. \A jid \in JIDs : ~RetrierDying(jid)
    <3>1. retrier[e].pc = "enqueue" => retrier[e].job.state # "dead"
      BY <1>1 DEF Budget, RetrierBudget, Waiting
    <3>. QED  BY <1>1, <1>6, <3>1, RetrierPhase DEF RetrierHas
  <2>. QED  BY <1>5, <1>6, <2>1, <2>2
<1>7. CASE RetryTick(e)
  <2>1. dead' = dead /\ retrier[e].pc = "loop"
    BY <1>7 DEF RetryTick, brokerVars
  <2>2. PICK batch : RetrierGoes(e, "loop", NoJob, batch)
    BY <1>7 DEF RetryTick
  <2>. QED  BY <1>6, <2>1, <2>2
<1>8. CASE RetrySkips(e)
  <2>1. dead' = dead /\ retrier[e].pc = "loop"
    BY <1>8 DEF RetrySkips, brokerVars
  <2>2. PICK batch : RetrierGoes(e, "loop", NoJob, batch)
    BY <1>8 DEF RetrySkips
  <2>. QED  BY <1>6, <2>1, <2>2
<1>9. CASE RetryExits(e)
  <2>1. dead' = dead /\ retrier[e].pc = "loop" /\ RetrierGoes(e, "exited", NoJob, {})
    BY <1>9 DEF RetryExits, brokerVars
  <2>. QED  BY <1>6, <2>1
<1>10. CASE RetryRemoves(e)
  <2>1. PICK old \in retrier[e].batch :
          /\ RemoveFromRetry(old)
          /\ RetrierGoes(e, "enqueue", [old EXCEPT !.state = "pending"], retrier[e].batch \ {old})
    BY <1>1, <1>10 DEF RetryRemoves, Call
  <2>. DEFINE job == [old EXCEPT !.state = "pending"]
  <2>2. RetrierGoes(e, "enqueue", job, retrier[e].batch \ {old}) /\ job.state = "pending"
    BY <1>1, <2>1 DEF TypeOK, RetrierTypeOK, Retriers, Job
  <2>3. dead' = dead /\ retrier[e].pc = "loop"
    BY <1>10, <2>1 DEF RetryRemoves, RemoveFromRetry
  <2>. HIDE DEF job
  <2>. QED  BY <1>6, <2>2, <2>3
<1>11. CASE RetryEnqueues(e)
  <2>. DEFINE job == retrier[e].job
              next == NotReenqueued(job)
  <2>1. /\ retrier[e].pc = "enqueue" /\ job \in Job /\ next.jid = job.jid
        /\ job.state = "pending" /\ dead' = dead
        /\ \/ RetrierGoes(e, "loop", NoJob, retrier[e].batch)
           \/ RetrierGoes(e, "fallback", next, retrier[e].batch)
    <3>1. retrier[e].pc = "enqueue" /\ job \in Job
      BY <1>1, <1>11 DEF RetryEnqueues, TypeOK, RetrierTypeOK, Retriers
    <3>2. next.jid = job.jid /\ job.state = "pending"
      BY <1>1, <3>1 DEF NotReenqueued, Job, Budget, RetrierBudget, Waiting
    <3>3. /\ dead' = dead
          /\ \/ RetrierGoes(e, "loop", NoJob, retrier[e].batch)
             \/ RetrierGoes(e, "fallback", next, retrier[e].batch)
      BY <1>1, <1>11 DEF RetryEnqueues, CallWithEngineContext, Call, Enqueue, brokerVars
    <3>. QED  BY <3>1, <3>2, <3>3
  <2>2. CASE RetrierGoes(e, "loop", NoJob, retrier[e].batch)
    BY <1>6, <2>1, <2>2
  <2>3. CASE RetrierGoes(e, "fallback", next, retrier[e].batch) /\ next.state # "dead"
    BY <1>6, <2>1, <2>3
  <2>4. CASE RetrierGoes(e, "fallback", next, retrier[e].batch) /\ next.state = "dead"
    <3>1. PICK j \in JIDs : job.jid = j /\ next.jid = j /\ RetrierHas(e, j)
      BY <2>1 DEF Job, RetrierHas
    <3>. HIDE DEF next
    <3>2. \A jid \in JIDs : /\ RetrierDying(jid)' <=> jid = j
                            /\ ~RetrierDying(jid)
      BY <1>1, <2>1, <2>4, <3>1, RetrierPhase
    <3>3. RetrierHolds(j)
      BY <3>1 DEF RetrierHolds
    <3>4. /\ client[j] # "none" /\ j \notin succeeded /\ ~Buried(j) /\ ~Performing(j)
          /\ ~WorkerDying(j)
      BY <1>1, <3>3, OnlyThere DEF Alive
    <3>5. Phase(j) = "waiting"
      BY <3>2, <3>4, DyingParts DEF Phase
    <3>6. Phase(j)' = "dead"
      BY <1>3, <1>4, <3>2, <3>4, DyingParts DEF Phase
    <3>7. \A jid \in JIDs : Buried(jid)' <=> Buried(jid)
      BY <2>1, SameDying
    <3>8. ASSUME NEW jid \in JIDs, jid # j
          PROVE  Phase(jid)' = Phase(jid)
      <4>1. Dying(jid)' <=> Dying(jid)
        BY <1>4, <3>2, <3>7, <3>8, DyingParts
      <4>. QED  BY <1>3, <1>4, <4>1, SamePhase
    <3>9. Life!Moves(j, "waiting", "dead")
      BY <3>5, <3>6, <3>8, LifeMoves
    <3>10. LifeStep
      BY <1>3, <3>9 DEF LifeStep, Life!Next, Life!GiveUp
    <3>11. \A jid \in JIDs : Finished(jid)' => Finished(jid)
      BY <1>3, <3>7, DyingParts
    <3>. QED  BY <1>3, <3>10, <3>11, LivesOn
  <2>. QED  BY <2>1, <2>2, <2>3, <2>4
<1>12. CASE RetryFallsBack(e)
  <2>. DEFINE job == retrier[e].job
  <2>1. /\ retrier[e].pc = "fallback" /\ RetrierGoes(e, "loop", NoJob, retrier[e].batch)
        /\ \/ job.state = "dead" /\ AddToDead(job)
           \/ job.state # "dead" /\ AddToRetry(job)
    BY <1>1, <1>12 DEF RetryFallsBack, Call
  <2>2. PICK j \in JIDs : job.jid = j /\ RetrierHas(e, j) /\ retrier[e].job.state = job.state
    BY <1>1, <2>1 DEF TypeOK, RetrierTypeOK, Retriers, Job, RetrierHas
  <2>3. \A jid \in JIDs : RetrierHas(e, jid) => jid = j
    BY <2>2 DEF RetrierHas
  <2>. HIDE DEF job
  <2>4. \A jid \in JIDs : /\ ~RetrierDying(jid)'
                          /\ RetrierDying(jid) <=> (jid = j /\ job.state = "dead")
    BY <1>1, <2>1, <2>2, <2>3, RetrierPhase
  <2>5. CASE job.state # "dead" /\ AddToRetry(job)
    <3>1. dead' = dead
      BY <2>5 DEF AddToRetry
    <3>2. \A jid \in JIDs : RetrierDying(jid)' <=> RetrierDying(jid)
      BY <2>4, <2>5
    <3>. QED  BY <1>5, <3>1, <3>2
  <2>6. CASE job.state = "dead" /\ AddToDead(job)
    <3>1. /\ \A jid : Buried(jid)' <=> (Buried(jid) \/ jid = j)
          /\ UNCHANGED <<queues, retry>>
      BY <2>2, <2>6, AddToDeadBurial DEF AddToDead
    <3>2. \A jid \in JIDs : Dying(jid)' <=> Dying(jid)
      BY <1>4, <2>4, <2>6, <3>1, DyingParts
    <3>3. \A jid \in JIDs : Phase(jid)' = Phase(jid)
      BY <1>3, <1>4, <3>2, SamePhase
    <3>4. LifeStep
      BY <1>3, <3>3, LifeStutters DEF LifeStep
    <3>5. client[j] # "none" /\ ~Alive(j)'
      <4>1. RetrierHolds(j)
        BY <2>2 DEF RetrierHolds
      <4>2. client[j] # "none" /\ ~Queued(j) /\ ~InRetry(j) /\ ~FetcherHolds(j) /\ ~WorkerHolds(j)
        BY <1>1, <4>1, OnlyThere DEF Alive
      <4>3. ~RetrierHolds(j)'
        BY <1>1, <2>1, RetrierMoves
      <4>4. ~Queued(j)' /\ ~InRetry(j)' /\ ~FetcherHolds(j)' /\ ~WorkerHolds(j)'
        BY <1>2, <3>1, <4>2, SameHolders
      <4>. QED  BY <4>2, <4>3, <4>4 DEF Alive
    <3>6. \A jid \in JIDs : Finished(jid)' => Finished(jid) \/ (client[jid] # "none" /\ ~Alive(jid)')
      BY <1>3, <3>1, <3>5, DyingParts
    <3>. QED  BY <1>3, <3>4, <3>6, LivesOn
  <2>. QED  BY <2>1, <2>5, <2>6
<1>. QED  BY <1>7, <1>8, <1>9, <1>10, <1>11, <1>12 DEF Retrier

\* Client.Enqueue submits the job.
LEMMA ClientLives ==
  ASSUME TypeOK, Placed, LifeInv, Calm, NEW j \in JIDs, NEW q \in Queues, ClientEnqueue(j, q)
  PROVE  LifeInv' /\ LifeStep
<1>. USE CalmCalls
<1>1. PICK job \in {NewJob(j, q)} \cup {SetRetry(NewJob(j, q), n) : n \in RetryOptions} :
        Enqueue(q, job) /\ client' = [client EXCEPT ![j] = "accepted"]
  BY DEF ClientEnqueue, Call
<1>2. job \in Job /\ job.jid = j /\ job.queue = q
  BY <1>1, ClampType, RetryAssumption, ProcessorAssumption DEF NewJob, SetRetry, Job, JobState
<1>3. UNCHANGED <<fetcher, worker, retrier, retry, dead, succeeded, failures>> /\ client[j] = "none"
  BY <1>1 DEF ClientEnqueue, engineVars, Enqueue
<1>4. \A jid \in JIDs : jid # j => client'[jid] = client[jid]
  BY <1>1 DEF TypeOK, HistoryTypeOK
<1>5. client'[j] = "accepted"
  BY <1>1 DEF TypeOK, HistoryTypeOK
<1>6. \A jid \in JIDs : /\ Performing(jid)' <=> Performing(jid)
                        /\ WorkerDying(jid)' <=> WorkerDying(jid)
                        /\ RetrierDying(jid)' <=> RetrierDying(jid)
                        /\ Buried(jid)' <=> Buried(jid)
  BY <1>3, SameDying
<1>7. \A jid \in JIDs : (Dying(jid)' <=> Dying(jid)) /\ (Finished(jid)' <=> Finished(jid))
  BY <1>3, <1>6, DyingParts
<1>8. failures[j] = 0 /\ ~Finished(j)
  BY <1>3 DEF LifeInv, NewIsNew
<1>9. LifeStep
  <2>1. ~WorkerHolds(j) /\ ~RetrierHolds(j)
    BY <1>3 DEF Placed, Known
  <2>2. ~Performing(j) /\ ~WorkerDying(j) /\ ~RetrierDying(j) /\ j \notin succeeded /\ ~Buried(j)
    BY <1>8, <2>1, OnlyThere, DyingParts
  <2>3. Phase(j) = "new"
    BY <1>3 DEF Phase
  <2>4. Phase(j)' = "waiting"
    BY <1>3, <1>5, <1>6, <2>2, DyingParts DEF Phase
  <2>5. \A jid \in JIDs : jid # j => Phase(jid)' = Phase(jid)
    BY <1>3, <1>4, <1>6, <1>7, SamePhase
  <2>6. Life!Moves(j, "new", "waiting")
    BY <2>3, <2>4, <2>5, LifeMoves
  <2>. QED  BY <1>3, <2>6 DEF LifeStep, Life!Next, Life!Submit
<1>10. FailuresCounted'
  <2>. SUFFICES ASSUME NEW jid \in JIDs, NEW n \in Nat, n < failures[jid]
                PROVE  Above(jid, n)'
    BY <1>3 DEF FailuresCounted
  <2>1. jid # j /\ Above(jid, n)
    BY <1>8 DEF LifeInv, FailuresCounted
  <2>2. QueueNewer(jid, n)'
    BY <1>1, <1>2, <2>1, EnqueueNewer DEF TypeOK, Above, StoreNewer
  <2>. QED  BY <1>3, <2>1, <2>2, SameNewer, SameAbove DEF Above, StoreNewer
<1>11. FinishedGone'
  <2>. SUFFICES ASSUME NEW jid \in JIDs, Alive(jid)', jid # j
                PROVE  Alive(jid)
    BY <1>7, <1>8 DEF LifeInv, FinishedGone
  <2>1. Queued(jid)' => Queued(jid)
    BY <1>1, <1>2, EnqueueQueues DEF TypeOK
  <2>. QED  BY <1>3, <2>1, SameHolders DEF Alive
<1>12. NewIsNew'
  BY <1>3, <1>4, <1>5, <1>7 DEF LifeInv, NewIsNew
<1>. QED  BY <1>9, <1>10, <1>11, <1>12 DEF LifeInv

\* A start finds the hands of the engine empty; a stop changes nothing yet.
LEMMA ProcessLives ==
  ASSUME TypeOK, TypeOK', DownIsIdle, LifeInv, Calm, NEW e \in Engines,
         Start(e) \/ Stop(e) \/ StopReturns(e) \/ Crash(e)
  PROVE  LifeInv' /\ LifeStep
<1>. USE CalmCalls
<1>1. UNCHANGED <<queues, retry, dead, history>>
  BY DEF Start, Stop, StopReturns, Crash, brokerVars
<1>2. CASE Start(e)
  <2>1. \A f \in Engines :
          /\ fetcher'[f] = fetcher[f] \/ fetcher'[f].pc = "top"
          /\ \/ retrier'[f] = retrier[f]
             \/ retrier'[f].pc = "loop" /\ retrier[f].pc = "exited"
    BY <1>2 DEF Start, NoFetcher, NoRetrier, TypeOK, FetcherTypeOK, RetrierTypeOK, DownIsIdle
  <2>2. \A s \in Slots : \/ worker'[s] = worker[s]
                         \/ worker'[s].pc = "idle" /\ worker[s].pc = "exited"
    BY <1>2 DEF Start, NoWorker, DownIsIdle
  <2>3. \A jid, n : /\ FetcherAbove(jid, n) => FetcherAbove(jid, n)'
                    /\ WorkerAbove(jid, n) => WorkerAbove(jid, n)'
                    /\ RetrierNewer(jid, n) => RetrierNewer(jid, n)'
    BY <2>1, <2>2 DEF FetcherAbove, WorkerAbove, RetrierNewer, FetcherHas, WorkerHas, RetrierHas
  <2>4. Counts
    BY <1>1, <2>3, SameNewer DEF Counts, Above, StoreNewer
  <2>5. \A jid \in JIDs : /\ Performing(jid)' <=> Performing(jid)
                          /\ WorkerDying(jid)' <=> WorkerDying(jid)
    BY <2>2 DEF Performing, WorkerDying, WorkerHas
  <2>6. \A jid \in JIDs : RetrierDying(jid)' <=> RetrierDying(jid)
    BY <2>1 DEF RetrierDying, RetrierHas
  <2>. QED  BY <1>1, <2>4, <2>5, <2>6, SameDying, DyingParts, Unnoticed
<1>3. CASE Stop(e) \/ StopReturns(e)
  <2>1. UNCHANGED <<fetcher, worker, retrier>>
    BY <1>3 DEF Stop, StopReturns
  <2>2. Counts
    BY <1>1, <2>1, SameNewer, SameAbove DEF Counts, Above, StoreNewer
  <2>. QED  BY <1>1, <2>1, <2>2, SameDying, DyingParts, Unnoticed
<1>. QED  BY <1>2, <1>3 DEF Crash

\* Every step keeps to the life cycle.
LEMMA StepLives ==
  ASSUME LeaseInv, LifeInv, [Next]_vars, Calm, Alone
  PROVE  LifeInv' /\ LifeStep
<1>1. TypeOK /\ TypeOK' /\ DownIsIdle /\ Placed /\ AllHeld
  BY StepType DEF LeaseInv
<1>. USE <1>1
<1>2. ASSUME UNCHANGED <<queues, retry, dead, history, fetcher, worker, retrier>>
      PROVE  LifeInv' /\ LifeStep
  <2>1. Counts
    BY <1>2, SameNewer, SameAbove DEF Counts, Above, StoreNewer
  <2>. QED  BY <1>2, <2>1, SameDying, DyingParts, Unnoticed
<1>3. CASE UNCHANGED vars
  BY <1>2, <1>3 DEF vars, brokerVars, engineVars
<1>4. ASSUME NEW q \in Queues, NEW jid \in JIDs, ClientEnqueue(jid, q)
      PROVE  LifeInv' /\ LifeStep
  BY <1>4, ClientLives
<1>5. ASSUME NEW q \in Queues, ClearQueue(q)
      PROVE  LifeInv' /\ LifeStep
  <2>1. /\ UNCHANGED <<retry, dead, history, fetcher, worker, retrier>>
        /\ queues' = [queues EXCEPT ![q] = <<>>]
    BY <1>5 DEF ClearQueue, DeleteKey, engineVars
  <2>2. \A r \in Queues : \A i \in DOMAIN queues'[r] :
          i \in DOMAIN queues[r] /\ queues'[r][i] = queues[r][i]
    BY <2>1 DEF TypeOK, BrokerTypeOK
  <2>3. \A jid, n : QueueNewer(jid, n) => QueueNewer(jid, n)'
    BY <2>2 DEF QueueNewer
  <2>4. Counts
    BY <2>1, <2>3, SameNewer, SameAbove DEF Counts, Above, StoreNewer
  <2>. QED  BY <2>1, <2>4, SameDying, DyingParts, Unnoticed
<1>6. ASSUME NEW e \in Engines, Start(e) \/ Stop(e) \/ StopReturns(e) \/ Crash(e)
      PROVE  LifeInv' /\ LifeStep
  BY <1>6, ProcessLives
<1>7. ASSUME NEW e \in Engines, Fetcher(e)
      PROVE  LifeInv' /\ LifeStep
  BY <1>7, FetcherLives
<1>8. ASSUME NEW e \in Engines, Retrier(e)
      PROVE  LifeInv' /\ LifeStep
  BY <1>8, RetrierLives
<1>9. ASSUME NEW e \in Engines, Reaper(e)
      PROVE  LifeInv' /\ LifeStep
  <2>1. expired = {} /\ reaper[e].batch = {}
    BY DEF Placed, NothingToReap
  <2>2. ReaperExits(e)
    BY <1>9, <2>1 DEF Reaper, ReaperTick, ReaperSkips, ReaperEnqueues
  <2>. QED  BY <1>2, <2>2 DEF ReaperExits, brokerVars
<1>10. ASSUME NEW s \in Slots, Worker(s)
       PROVE  LifeInv' /\ LifeStep
  BY <1>10, WorkerLives
<1>11. ASSUME NEW data \in processing, OrphanLeaseExpires(data) \/ HeldLeaseExpires(data)
       PROVE  FALSE
  BY <1>11, CalmCalls DEF OrphanLeaseExpires, HeldLeaseExpires, AllHeld
<1>12. ASSUME NEW data \in retry, BackoffEnds(data)
       PROVE  LifeInv' /\ LifeStep
  BY <1>2, <1>12 DEF BackoffEnds, RetryFallsDue, engineVars
<1>. QED  BY <1>3, <1>4, <1>5, <1>6, <1>7, <1>8, <1>9, <1>10, <1>11, <1>12 DEF Next

\* In one engine whose calls succeed and whose leases hold, jobs follow the
\* specification JobLifecycle, whatever is stopped, started and cleared, circuits
\* open or not: processJob() and the retry loop move a job from one phase to the
\* next, one that is done or dead never runs again, and no job fails more often
\* than MaxRetryCount + 1 times.
THEOREM FollowsTheLifecycle ==
  ASSUME Calm, Alone
  PROVE  Spec => FollowsLifecycle
<1>1. Init => LifeInv /\ Life!Init
  <2>. SUFFICES ASSUME Init PROVE LifeInv /\ Life!Init
    OBVIOUS
  <2>1. /\ client = [jid \in JIDs |-> "none"] /\ failures = [jid \in JIDs |-> 0]
        /\ succeeded = {} /\ dead = {}
    BY DEF Init, BrokerInit
  <2>2. \A jid \in JIDs : Phase(jid) = "new"
    BY <2>1 DEF Phase
  <2>3. Life!Init
    BY <2>1, <2>2 DEF Life!Init
  <2>4. FailuresCounted /\ FinishedGone /\ NewIsNew
    BY <2>1 DEF FailuresCounted, FinishedGone, NewIsNew, Finished
  <2>. QED  BY <2>3, <2>4 DEF LifeInv
<1>2. LeaseInv /\ LifeInv /\ [Next]_vars => LifeInv' /\ [Life!Next]_(Life!vars)
  BY StepLives DEF LifeStep
<1>. QED  BY <1>1, <1>2, LeaseInvHolds, PTL DEF Spec, FollowsLifecycle, Life!Spec

-----------------------------------------------------------------------------
(* CrashLosesOnlyUnleased: what the leases remember when a process dies.      *)
(*                                                                            *)
(* Several copies of a job may be about, and an ack may end a lease that      *)
(* another goroutine counts on.  What saves that goroutine's job is another   *)
(* copy, which has been retried more often than the bytes that are acked: it  *)
(* is stored, leased by other bytes, or with a retry loop or a reaper.  The   *)
(* inductive invariant says so of every ack to come (AckBacked), and that     *)
(* whatever a fetcher or a worker has is backed in this way (HandBacked).     *)
(* It holds until the first crash, which loses what the retry loop and the    *)
(* reaper of the process have.  A second crash may find a job unbacked: when  *)
(* the lease of a slow worker has run out, and the process that took it over  *)
(* has crashed, nothing but the worker has the job.                           *)

ServesAll == \A e \in Engines : QueueSet(e) = Queues
AtMostOneCrash == \A most \in Scenarios : most["crash"] <= 1
Recovering == Undisputed /\ Excluded("clear") /\ AtMostOneCrash /\ ServesAll /\ Breakerless

\* A copy of the job that has been retried more than n times.
Over(x, jid, n) == x.jid = jid /\ x.retryCount > n

QueueBacks(jid, n)   == \E q \in Queues : \E i \in DOMAIN queues[q] : Over(queues[q][i], jid, n)
RetryBacks(jid, n)   == \E data \in retry : Over(data, jid, n)
LeaseBacks(jid, n)   == \E data \in processing : Over(data, jid, n)
RetrierBacks(jid, n) == \E e \in Engines : RetrierHas(e, jid) /\ Over(retrier[e].job, jid, n)
ReaperBacks(jid, n)  == \E e \in Engines : \E job \in reaper[e].batch : Over(job, jid, n)

\* The job has finished, or has such a copy outside fetchers and workers.
Backed(jid, n) ==
  \/ Finished(jid) \/ QueueBacks(jid, n) \/ RetryBacks(jid, n) \/ LeaseBacks(jid, n)
  \/ RetrierBacks(jid, n) \/ ReaperBacks(jid, n)

BackKept == \A jid \in JIDs, n \in Int : Backed(jid, n) => Backed(jid, n)'

AckBacked ==
  \A s \in Slots, jid \in JIDs, n \in Nat :
    (/\ worker[s].pc = "ack" /\ worker[s].job.jid = jid
     /\ worker[s].job.rawPayload.retryCount = n) => Backed(jid, n)

HandBacked == \A jid \in JIDs : FetcherHolds(jid) \/ WorkerHolds(jid) => Backed(jid, -1)

\* Nobody stops, so no fetcher hands a job back.
NoHandBack == \A e \in Engines : fetcher[e].pc \notin {"fallback", "ack"}

CrashInv == NoHandBack /\ RawKept /\ RawCounts /\ AckBacked /\ HandBacked

\* A place that does not change, or only grows.
LEMMA SameBacks ==
  /\ queues' = queues => \A jid, n : QueueBacks(jid, n) => QueueBacks(jid, n)'
  /\ retry \subseteq retry' => \A jid, n : RetryBacks(jid, n) => RetryBacks(jid, n)'
  /\ processing \subseteq processing' => \A jid, n : LeaseBacks(jid, n) => LeaseBacks(jid, n)'
  /\ retrier' = retrier => \A jid, n : RetrierBacks(jid, n) => RetrierBacks(jid, n)'
  /\ reaper' = reaper => \A jid, n : ReaperBacks(jid, n) => ReaperBacks(jid, n)'
  /\ succeeded \subseteq succeeded' /\ dead \subseteq dead' =>
       \A jid : Finished(jid) => Finished(jid)'
BY DEF QueueBacks, RetryBacks, LeaseBacks, RetrierBacks, ReaperBacks, RetrierHas, Finished

\* Enqueue keeps what is queued and adds its job.
LEMMA EnqueueBacks ==
  ASSUME BrokerTypeOK, NEW job \in Job, Enqueue(job.queue, job)
  PROVE  \A jid, n : QueueBacks(jid, n) \/ Over(job, jid, n) => QueueBacks(jid, n)'
<1>. DEFINE q == job.queue
            data == ToJSON(job)
<1>1. /\ q \in Queues /\ data \in Bytes /\ data.jid = job.jid /\ data.retryCount = job.retryCount
      /\ queues' = [queues EXCEPT ![q] = Append(@, data)]
  BY ToJSONType DEF ToJSON, Job, Enqueue
<1>. HIDE DEF q, data
<1>2. /\ queues[q] \in Seq(Bytes)
      /\ queues'[q] = Append(queues[q], data)
      /\ \A r \in Queues \ {q} : queues'[r] = queues[r]
  BY <1>1 DEF BrokerTypeOK
<1>3. Len(queues[q]) + 1 \in DOMAIN queues'[q] /\ queues'[q][Len(queues[q]) + 1] = data
  BY <1>1, <1>2
<1>4. \A i \in DOMAIN queues[q] : i \in DOMAIN queues'[q] /\ queues'[q][i] = queues[q][i]
  BY <1>1, <1>2
<1>5. \A r \in Queues : \A i \in DOMAIN queues[r] :
        i \in DOMAIN queues'[r] /\ queues'[r][i] = queues[r][i]
  BY <1>2, <1>4
<1>6. ASSUME NEW jid, NEW n, Over(job, jid, n)
      PROVE  QueueBacks(jid, n)'
  BY <1>1, <1>3, <1>6 DEF QueueBacks, Over
<1>7. ASSUME NEW jid, NEW n, QueueBacks(jid, n)
      PROVE  QueueBacks(jid, n)'
  BY <1>5, <1>7 DEF QueueBacks
<1>. QED  BY <1>6, <1>7

\* Dequeue leases what it takes off the queue.
LEMMA DequeueBacks ==
  ASSUME BrokerTypeOK, NEW q \in Queues, Dequeue(q)
  PROVE  /\ \A jid, n : QueueBacks(jid, n) => QueueBacks(jid, n)' \/ LeaseBacks(jid, n)'
         /\ \A jid, n : LeaseBacks(jid, n) => LeaseBacks(jid, n)'
         /\ \A jid : DequeuedJob(q).jid = jid => LeaseBacks(jid, -1)'
<1>1. /\ queues[q] \in Seq(Bytes) /\ queues[q] # <<>>
      /\ queues'[q] = Tail(queues[q])
      /\ \A r \in Queues \ {q} : queues'[r] = queues[r]
      /\ processing' = processing \cup {Head(queues[q])}
      /\ DequeuedJob(q).jid = Head(queues[q]).jid
  BY DequeueType DEF BrokerTypeOK, Dequeue
<1>2. \A i \in DOMAIN queues[q] \ {1} :
        i - 1 \in DOMAIN queues'[q] /\ queues'[q][i - 1] = queues[q][i]
  BY <1>1
<1>3. queues[q][1] = Head(queues[q]) /\ Head(queues[q]) \in Bytes
  BY <1>1
<1>4. ASSUME NEW jid, NEW n, QueueBacks(jid, n)
      PROVE  QueueBacks(jid, n)' \/ LeaseBacks(jid, n)'
  <2>1. PICK r \in Queues : \E i \in DOMAIN queues[r] : Over(queues[r][i], jid, n)
    BY <1>4 DEF QueueBacks
  <2>2. PICK i \in DOMAIN queues[r] : Over(queues[r][i], jid, n)
    BY <2>1
  <2>3. CASE r = q /\ i = 1
    BY <1>1, <1>3, <2>2, <2>3 DEF LeaseBacks
  <2>4. CASE ~(r = q /\ i = 1)
    <3>1. \E k \in DOMAIN queues'[r] : queues'[r][k] = queues[r][i]
      BY <1>1, <1>2, <2>2, <2>4
    <3>. QED  BY <2>2, <3>1 DEF QueueBacks
  <2>. QED  BY <2>3, <2>4
<1>5. \A jid, n : LeaseBacks(jid, n) => LeaseBacks(jid, n)'
  BY <1>1 DEF LeaseBacks
<1>6. Head(queues[q]).retryCount > -1
  BY <1>3 DEF Bytes
<1>7. \A jid : DequeuedJob(q).jid = jid => LeaseBacks(jid, -1)'
  BY <1>1, <1>6 DEF LeaseBacks, Over
<1>. QED  BY <1>4, <1>5, <1>7

\* AddToRetry keeps what is there and adds its job; AddToDead finishes it.
LEMMA AddBacks ==
  ASSUME NEW job
  PROVE  /\ AddToRetry(job) =>
              \A jid, n : RetryBacks(jid, n) \/ Over(job, jid, n) => RetryBacks(jid, n)'
         /\ AddToDead(job) => \A jid : job.jid = jid => Finished(jid)'
<1>1. ToJSON(job).jid = job.jid /\ ToJSON(job).retryCount = job.retryCount
  BY DEF ToJSON
<1>2. AddToRetry(job) =>
        \A jid, n : RetryBacks(jid, n) \/ Over(job, jid, n) => RetryBacks(jid, n)'
  BY <1>1 DEF AddToRetry, RetryBacks, Over
<1>3. AddToDead(job) => \A jid : job.jid = jid => Finished(jid)'
  BY <1>1 DEF AddToDead, Finished
<1>. QED  BY <1>2, <1>3

\* What is backed above m is backed above every lower count.
LEMMA BackedBelow ==
  ASSUME TypeOK, NEW jid \in JIDs, NEW m \in Int, NEW n \in Int, m > n
  PROVE  /\ QueueBacks(jid, m) => QueueBacks(jid, n)
         /\ RetryBacks(jid, m) => RetryBacks(jid, n)
         /\ RetrierBacks(jid, m) => RetrierBacks(jid, n)
         /\ ReaperBacks(jid, m) => ReaperBacks(jid, n)
         /\ \A data \in processing : Over(data, jid, m) => Over(data, jid, n)
<1>1. \A x : x.retryCount \in Nat /\ Over(x, jid, m) => Over(x, jid, n)
  BY DEF Over
<1>2. \A q \in Queues : \A i \in DOMAIN queues[q] : queues[q][i].retryCount \in Nat
  <2>1. \A q \in Queues : \A i \in DOMAIN queues[q] : queues[q][i] \in Bytes
    BY DEF TypeOK, BrokerTypeOK
  <2>. QED  BY <2>1 DEF Bytes
<1>3. \A data \in retry \cup processing : data.retryCount \in Nat
  BY DEF TypeOK, BrokerTypeOK, Bytes
<1>4. \A e \in Engines : RetrierHas(e, jid) => retrier[e].job.retryCount \in Nat
  BY DEF RetrierHas, TypeOK, RetrierTypeOK, Retriers, Job
<1>5. \A e \in Engines : \A job \in reaper[e].batch : job.retryCount \in Nat
  BY DEF TypeOK, Reapers, Job
<1>6. QueueBacks(jid, m) => QueueBacks(jid, n)
  BY <1>1, <1>2 DEF QueueBacks
<1>7. RetryBacks(jid, m) => RetryBacks(jid, n)
  BY <1>1, <1>3 DEF RetryBacks
<1>8. RetrierBacks(jid, m) => RetrierBacks(jid, n)
  BY <1>1, <1>4 DEF RetrierBacks
<1>9. ReaperBacks(jid, m) => ReaperBacks(jid, n)
  BY <1>1, <1>5 DEF ReaperBacks
<1>10. \A data \in processing : Over(data, jid, m) => Over(data, jid, n)
  BY <1>1, <1>3
<1>. QED  BY <1>6, <1>7, <1>8, <1>9, <1>10

\* A move of a retry loop loses no copy but the one in its hands.
LEMMA RetrierGoesBacks ==
  ASSUME TypeOK, NEW e \in Engines, NEW pc, NEW job, NEW batch, RetrierGoes(e, pc, job, batch)
  PROVE  \A jid, n :
           /\ RetrierBacks(jid, n) =>
                \/ RetrierBacks(jid, n)'
                \/ RetrierHas(e, jid) /\ Over(retrier[e].job, jid, n)
           /\ pc \in {"enqueue", "fallback"} /\ Over(job, jid, n) => RetrierBacks(jid, n)'
<1>1. \A f \in Engines : retrier'[f] = IF f = e THEN [pc |-> pc, job |-> job, batch |-> batch]
                                                ELSE retrier[f]
  BY DEF RetrierGoes, TypeOK, RetrierTypeOK
<1>2. ASSUME NEW jid, NEW n, RetrierBacks(jid, n)
      PROVE  RetrierBacks(jid, n)' \/ (RetrierHas(e, jid) /\ Over(retrier[e].job, jid, n))
  BY <1>1, <1>2 DEF RetrierBacks, RetrierHas
<1>3. ASSUME NEW jid, NEW n, pc \in {"enqueue", "fallback"}, Over(job, jid, n)
      PROVE  RetrierBacks(jid, n)'
  BY <1>1, <1>3 DEF RetrierBacks, RetrierHas, Over
<1>. QED  BY <1>2, <1>3

\* Nor does one of a reaper, but for those it drops from its batch.
LEMMA ReaperGoesBacks ==
  ASSUME TypeOK, NEW e \in Engines, NEW pc, NEW batch, ReaperGoes(e, pc, batch)
  PROVE  \A jid, n :
           /\ ReaperBacks(jid, n) =>
                \/ ReaperBacks(jid, n)'
                \/ \E job \in reaper[e].batch \ batch : Over(job, jid, n)
           /\ (\E job \in batch : Over(job, jid, n)) => ReaperBacks(jid, n)'
<1>1. \A f \in Engines : reaper'[f].batch = IF f = e THEN batch ELSE reaper[f].batch
  BY DEF ReaperGoes, TypeOK
<1>2. ASSUME NEW jid, NEW n, ReaperBacks(jid, n)
      PROVE  ReaperBacks(jid, n)' \/ \E job \in reaper[e].batch \ batch : Over(job, jid, n)
  BY <1>1, <1>2 DEF ReaperBacks
<1>3. ASSUME NEW jid, NEW n, \E job \in batch : Over(job, jid, n)
      PROVE  ReaperBacks(jid, n)'
  BY <1>1, <1>3 DEF ReaperBacks
<1>. QED  BY <1>2, <1>3

\* Steps that leave fetchers and workers alone.
LEMMA OthersKeepBacked ==
  ASSUME CrashInv, BackKept, UNCHANGED <<fetcher, worker>>
  PROVE  CrashInv'
<1>1. NoHandBack' /\ RawKept' /\ RawCounts'
  BY DEF CrashInv, NoHandBack, RawKept, RawCounts
<1>2. AckBacked'
  BY DEF CrashInv, AckBacked, BackKept
<1>3. \A jid \in JIDs : /\ FetcherHolds(jid)' <=> FetcherHolds(jid)
                        /\ WorkerHolds(jid)' <=> WorkerHolds(jid)
  BY SameHolders
<1>4. HandBacked'
  BY <1>3 DEF CrashInv, HandBacked, BackKept
<1>. QED  BY <1>1, <1>2, <1>4 DEF CrashInv

\* A move of a worker that goes on with its job, or is about to ack it.
LEMMA WorkerGoesBacked ==
  ASSUME TypeOK, CrashInv, BackKept, NEW s \in Slots, NEW pc, NEW job, WorkerGoes(s, pc, job),
         fetcher' = fetcher, job # NoJob => Raw(job), pc # "perform",
         pc = "schedule" => WorkerHas(s, job.jid),
         NEW jid \in JIDs, NEW n \in Nat,
         pc = "ack" => /\ job.jid = jid /\ job.rawPayload.retryCount = n
                       /\ Backed(jid, n)'
  PROVE  NoHandBack' /\ RawKept' /\ AckBacked' /\ HandBacked'
<1>1. NoHandBack' /\ RawKept'
  BY WorkerHeld DEF CrashInv, NoHandBack
<1>2. \A t \in Slots : worker'[t] = IF t = s THEN [pc |-> pc, job |-> job] ELSE worker[t]
  BY DEF WorkerGoes, TypeOK, WorkerTypeOK
<1>3. AckBacked'
  <2>. SUFFICES ASSUME NEW t \in Slots, NEW j \in JIDs, NEW m \in Nat, worker'[t].pc = "ack",
                       worker'[t].job.jid = j, worker'[t].job.rawPayload.retryCount = m
                PROVE  Backed(j, m)'
    BY DEF AckBacked
  <2>1. CASE t = s
    BY <1>2, <2>1
  <2>2. CASE t # s
    BY <1>2, <2>2 DEF CrashInv, AckBacked, BackKept
  <2>. QED  BY <2>1, <2>2
<1>4. \A j \in JIDs : WorkerHolds(j)' => WorkerHolds(j)
  BY WorkerPlaces DEF WorkerHolds
<1>5. HandBacked'
  BY <1>4, SameHolders DEF CrashInv, HandBacked, BackKept
<1>. QED  BY <1>1, <1>3, <1>5

\* An ack ends a lease only when the job is backed by a copy that is retried more often.
LEMMA AckKeepsBacked ==
  ASSUME TypeOK, CrashInv, NEW s \in Slots, worker[s].pc = "ack", Ack(worker[s].job),
         UNCHANGED <<succeeded, retrier, reaper>>
  PROVE  BackKept
<1>. DEFINE job == worker[s].job
<1>1. job # NoJob /\ Raw(job)
  BY DEF TypeOK, WorkerTypeOK, CrashInv, RawKept
<1>2. PICK raw \in Bytes : raw = job.rawPayload
  BY <1>1 DEF Raw
<1>3. /\ raw.jid = job.jid /\ raw.jid \in JIDs /\ raw.retryCount \in Nat
      /\ processing' = processing \ {raw}
  BY <1>1, <1>2, AckRaw DEF Raw, Bytes
<1>4. UNCHANGED <<queues, retry, dead, succeeded, retrier, reaper>>
  BY DEF Ack
<1>5. Backed(raw.jid, raw.retryCount)
  BY <1>2, <1>3 DEF CrashInv, AckBacked
<1>. SUFFICES ASSUME NEW jid \in JIDs, NEW n \in Int, Backed(jid, n)
              PROVE  Backed(jid, n)'
  BY DEF BackKept
<1>6. /\ Finished(jid) => Backed(jid, n)'
      /\ QueueBacks(jid, n) => Backed(jid, n)'
      /\ RetryBacks(jid, n) => Backed(jid, n)'
      /\ RetrierBacks(jid, n) => Backed(jid, n)'
      /\ ReaperBacks(jid, n) => Backed(jid, n)'
  BY <1>4, SameBacks DEF Backed
<1>7. \A data \in processing \ {raw} : Over(data, jid, n) => Backed(jid, n)'
  BY <1>3 DEF LeaseBacks, Backed, Over
<1>8. CASE Over(raw, jid, n)
  <2>1. PICK m \in Int : m = raw.retryCount /\ m > n /\ raw.jid = jid
    BY <1>3, <1>8 DEF Over
  <2>2. Backed(jid, m)
    BY <1>5, <2>1
  <2>3. /\ QueueBacks(jid, m) => QueueBacks(jid, n)
        /\ RetryBacks(jid, m) => RetryBacks(jid, n)
        /\ RetrierBacks(jid, m) => RetrierBacks(jid, n)
        /\ ReaperBacks(jid, m) => ReaperBacks(jid, n)
        /\ \A data \in processing : Over(data, jid, m) => Over(data, jid, n)
    BY <2>1, BackedBelow
  <2>4. ~Over(raw, jid, m)
    BY <2>1 DEF Over
  <2>5. LeaseBacks(jid, m) => Backed(jid, n)'
    BY <1>7, <2>3, <2>4 DEF LeaseBacks
  <2>. QED  BY <1>6, <2>2, <2>3, <2>5 DEF Backed
<1>9. CASE ~Over(raw, jid, n)
  BY <1>6, <1>7, <1>9 DEF Backed, LeaseBacks
<1>. QED  BY <1>8, <1>9

\* What backs a job stays where it is.
LEMMA SameBacked ==
  ASSUME UNCHANGED <<queues, retrier, reaper>>, processing \subseteq processing',
         retry \subseteq retry', succeeded \subseteq succeeded', dead \subseteq dead'
  PROVE  BackKept
BY SameBacks DEF BackKept, Backed

\* processJob() acks after the job is done, or backed by one attempt more.
LEMMA WorkerKeepsBacked ==
  ASSUME TypeOK, Excluded("error"), Breakerless, CrashInv, NEW s \in Slots, Worker(s)
  PROVE  CrashInv'
<1>. USE CallsSucceed
<1>1. /\ (worker[s].pc \in {"perform", "schedule", "ack"}) <=> (worker[s].job # NoJob)
      /\ worker[s].job # NoJob => worker[s].job \in Job /\ Raw(worker[s].job)
      /\ UNCHANGED <<fetcher, retrier, reaper>>
  BY DEF TypeOK, WorkerTypeOK, Workers, CrashInv, RawKept, Worker, JobSucceeds, JobFails,
         JobMeetsOpenCircuit, WorkerSchedules, WorkerAcks, WorkerExits
<1>2. RawCounts'
  BY WorkerAges DEF CrashInv
<1>3. worker[s].job # NoJob =>
        /\ worker[s].job.jid \in JIDs /\ worker[s].job.rawPayload.retryCount \in Nat
        /\ worker[s].job.retryCount \in Nat
  BY <1>1 DEF Job, Raw, Bytes
<1>4. CASE JobSucceeds(s)
  <2>. DEFINE job == [worker[s].job EXCEPT !.state = "success"]
  <2>1. /\ WorkerGoes(s, "ack", job) /\ worker[s].job \in Job /\ worker[s].job # NoJob
        /\ UNCHANGED <<queues, retry, processing, dead>>
        /\ succeeded' = succeeded \cup {job.jid}
    BY <1>1, <1>4 DEF JobSucceeds, Call, RecordSuccess
  <2>2. /\ job \in Job /\ job.jid = worker[s].job.jid
        /\ job.rawPayload = worker[s].job.rawPayload
    BY <2>1 DEF Job, JobState
  <2>. HIDE DEF job
  <2>3. BackKept
    BY <1>1, <2>1, SameBacked
  <2>4. Raw(job)
    BY <1>1, <2>1, <2>2 DEF Raw
  <2>5. PICK jid \in JIDs, n \in Nat : job.jid = jid /\ job.rawPayload.retryCount = n
    BY <1>3, <2>1, <2>2
  <2>6. Backed(jid, n)'
    BY <2>1, <2>5 DEF Backed, Finished
  <2>. QED  BY <1>1, <1>2, <2>1, <2>3, <2>4, <2>5, <2>6, WorkerGoesBacked DEF CrashInv
<1>5. CASE JobFails(s)
  <2>. DEFINE job == FailedJob(worker[s].job)
  <2>1. /\ WorkerGoes(s, "schedule", job) /\ worker[s].job \in Job /\ worker[s].job # NoJob
        /\ UNCHANGED <<queues, retry, processing, dead, succeeded>>
    BY <1>1, <1>5 DEF JobFails, Call, RecordFailure
  <2>2. /\ job.jid = worker[s].job.jid /\ job.rawPayload = worker[s].job.rawPayload
    BY <2>1 DEF FailedJob, Job
  <2>. HIDE DEF job
  <2>3. BackKept
    BY <1>1, <2>1, SameBacked
  <2>4. Raw(job) /\ WorkerHas(s, job.jid)
    BY <1>1, <1>5, <2>1, <2>2 DEF Raw, WorkerHas, JobFails
  <2>5. job.jid \in JIDs /\ 0 \in Nat
    BY <1>3, <2>1, <2>2
  <2>. QED  BY <1>1, <1>2, <2>1, <2>3, <2>4, <2>5, WorkerGoesBacked DEF CrashInv
<1>6. CASE WorkerSchedules(s)
  <2>. DEFINE job == worker[s].job
  <2>1. /\ WorkerGoes(s, "ack", job) /\ (AddToDead(job) \/ AddToRetry(job))
        /\ succeeded' = succeeded /\ job # NoJob /\ Raw(job)
        /\ job.retryCount > job.rawPayload.retryCount
    BY <1>1, <1>6 DEF WorkerSchedules, Call, history, CrashInv, RawCounts
  <2>2. PICK jid \in JIDs, n \in Nat : job.jid = jid /\ job.rawPayload.retryCount = n
    BY <1>3, <2>1
  <2>. HIDE DEF job
  <2>3. /\ UNCHANGED <<queues, processing>> /\ retry \subseteq retry' /\ dead \subseteq dead'
    BY <2>1 DEF AddToDead, AddToRetry
  <2>4. BackKept
    BY <1>1, <2>1, <2>3, SameBacked
  <2>5. Over(job, jid, n)
    BY <2>1, <2>2 DEF Over
  <2>6. RetryBacks(jid, n)' \/ Finished(jid)'
    BY <2>1, <2>2, <2>5, AddBacks
  <2>7. Backed(jid, n)'
    BY <2>6 DEF Backed
  <2>. QED  BY <1>1, <1>2, <2>1, <2>2, <2>4, <2>7, WorkerGoesBacked DEF CrashInv
<1>7. CASE WorkerAcks(s)
  <2>1. /\ WorkerGoes(s, "idle", NoJob) /\ Ack(worker[s].job) /\ worker[s].pc = "ack"
        /\ succeeded' = succeeded
    BY <1>7 DEF WorkerAcks, Call, history
  <2>2. BackKept
    BY <1>1, <2>1, AckKeepsBacked
  <2>3. worker[s].job.jid \in JIDs /\ 0 \in Nat
    BY <1>1, <1>3, <2>1
  <2>. QED  BY <1>1, <1>2, <2>1, <2>2, <2>3, WorkerGoesBacked DEF CrashInv
<1>8. CASE WorkerExits(s)
  <2>1. /\ WorkerGoes(s, "exited", NoJob)
        /\ UNCHANGED <<queues, retry, processing, dead, succeeded>>
    BY <1>8 DEF WorkerExits, brokerVars, history
  <2>2. BackKept
    BY <1>1, <2>1, SameBacked
  <2>3. CASE JIDs = {}
    <3>1. NoHandBack' /\ RawKept'
      BY <1>1, <2>1, WorkerHeld DEF CrashInv, NoHandBack
    <3>. QED  BY <1>2, <2>3, <3>1 DEF CrashInv, AckBacked, HandBacked
  <2>4. CASE JIDs # {}
    <3>1. PICK jid : jid \in JIDs
      BY <2>4
    <3>. QED  BY <1>1, <1>2, <2>1, <2>2, <3>1, WorkerGoesBacked DEF CrashInv
  <2>. QED  BY <2>3, <2>4
<1>. QED  BY <1>4, <1>5, <1>6, <1>7, <1>8
          DEF Worker, JobMeetsOpenCircuit, HandlerMayReturn, Breakerless

\* fetcher() leases the job it takes, and hands it to a worker.
LEMMA FetcherKeepsBacked ==
  ASSUME TypeOK, Budget, NeverStopping, Excluded("error"), CrashInv, NEW e \in Engines, Fetcher(e)
  PROVE  CrashInv'
<1>. USE CallsSucceed
<1>1. /\ BrokerTypeOK
      /\ (fetcher[e].pc \in {"send", "fallback", "ack"}) <=> (fetcher[e].job # NoJob)
      /\ fetcher[e].job # NoJob => fetcher[e].job \in Job /\ Raw(fetcher[e].job)
      /\ UNCHANGED <<retrier, reaper, succeeded>>
      /\ status[e] # "stopping" /\ fetcher[e].pc \notin {"fallback", "ack"}
  BY DEF TypeOK, FetcherTypeOK, Fetchers, CrashInv, RawKept, NoHandBack, NeverStopping, Fetcher,
         FetcherTop, FetcherPoll, FetcherSend, FetcherHandBack, FetcherFallback, FetcherAck, history
<1>2. RawCounts'
  BY FetcherAges DEF CrashInv
<1>3. ASSUME BackKept, worker' = worker, NEW pc \in {"top", "poll", "send"}, NEW job,
             NEW cursor, fetcher' = [fetcher EXCEPT ![e] = [pc |-> pc, job |-> job, cursor |-> cursor]],
             job # NoJob => Raw(job),
             \A jid \in JIDs : pc = "send" /\ job.jid = jid => Backed(jid, -1)'
      PROVE  CrashInv'
  <2>1. \A f \in Engines : fetcher'[f] = IF f = e THEN [pc |-> pc, job |-> job, cursor |-> cursor]
                                                  ELSE fetcher[f]
    BY <1>3 DEF TypeOK, FetcherTypeOK
  <2>2. NoHandBack' /\ RawKept'
    BY <1>3, <2>1 DEF CrashInv, NoHandBack, RawKept, Raw
  <2>3. AckBacked'
    BY <1>3 DEF CrashInv, AckBacked, BackKept
  <2>4. \A jid \in JIDs : FetcherHolds(jid)' => FetcherHolds(jid) \/ (pc = "send" /\ job.jid = jid)
    BY <1>3, <2>1 DEF FetcherHolds, FetcherHas
  <2>5. HandBacked'
    BY <1>3, <2>4, SameHolders DEF CrashInv, HandBacked, BackKept
  <2>. QED  BY <1>2, <2>2, <2>3, <2>5 DEF CrashInv
<1>4. CASE FetcherTop(e)
  <2>1. /\ UNCHANGED <<queues, processing, retry, dead, worker>>
        /\ FetcherPolls(e)
    BY <1>1, <1>4 DEF FetcherTop, brokerVars
  <2>2. BackKept
    BY <1>1, <2>1, SameBacked
  <2>. QED  BY <1>3, <2>1, <2>2 DEF FetcherPolls
<1>5. CASE FetcherPoll(e)
  <2>0. worker' = worker
    BY <1>5 DEF FetcherPoll
  <2>1. CASE Dequeue(PolledQueue(e)) /\ FetcherGoes(e, "send", DequeuedJob(PolledQueue(e)))
    <3>. DEFINE q == PolledQueue(e)
                job == DequeuedJob(q)
    <3>1. /\ job \in Job /\ job.rawPayload = Head(queues[q]) /\ job.jid = Head(queues[q]).jid
          /\ q \in Queues /\ Dequeue(q) /\ FetcherGoes(e, "send", job)
          /\ UNCHANGED <<retry, dead>>
      BY <1>1, <2>1, DequeueType, PolledQueueType DEF Dequeue
    <3>2. Head(queues[q]) \in Bytes
      BY <1>1, <2>1, <3>1 DEF BrokerTypeOK, Dequeue
    <3>3. /\ \A jid, n : QueueBacks(jid, n) => QueueBacks(jid, n)' \/ LeaseBacks(jid, n)'
          /\ \A jid, n : LeaseBacks(jid, n) => LeaseBacks(jid, n)'
          /\ \A jid : job.jid = jid => LeaseBacks(jid, -1)'
      BY <1>1, <3>1, DequeueBacks
    <3>. HIDE DEF q, job
    <3>4. Raw(job)
      BY <3>1, <3>2 DEF Raw
    <3>5. BackKept
      BY <1>1, <3>1, <3>3, SameBacks DEF BackKept, Backed
    <3>6. \A jid \in JIDs : job.jid = jid => Backed(jid, -1)'
      BY <3>3 DEF Backed
    <3>. QED  BY <1>3, <2>0, <3>1, <3>4, <3>5, <3>6 DEF FetcherGoes
  <2>2. CASE FetcherGoes(e, "top", NoJob) /\ UNCHANGED brokerVars
    <3>1. BackKept
      BY <1>1, <2>2, SameBacked DEF brokerVars
    <3>. QED  BY <1>3, <2>0, <2>2, <3>1 DEF FetcherGoes
  <2>. QED  BY <1>5, <2>1, <2>2 DEF FetcherPoll, Call
<1>6. CASE FetcherSend(e)
  <2>. DEFINE job == [fetcher[e].job EXCEPT !.state = "active"]
  <2>1. /\ job.rawPayload = fetcher[e].job.rawPayload /\ job.jid = fetcher[e].job.jid
        /\ Raw(fetcher[e].job) /\ fetcher[e].pc = "send"
        /\ UNCHANGED <<queues, processing, retry, dead>> /\ FetcherGoes(e, "top", NoJob)
    BY <1>1, <1>6 DEF FetcherSend, Job, brokerVars
  <2>2. PICK s \in Slots : WorkerGoes(s, "perform", job)
    BY <1>6 DEF FetcherSend, WorkerGoes
  <2>. HIDE DEF job
  <2>3. BackKept
    BY <1>1, <2>1, SameBacked
  <2>4. /\ \A f \in Engines : /\ fetcher'[f].job = IF f = e THEN NoJob ELSE fetcher[f].job
                              /\ fetcher'[f].pc = IF f = e THEN "top" ELSE fetcher[f].pc
        /\ \A t \in Slots : worker'[t] = IF t = s THEN [pc |-> "perform", job |-> job] ELSE worker[t]
    BY <2>1, <2>2 DEF FetcherGoes, WorkerGoes, TypeOK, FetcherTypeOK, WorkerTypeOK
  <2>5. NoHandBack' /\ RawKept'
    BY <2>1, <2>4 DEF CrashInv, NoHandBack, RawKept, Raw
  <2>6. AckBacked'
    <3>. SUFFICES ASSUME NEW t \in Slots, NEW j \in JIDs, NEW m \in Nat, worker'[t].pc = "ack",
                         worker'[t].job.jid = j, worker'[t].job.rawPayload.retryCount = m
                  PROVE  Backed(j, m)'
      BY DEF AckBacked
    <3>. QED  BY <2>3, <2>4 DEF CrashInv, AckBacked, BackKept
  <2>7. \A jid \in JIDs : FetcherHolds(jid)' \/ WorkerHolds(jid)' => FetcherHolds(jid) \/ WorkerHolds(jid)
    <3>1. \A jid \in JIDs : WorkerHolds(jid)' => WorkerHolds(jid) \/ FetcherHas(e, jid)
      BY <2>1, <2>4 DEF WorkerHolds, WorkerHas, FetcherHas
    <3>2. \A jid \in JIDs : FetcherHolds(jid)' => FetcherHolds(jid)
      BY <2>4 DEF FetcherHolds, FetcherHas
    <3>. QED  BY <3>1, <3>2 DEF FetcherHolds
  <2>8. HandBacked'
    BY <2>3, <2>7 DEF CrashInv, HandBacked, BackKept
  <2>. QED  BY <1>2, <2>5, <2>6, <2>8 DEF CrashInv
<1>. QED  BY <1>1, <1>4, <1>5, <1>6 DEF Fetcher, FetcherHandBack, FetcherFallback, FetcherAck

\* retryLoop() takes a job out of the retry set and puts it into its queue.
LEMMA RetrierKeepsBacked ==
  ASSUME TypeOK, NeverStopping, Excluded("error"), NEW e \in Engines, Retrier(e)
  PROVE  BackKept
<1>. USE CallsSucceed
<1>1. /\ BrokerTypeOK
      /\ retrier[e].pc \in {"enqueue", "fallback"} => retrier[e].job \in Job
      /\ retrier[e].batch \in SUBSET Job
      /\ UNCHANGED <<reaper, succeeded>>
  BY DEF TypeOK, RetrierTypeOK, Retriers, Retrier, RetryTick, RetrySkips, RetryRemoves,
         RetryEnqueues, RetryFallsBack, RetryExits, history
<1>2. ASSUME UNCHANGED brokerVars, retrier[e].pc = "loop", NEW pc, NEW job, NEW batch,
             RetrierGoes(e, pc, job, batch)
      PROVE  BackKept
  <2>1. \A jid, n : RetrierBacks(jid, n) => RetrierBacks(jid, n)'
    BY <1>2, RetrierGoesBacks DEF RetrierHas
  <2>2. UNCHANGED <<queues, retry, processing, dead>>
    BY <1>2 DEF brokerVars
  <2>. QED  BY <1>1, <2>1, <2>2, SameBacks DEF BackKept, Backed
<1>3. CASE RetryTick(e) \/ RetrySkips(e) \/ RetryExits(e)
  BY <1>2, <1>3 DEF RetryTick, RetrySkips, RetryExits
<1>4. CASE RetryRemoves(e)
  <2>1. PICK old \in retrier[e].batch :
          /\ RemoveFromRetry(old)
          /\ RetrierGoes(e, "enqueue", [old EXCEPT !.state = "pending"], retrier[e].batch \ {old})
    BY <1>4 DEF RetryRemoves, Call
  <2>2. PICK job, rest, data :
          /\ RetrierGoes(e, "enqueue", job, rest) /\ retry' = retry \ {data}
          /\ job.jid = data.jid /\ job.retryCount = data.retryCount
    <3>1. /\ [old EXCEPT !.state = "pending"].jid = ToJSON(old).jid
          /\ [old EXCEPT !.state = "pending"].retryCount = ToJSON(old).retryCount
      BY <1>1, <2>1 DEF Job, ToJSON
    <3>. QED  BY <2>1, <3>1 DEF RemoveFromRetry
  <2>3. UNCHANGED <<queues, processing, dead>> /\ retrier[e].pc = "loop"
    BY <1>4, <2>1 DEF RetryRemoves, RemoveFromRetry
  <2>4. \A jid, n : RetrierBacks(jid, n) => RetrierBacks(jid, n)'
    BY <2>2, <2>3, RetrierGoesBacks DEF RetrierHas
  <2>5. \A jid, n : Over(data, jid, n) => RetrierBacks(jid, n)'
    BY <2>2, RetrierGoesBacks DEF Over
  <2>6. \A jid, n : RetryBacks(jid, n) => RetryBacks(jid, n)' \/ RetrierBacks(jid, n)'
    BY <2>2, <2>5 DEF RetryBacks
  <2>. QED  BY <1>1, <2>3, <2>4, <2>6, SameBacks DEF BackKept, Backed
<1>5. CASE RetryEnqueues(e)
  <2>1. PICK job : job = retrier[e].job
    OBVIOUS
  <2>2. job \in Job /\ Enqueue(job.queue, job) /\ RetrierGoes(e, "loop", NoJob, retrier[e].batch)
    BY <1>1, <1>5, <2>1 DEF RetryEnqueues, Call, CallWithEngineContext, NeverStopping
  <2>3. UNCHANGED <<retry, processing, dead>>
    BY <2>2 DEF Enqueue
  <2>4. \A jid, n : RetrierBacks(jid, n) => RetrierBacks(jid, n)' \/ Over(job, jid, n)
    BY <2>1, <2>2, RetrierGoesBacks
  <2>5. \A jid, n : QueueBacks(jid, n) \/ Over(job, jid, n) => QueueBacks(jid, n)'
    BY <1>1, <2>2, EnqueueBacks
  <2>. QED  BY <1>1, <2>3, <2>4, <2>5, SameBacks DEF BackKept, Backed
<1>6. CASE RetryFallsBack(e)
  <2>1. PICK job : job = retrier[e].job
    OBVIOUS
  <2>2. /\ AddToDead(job) \/ AddToRetry(job)
        /\ RetrierGoes(e, "loop", NoJob, retrier[e].batch)
    BY <1>6, <2>1 DEF RetryFallsBack, Call
  <2>3. UNCHANGED <<queues, processing>> /\ retry \subseteq retry' /\ dead \subseteq dead'
    BY <2>2 DEF AddToDead, AddToRetry
  <2>4. \A jid, n : RetrierBacks(jid, n) => RetrierBacks(jid, n)' \/ Over(job, jid, n)
    BY <2>1, <2>2, RetrierGoesBacks
  <2>5. \A jid, n : Over(job, jid, n) => RetryBacks(jid, n)' \/ Finished(jid)'
    <3>1. CASE AddToDead(job)
      BY <3>1, AddBacks DEF Over
    <3>2. CASE AddToRetry(job)
      BY <3>2, AddBacks
    <3>. QED  BY <2>2, <3>1, <3>2
  <2>. QED  BY <1>1, <2>3, <2>4, <2>5, SameBacks DEF BackKept, Backed
<1>. QED  BY <1>3, <1>4, <1>5, <1>6 DEF Retrier

\* reaperLoop() puts what it takes from the leases into the queues.
LEMMA ReaperKeepsBacked ==
  ASSUME TypeOK, Budget, NeverStopping, Excluded("error"), ServesAll, NEW e \in Engines, Reaper(e)
  PROVE  BackKept
<1>. USE CallsSucceed
<1>1. /\ BrokerTypeOK /\ RetryBudget /\ reaper[e].batch \in SUBSET Job
      /\ UNCHANGED <<retrier, succeeded>>
  BY DEF TypeOK, Reapers, Budget, Reaper, ReaperTick, ReaperSkips, ReaperEnqueues, ReaperExits,
         history
<1>2. CASE ReaperTick(e)
  <2>1. PICK batch \in Batches(expired, ReapLimit) :
          ReapOrphanedJobs(batch) /\ ReaperGoes(e, "loop", OrphanedJobs(batch))
    BY <1>2 DEF ReaperTick, Call
  <2>2. batch \in SUBSET processing
    BY <1>1, <2>1, BatchesType DEF BrokerTypeOK
  <2>3. ASSUME NEW data \in batch
        PROVE  \E job \in OrphanedJobs(batch) : job.jid = data.jid /\ job.retryCount = data.retryCount
    <3>1. data \in Bytes /\ Runnable(data)
      BY <1>1, <2>2 DEF BrokerTypeOK, RetryBudget
    <3>2. FromJSON(data).jid = data.jid /\ FromJSON(data).retryCount = data.retryCount
      BY <3>1, ParseRunnable
    <3>3. /\ [FromJSON(data) EXCEPT !.state = "pending", !.rawPayload = NoRaw].jid = data.jid
          /\ [FromJSON(data) EXCEPT !.state = "pending", !.rawPayload = NoRaw].retryCount = data.retryCount
      BY <3>2 DEF FromJSON
    <3>. QED  BY <3>3 DEF OrphanedJobs
  <2>4. UNCHANGED <<queues, retry, dead>> /\ processing' = processing \ batch
    BY <2>1 DEF ReapOrphanedJobs
  <2>5. \A jid, n : ReaperBacks(jid, n) => ReaperBacks(jid, n)'
    BY <1>2, <2>1, ReaperGoesBacks DEF ReaperTick
  <2>6. \A jid, n : \A data \in batch : Over(data, jid, n) => ReaperBacks(jid, n)'
    BY <2>1, <2>3, ReaperGoesBacks DEF Over
  <2>7. \A jid, n : LeaseBacks(jid, n) => LeaseBacks(jid, n)' \/ ReaperBacks(jid, n)'
    BY <2>4, <2>6 DEF LeaseBacks
  <2>. QED  BY <1>1, <2>4, <2>5, <2>7, SameBacks DEF BackKept, Backed
<1>3. CASE ReaperEnqueues(e)
  <2>1. PICK job \in reaper[e].batch :
          Enqueue(job.queue, job) /\ ReaperGoes(e, "loop", reaper[e].batch \ {job})
    BY <1>3 DEF ReaperEnqueues, CallWithEngineContext, Call, NeverStopping
  <2>2. UNCHANGED <<retry, processing, dead>>
    BY <2>1 DEF Enqueue
  <2>3. \A jid, n : ReaperBacks(jid, n) => ReaperBacks(jid, n)' \/ Over(job, jid, n)
    BY <2>1, ReaperGoesBacks
  <2>4. \A jid, n : QueueBacks(jid, n) \/ Over(job, jid, n) => QueueBacks(jid, n)'
    BY <1>1, <2>1, EnqueueBacks
  <2>. QED  BY <1>1, <2>2, <2>3, <2>4, SameBacks DEF BackKept, Backed
<1>4. ~ReaperSkips(e)
  BY <1>1 DEF ReaperSkips, ServesAll, Job
<1>5. ~ReaperExits(e)
  BY DEF ReaperExits, NeverStopping
<1>. QED  BY <1>2, <1>3, <1>4, <1>5 DEF Reaper

\* A start finds the hands of the process empty; the crash excluded, nothing else changes hands.
LEMMA LifeKeepsBacked ==
  ASSUME TypeOK, DownIsIdle, LoopsEmpty, NeverStopping, Undisputed, CrashInv, NEW e \in Engines,
         Start(e) \/ Stop(e) \/ StopReturns(e)
  PROVE  CrashInv'
<1>1. Start(e)
  BY CallSucceeds DEF Stop, StopReturns, NeverStopping
<1>2. /\ fetcher[e].job = NoJob /\ fetcher[e].pc = "exited"
      /\ retrier[e].pc = "exited" /\ reaper[e].batch = {}
      /\ \A s \in Slots : s[1] = e => worker[s].job = NoJob /\ worker[s].pc = "exited"
  BY <1>1 DEF Start, DownIsIdle, LoopsEmpty, TypeOK, FetcherTypeOK, WorkerTypeOK
<1>3. /\ \A f \in Engines : /\ fetcher'[f].job = fetcher[f].job
                            /\ fetcher'[f].pc = IF f = e THEN "top" ELSE fetcher[f].pc
      /\ \A s \in Slots : /\ worker'[s].job = worker[s].job
                          /\ worker'[s].pc = IF s[1] = e THEN "idle" ELSE worker[s].pc
  BY <1>1, <1>2 DEF Start, NoFetcher, NoWorker, TypeOK, FetcherTypeOK, WorkerTypeOK
<1>4. /\ \A f \in Engines : /\ f # e => retrier'[f] = retrier[f]
                            /\ reaper'[f].batch = reaper[f].batch
  BY <1>1, <1>2 DEF Start, NoReaper, TypeOK, RetrierTypeOK
<1>5. UNCHANGED <<queues, retry, processing, dead, succeeded>>
  BY <1>1 DEF Start, brokerVars, history
<1>6. BackKept
  <2>1. \A jid, n : RetrierBacks(jid, n) => RetrierBacks(jid, n)'
    BY <1>2, <1>4 DEF RetrierBacks, RetrierHas
  <2>2. \A jid, n : ReaperBacks(jid, n) => ReaperBacks(jid, n)'
    BY <1>4 DEF ReaperBacks
  <2>. QED  BY <1>5, <2>1, <2>2, SameBacks DEF BackKept, Backed
<1>7. NoHandBack' /\ RawKept'
  BY <1>3 DEF CrashInv, NoHandBack, RawKept, Raw
<1>8. RawCounts'
  BY <1>3 DEF CrashInv, RawCounts
<1>9. AckBacked'
  <2>. SUFFICES ASSUME NEW t \in Slots, NEW j \in JIDs, NEW m \in Nat, worker'[t].pc = "ack",
                       worker'[t].job.jid = j, worker'[t].job.rawPayload.retryCount = m
                PROVE  Backed(j, m)'
    BY DEF AckBacked
  <2>. QED  BY <1>3, <1>6 DEF CrashInv, AckBacked, BackKept
<1>10. \A jid \in JIDs : /\ FetcherHolds(jid)' => FetcherHolds(jid)
                         /\ WorkerHolds(jid)' => WorkerHolds(jid)
  BY <1>3 DEF FetcherHolds, FetcherHas, WorkerHolds, WorkerHas
<1>11. HandBacked'
  BY <1>6, <1>10 DEF CrashInv, HandBacked, BackKept
<1>. QED  BY <1>7, <1>8, <1>9, <1>11 DEF CrashInv

\* Enqueue adds a copy.
LEMMA ClientKeepsBacked ==
  ASSUME TypeOK, Excluded("error"), NEW q \in Queues, NEW j \in JIDs, ClientEnqueue(j, q)
  PROVE  BackKept
<1>. USE CallsSucceed
<1>1. PICK job \in {NewJob(j, q)} \cup {SetRetry(NewJob(j, q), n) : n \in RetryOptions} :
        Enqueue(q, job)
  BY DEF ClientEnqueue, Call
<1>2. job \in Job /\ job.queue = q
  BY <1>1, ClampType, RetryAssumption, ProcessorAssumption DEF NewJob, SetRetry, Job, JobState
<1>3. UNCHANGED <<retrier, reaper, retry, processing, dead, succeeded>>
  BY <1>1 DEF ClientEnqueue, engineVars, Enqueue
<1>4. \A jid, n : QueueBacks(jid, n) => QueueBacks(jid, n)'
  BY <1>1, <1>2, EnqueueBacks DEF TypeOK
<1>. QED  BY <1>3, <1>4, SameBacks DEF BackKept, Backed

\* Only a crash counts as one.
LEMMA CrashesCounted ==
  ASSUME TypeOK, [Next]_vars
  PROVE  \/ disturbed'["crash"] = disturbed["crash"]
         \/ disturbed'["crash"] = disturbed["crash"] + 1 /\ \E e \in Engines : Crash(e)
<1>1. "crash" \in AllDisturbances /\ disturbed \in [AllDisturbances -> Nat]
  BY DEF TypeOK, HistoryTypeOK, AllDisturbances
<1>2. ASSUME NEW kind \in {"error", "stop", "slow", "clear"}, Disturb(kind)
      PROVE  disturbed'["crash"] = disturbed["crash"]
  <2>1. kind # "crash"
    BY <1>2
  <2>. QED  BY <1>1, <1>2, <2>1 DEF Disturb
<1>. DEFINE Same == disturbed'["crash"] = disturbed["crash"]
<1>3. disturbed' = disturbed => Same
  OBVIOUS
<1>. HIDE DEF Same
<1>4. ASSUME NEW q \in Queues, ClearQueue(q) \/ \E jid \in JIDs : ClientEnqueue(jid, q)
      PROVE  Same
  BY <1>2, <1>3, <1>4 DEF ClearQueue, ClientEnqueue, Call, Same
<1>5. ASSUME NEW e \in Engines, Start(e) \/ Stop(e) \/ StopReturns(e)
      PROVE  Same
  BY <1>2, <1>3, <1>5 DEF Start, Stop, StopReturns, Same
<1>6. ASSUME NEW e \in Engines, Crash(e)
      PROVE  disturbed'["crash"] = disturbed["crash"] + 1
  BY <1>1, <1>6 DEF Crash, Disturb
<1>7. ASSUME NEW e \in Engines, Fetcher(e) \/ Retrier(e) \/ Reaper(e)
      PROVE  Same
  <2>1. CASE Fetcher(e)
    BY <1>2, <1>3, <2>1 DEF Fetcher, FetcherTop, FetcherPoll, FetcherSend, FetcherHandBack,
                            FetcherFallback, FetcherAck, Call, Same
  <2>2. CASE Retrier(e)
    BY <1>2, <1>3, <2>2 DEF Retrier, RetryTick, RetrySkips, RetryRemoves, RetryEnqueues,
                            RetryFallsBack, RetryExits, Call, CallWithEngineContext, Same
  <2>3. CASE Reaper(e)
    BY <1>2, <1>3, <2>3 DEF Reaper, ReaperTick, ReaperSkips, ReaperEnqueues, ReaperExits, Call,
                            CallWithEngineContext, Same
  <2>. QED  BY <1>7, <2>1, <2>2, <2>3
<1>8. ASSUME NEW s \in Slots, Worker(s)
      PROVE  Same
  BY <1>2, <1>3, <1>8 DEF Worker, JobSucceeds, JobFails, JobMeetsOpenCircuit, WorkerSchedules,
                          WorkerAcks, WorkerExits, Call, Same
<1>9. ASSUME NEW data, OrphanLeaseExpires(data) \/ HeldLeaseExpires(data) \/ BackoffEnds(data)
      PROVE  Same
  BY <1>2, <1>3, <1>9 DEF OrphanLeaseExpires, HeldLeaseExpires, BackoffEnds, Same
<1>10. CASE UNCHANGED vars
  BY <1>3, <1>10 DEF vars, Same
<1>. QED  BY <1>4, <1>5, <1>6, <1>7, <1>8, <1>9, <1>10 DEF Next, Same

\* Without a crash everything in hand stays backed.
LEMMA StepCrashInv ==
  ASSUME Recovering, TypeOK, Budget, DownIsIdle, LoopsEmpty, NeverStopping, CrashInv, [Next]_vars,
         \A e \in Engines : ~Crash(e)
  PROVE  CrashInv'
<1>0. /\ Undisputed /\ Excluded("error") /\ Excluded("clear") /\ ServesAll /\ Breakerless
      /\ ~Disturb("clear")
  BY ExcludedNeverHappens DEF Recovering, Undisputed, AllDisturbances
<1>1. ASSUME NEW q \in Queues, NEW jid \in JIDs, ClientEnqueue(jid, q)
      PROVE  CrashInv'
  <2>1. BackKept
    BY <1>0, <1>1, ClientKeepsBacked
  <2>2. UNCHANGED <<fetcher, worker>>
    BY <1>1 DEF ClientEnqueue, engineVars
  <2>. QED  BY <2>1, <2>2, OthersKeepBacked
<1>2. ASSUME NEW q \in Queues, ClearQueue(q)
      PROVE  FALSE
  BY <1>0, <1>2 DEF ClearQueue
<1>3. ASSUME NEW e \in Engines, Start(e) \/ Stop(e) \/ StopReturns(e)
      PROVE  CrashInv'
  BY <1>0, <1>3, LifeKeepsBacked
<1>4. ASSUME NEW e \in Engines, Fetcher(e)
      PROVE  CrashInv'
  BY <1>0, <1>4, FetcherKeepsBacked
<1>5. ASSUME NEW e \in Engines, Retrier(e)
      PROVE  CrashInv'
  <2>1. BackKept
    BY <1>0, <1>5, RetrierKeepsBacked
  <2>2. UNCHANGED <<fetcher, worker>>
    BY <1>5 DEF Retrier, RetryTick, RetrySkips, RetryRemoves, RetryEnqueues, RetryFallsBack,
                RetryExits
  <2>. QED  BY <2>1, <2>2, OthersKeepBacked
<1>6. ASSUME NEW e \in Engines, Reaper(e)
      PROVE  CrashInv'
  <2>1. BackKept
    BY <1>0, <1>6, ReaperKeepsBacked
  <2>2. UNCHANGED <<fetcher, worker>>
    BY <1>6 DEF Reaper, ReaperTick, ReaperSkips, ReaperEnqueues, ReaperExits
  <2>. QED  BY <2>1, <2>2, OthersKeepBacked
<1>7. ASSUME NEW s \in Slots, Worker(s)
      PROVE  CrashInv'
  BY <1>0, <1>7, WorkerKeepsBacked
<1>8. CASE UNCHANGED <<queues, processing, retry, dead, succeeded, fetcher, worker, retrier, reaper>>
  BY <1>8, SameBacked, OthersKeepBacked
<1>9. ASSUME NEW data, OrphanLeaseExpires(data) \/ HeldLeaseExpires(data) \/ BackoffEnds(data)
      PROVE  CrashInv'
  BY <1>8, <1>9 DEF OrphanLeaseExpires, HeldLeaseExpires, BackoffEnds, LeaseExpires, RetryFallsDue,
                    engineVars, history
<1>10. CASE UNCHANGED vars
  BY <1>8, <1>10 DEF vars, brokerVars, engineVars, history
<1>. QED  BY <1>1, <1>2, <1>3, <1>4, <1>5, <1>6, <1>7, <1>9, <1>10 DEF Next

\* The crash itself: what the process had is backed elsewhere, unless its retry
\* loop or its reaper had it.
LEMMA CrashKeepsBacked ==
  ASSUME TypeOK, CrashInv, NEW e \in Engines, Crash(e), NEW jid \in JIDs,
         Settled(jid) \/ Reclaimable(jid),
         ~RetrierHas(e, jid), ~\E job \in reaper[e].batch : job.jid = jid
  PROVE  (Settled(jid) \/ Reclaimable(jid))'
<1>1. UNCHANGED <<queues, retry, processing, dead, succeeded>>
  BY DEF Crash, brokerVars, history
<1>2. /\ \A f \in Engines \ {e} : retrier'[f] = retrier[f] /\ reaper'[f] = reaper[f]
      /\ \A f \in Engines \ {e} : fetcher'[f] = fetcher[f]
      /\ \A s \in Slots : s[1] # e => worker'[s] = worker[s]
  BY DEF Crash, TypeOK, FetcherTypeOK, RetrierTypeOK
<1>3. Stored(jid) \/ jid \in succeeded => Settled(jid)'
  BY <1>1 DEF Stored, Settled
<1>4. (\E f \in Engines : RetrierHas(f, jid)) => Settled(jid)'
  BY <1>2 DEF RetrierHas, InHand, Settled
<1>5. Reclaimable(jid) => Reclaimable(jid)'
  BY <1>1, <1>2 DEF Reclaimable
<1>6. Backed(jid, -1) => (Settled(jid) \/ Reclaimable(jid))'
  <2>1. Finished(jid) \/ QueueBacks(jid, -1) \/ RetryBacks(jid, -1) => Stored(jid) \/ jid \in succeeded
    BY DEF Finished, QueueBacks, RetryBacks, Over, Stored
  <2>2. LeaseBacks(jid, -1) \/ ReaperBacks(jid, -1) => Reclaimable(jid)
    BY DEF LeaseBacks, ReaperBacks, Over, Reclaimable
  <2>3. RetrierBacks(jid, -1) => \E f \in Engines : RetrierHas(f, jid)
    BY DEF RetrierBacks
  <2>. QED  BY <1>3, <1>4, <1>5, <2>1, <2>2, <2>3 DEF Backed
<1>7. FetcherHolds(jid) \/ WorkerHolds(jid) => Backed(jid, -1)
  BY DEF CrashInv, HandBacked
<1>. QED  BY <1>3, <1>4, <1>5, <1>6, <1>7 DEF Settled, InHand, FetcherHolds, WorkerHolds

RecoveryInv == DownIsIdle /\ LoopsEmpty /\ NeverStopping /\ (disturbed["crash"] = 0 => CrashInv)

\* The first crash of a behaviour loses no job but one that the retry loop or the
\* reaper of the very process had taken out of Redis and not yet put back: for
\* every number of engines that serve the same queues, every number of workers
\* and however slow they are, as long as no call fails and nobody stops.
THEOREM CrashesLoseOnlyUnleased ==
  ASSUME Recovering
  PROVE  Spec => CrashLosesOnlyUnleased
<1>. DEFINE Kept1 == \A e \in Engines, jid \in JIDs :
              /\ disturbed'["crash"] # disturbed["crash"]
              /\ status[e] # "down" /\ status'[e] = "down"
              /\ Settled(jid) \/ Reclaimable(jid)
              /\ ~RetrierHas(e, jid) /\ ~\E job \in reaper[e].batch : job.jid = jid
              => (Settled(jid) \/ Reclaimable(jid))'
<1>1. Init => RecoveryInv
  <2>. SUFFICES ASSUME Init PROVE RecoveryInv
    OBVIOUS
  <2>1. /\ \A e \in Engines : /\ fetcher[e].pc = "exited" /\ fetcher[e].job = NoJob
                              /\ retrier[e].pc = "exited" /\ retrier[e].batch = {}
                              /\ reaper[e].pc = "exited" /\ reaper[e].batch = {}
                              /\ status[e] = "down"
        /\ \A s \in Slots : worker[s].pc = "exited" /\ worker[s].job = NoJob
    BY DEF Init, NoFetcher, NoWorker, NoRetrier, NoReaper
  <2>2. NoHandBack /\ RawKept /\ RawCounts /\ AckBacked
    BY <2>1 DEF NoHandBack, RawKept, RawCounts, AckBacked
  <2>3. HandBacked
    BY <2>1 DEF HandBacked, FetcherHolds, FetcherHas, WorkerHolds, WorkerHas
  <2>4. DownIsIdle /\ LoopsEmpty /\ NeverStopping
    BY <2>1 DEF DownIsIdle, LoopsEmpty, NeverStopping
  <2>. QED  BY <2>2, <2>3, <2>4 DEF RecoveryInv, CrashInv
<1>2. TypeOK /\ Budget /\ RecoveryInv /\ [Next]_vars => RecoveryInv'
  <2>. SUFFICES ASSUME TypeOK, Budget, RecoveryInv, [Next]_vars PROVE RecoveryInv'
    OBVIOUS
  <2>1. DownIsIdle' /\ LoopsEmpty' /\ NeverStopping'
    BY StepDownIsIdle, StepLoopsEmpty, StepNeverStopping DEF RecoveryInv, Recovering
  <2>2. ASSUME disturbed'["crash"] = 0
        PROVE  CrashInv'
    <3>1. disturbed["crash"] \in Nat
      BY DEF TypeOK, HistoryTypeOK, AllDisturbances
    <3>2. disturbed["crash"] = 0
      BY <2>2, <3>1, CrashesCounted
    <3>3. ASSUME NEW e \in Engines, Crash(e)
          PROVE  FALSE
      BY <2>2, <3>2, <3>3 DEF Crash, Disturb, TypeOK, HistoryTypeOK, AllDisturbances
    <3>. QED  BY <3>2, <3>3, StepCrashInv DEF RecoveryInv
  <2>. QED  BY <2>1, <2>2 DEF RecoveryInv
<1>3. TypeOK /\ RecoveryInv /\ [Next]_vars => [Kept1]_vars
  <2>. SUFFICES ASSUME TypeOK, RecoveryInv, [Next]_vars,
                       NEW e \in Engines, NEW jid \in JIDs,
                       disturbed'["crash"] # disturbed["crash"],
                       status[e] # "down", status'[e] = "down",
                       Settled(jid) \/ Reclaimable(jid),
                       ~RetrierHas(e, jid), ~\E job \in reaper[e].batch : job.jid = jid
                PROVE  (Settled(jid) \/ Reclaimable(jid))'
    OBVIOUS
  <2>1. PICK f \in Engines : Crash(f)
    BY CrashesCounted
  <2>2. f = e
    BY <2>1 DEF Crash, TypeOK
  <2>3. disturbed["crash"] = 0
    <3>1. /\ "crash" \in AllDisturbances /\ disturbed \in [AllDisturbances -> Nat]
          /\ Scenarios \subseteq [AllDisturbances -> Nat]
      BY ProcessorAssumption DEF TypeOK, HistoryTypeOK, AllDisturbances
    <3>2. disturbed'["crash"] = disturbed["crash"] + 1
      BY <2>1, <3>1 DEF Crash, Disturb
    <3>3. PICK most \in Scenarios : disturbed'["crash"] <= most["crash"]
      BY <2>1, <3>1 DEF Crash, Disturb
    <3>4. most["crash"] <= 1 /\ most["crash"] \in Nat /\ disturbed["crash"] \in Nat
      BY <3>1, <3>3 DEF Recovering, AtMostOneCrash
    <3>. QED  BY <3>2, <3>3, <3>4
  <2>. QED  BY <2>1, <2>2, <2>3, CrashKeepsBacked DEF RecoveryInv
<1>4. TypeOK /\ Budget /\ [Next]_vars => Budget'
  BY StepBudget
<1>. QED  BY <1>1, <1>2, <1>3, <1>4, InitBudget, TypeCorrect, PTL DEF Spec, CrashLosesOnlyUnleased
=============================================================================
