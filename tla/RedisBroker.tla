---------------------------- MODULE RedisBroker ----------------------------
(***************************************************************************)
(* internal/broker/redis_broker.go: the Redis keys the broker uses and     *)
(* what each call does to them.  A call is one Redis command or one Lua    *)
(* script, hence one atomic step.  (A statistics entry is two, ZADD and    *)
(* the trim; nothing reads the set in between, and they are one step       *)
(* here.)  Bytes that do not parse, which no call of crank stores, are     *)
(* left out.                                                               *)
(*                                                                         *)
(* The sorted sets "processing" and "retry" are keyed by the job's bytes,  *)
(* so adding bytes that are already there only renews their score.  Scores *)
(* are times; the model keeps what the code asks of them: whether a lease  *)
(* has run out (expired) and whether a retry has fallen due (due).         *)
(***************************************************************************)
EXTENDS Payload, Sequences, FiniteSets

CONSTANT StatLimit  \* entries kept in a statistics set, 100,000 in the code

VARIABLES
  queues,      \* "queue:<name>" lists: LPUSH appends, RPOP takes the head
  processing,  \* members of the "processing" sorted set
  expired,     \* those whose score, the end of the lease, is in the past
  retry,       \* members of the "retry" sorted set
  due,         \* those whose score, the retry time, is in the past
  dead,        \* members of the "dead" sorted set
  processed,   \* JIDs in the "stat:processed" sorted set
  failed       \* JIDs in the "stat:failed" sorted set

brokerVars == <<queues, processing, expired, retry, due, dead, processed, failed>>

\* Type correctness.  Bytes in the list of queue q say that they belong to q.
BrokerTypeOK ==
  /\ queues \in [Queues -> Seq(Bytes)]
  /\ \A q \in Queues : \A i \in DOMAIN queues[q] : queues[q][i].queue = q
  /\ processing \in SUBSET Bytes
  /\ expired \in SUBSET processing
  /\ retry \in SUBSET Bytes
  /\ due \in SUBSET retry
  /\ dead \in SUBSET Bytes
  /\ processed \in SUBSET JIDs
  /\ failed \in SUBSET JIDs

BrokerInit ==
  /\ queues = [q \in Queues |-> <<>>]
  /\ processing = {} /\ expired = {}
  /\ retry = {} /\ due = {}
  /\ dead = {}
  /\ processed = {} /\ failed = {}

-----------------------------------------------------------------------------
Enqueue(queue, job) ==
  /\ queues' = [queues EXCEPT ![queue] = Append(@, ToJSON(job))]
  /\ UNCHANGED <<processing, expired, retry, due, dead, processed, failed>>

\* Faulty variant: pop without leasing.
DequeueUnleased(queue) ==
  /\ queues[queue] # <<>>
  /\ queues' = [queues EXCEPT ![queue] = Tail(@)]
  /\ UNCHANGED <<processing, expired, retry, due, dead, processed, failed>>

\* dequeueAndLeaseScript: pop and lease in one step.
Dequeue(queue) ==
  /\ queues[queue] # <<>>
  /\ queues' = [queues EXCEPT ![queue] = Tail(@)]
  /\ processing' = processing \cup {Head(queues[queue])}
  /\ expired' = expired \ {Head(queues[queue])}
  /\ UNCHANGED <<retry, due, dead, processed, failed>>

\* The job that Dequeue(queue) returns.
DequeuedJob(queue) ==
  [FromJSON(Head(queues[queue])) EXCEPT !.rawPayload = Head(queues[queue])]

Ack(job) ==
  /\ processing' = processing \ {RawOrSerialize(job)}
  /\ expired' = expired \ {RawOrSerialize(job)}
  /\ UNCHANGED <<queues, retry, due, dead, processed, failed>>

\* Faulty variant: the limit itself is excluded.
BatchesBelow(S, limit) ==
  {B \in SUBSET S : Cardinality(B) < limit}

\* What a cut to `limit' entries by score may leave of the members S: all of
\* them when they fit; otherwise limit of them, which ones depends on the scores.
Batches(S, limit) ==
  {B \in SUBSET S : \/ B = S /\ Cardinality(B) <= limit
                    \/ Cardinality(B) = limit}

\* reapScript, for the batch it picked.
ReapOrphanedJobs(batch) ==
  /\ processing' = processing \ batch
  /\ expired' = expired \ batch
  /\ UNCHANGED <<queues, retry, due, dead, processed, failed>>

\* Faulty variant: orphans are removed and not returned.
OrphansForgotten(batch) == {}

\* The jobs that ReapOrphanedJobs(batch) returns.
OrphanedJobs(batch) ==
  {[FromJSON(data) EXCEPT !.state = "pending", !.rawPayload = NoRaw] : data \in batch}

AddToRetry(job) ==
  /\ retry' = retry \cup {ToJSON(job)}
  /\ due' = due \ {ToJSON(job)}
  /\ UNCHANGED <<queues, processing, expired, dead, processed, failed>>

\* The jobs that GetRetryJobs returns for the batch that ZRANGEBYSCORE picked.
RetryJobs(batch) == {FromJSON(data) : data \in batch}

\* Faulty variant: the state is reset before the removal by value.
RemoveAsPending(job) ==
  /\ retry' = retry \ {[ToJSON(job) EXCEPT !.state = "pending"]}
  /\ due' = due \ {[ToJSON(job) EXCEPT !.state = "pending"]}
  /\ UNCHANGED <<queues, processing, expired, dead, processed, failed>>

RemoveFromRetry(job) ==
  /\ retry' = retry \ {ToJSON(job)}
  /\ due' = due \ {ToJSON(job)}
  /\ UNCHANGED <<queues, processing, expired, dead, processed, failed>>

AddToDead(job) ==
  /\ dead' = dead \cup {ToJSON(job)}
  /\ UNCHANGED <<queues, processing, expired, retry, due, processed, failed>>

\* recordStatEntry: ZADD by JID, then trim to the last StatLimit entries.
RecordSuccess(job) ==
  /\ processed' \in Batches(processed \cup {job.jid}, StatLimit)
  /\ UNCHANGED <<queues, processing, expired, retry, due, dead, failed>>

RecordFailure(job) ==
  /\ failed' \in Batches(failed \cup {job.jid}, StatLimit)
  /\ UNCHANGED <<queues, processing, expired, retry, due, dead, processed>>

DeleteKey(queue) ==
  /\ queues' = [queues EXCEPT ![queue] = <<>>]
  /\ UNCHANGED <<processing, expired, retry, due, dead, processed, failed>>

-----------------------------------------------------------------------------
(* Time passing a score. *)

LeaseExpires(data) ==
  /\ data \in processing \ expired
  /\ expired' = expired \cup {data}
  /\ UNCHANGED <<queues, processing, retry, due, dead, processed, failed>>

RetryFallsDue(data) ==
  /\ data \in retry \ due
  /\ due' = due \cup {data}
  /\ UNCHANGED <<queues, processing, expired, retry, dead, processed, failed>>
=============================================================================
