------------------------------ MODULE Payload ------------------------------
(***************************************************************************)
(* The job value of internal/payload/job.go.                               *)
(*                                                                         *)
(* A job exists in two forms: the Go struct a goroutine works on, and the  *)
(* JSON bytes stored in the broker.  The bytes carry every field but       *)
(* RawPayload; the struct carries, in RawPayload, the bytes it was         *)
(* dequeued as.  Class, arguments, timestamps and the backtrace flag never *)
(* change after a job is made and no decision of this project's modules    *)
(* reads them, so a job is told apart by its JID.                          *)
(***************************************************************************)
EXTENDS Integers

CONSTANTS
  JIDs,           \* job identifiers: uuid.New() never returns one twice
  Queues,         \* valid queue names
  MaxRetryCount,  \* payload.MaxRetryCount, 25 in the code
  DefaultRetry,   \* the Retry of NewJob, 5 in the code
  NoRaw           \* an empty RawPayload

ASSUME RetryAssumption ==
  /\ MaxRetryCount \in Nat
  /\ DefaultRetry \in 0..MaxRetryCount

JobState == {"pending", "active", "success", "failed", "dead"}

\* The JSON form.
Bytes == [jid : JIDs, queue : Queues, retry : 0..MaxRetryCount,
          retryCount : Nat, state : JobState]

\* The struct.
Job == [jid : JIDs, queue : Queues, retry : 0..MaxRetryCount,
        retryCount : Nat, state : JobState, rawPayload : Bytes \cup {NoRaw}]

ASSUME RawAssumption == NoRaw \notin Bytes

\* Faulty variant: no lower bound.
ClampAbove(n) == IF n > MaxRetryCount THEN MaxRetryCount ELSE n

\* The clamp that SetRetry applies to Retry, and FromJSON to Retry and RetryCount.
Clamp(n) == IF n > MaxRetryCount THEN MaxRetryCount ELSE IF n < 0 THEN 0 ELSE n

NewJob(jid, queue) ==
  [jid |-> jid, queue |-> queue, retry |-> DefaultRetry, retryCount |-> 0,
   state |-> "pending", rawPayload |-> NoRaw]

SetRetry(job, count) == [job EXCEPT !.retry = Clamp(count)]

ToJSON(job) ==
  [jid |-> job.jid, queue |-> job.queue, retry |-> job.retry,
   retryCount |-> job.retryCount, state |-> job.state]

\* Faulty variant: every parsed job is pending.
FromJSONPending(data) ==
  [jid |-> data.jid, queue |-> data.queue, retry |-> Clamp(data.retry),
   retryCount |-> Clamp(data.retryCount), state |-> "pending", rawPayload |-> NoRaw]

FromJSON(data) ==
  [jid |-> data.jid, queue |-> data.queue, retry |-> Clamp(data.retry),
   retryCount |-> Clamp(data.retryCount),
   state |-> IF data.state = "" THEN "pending" ELSE data.state,
   rawPayload |-> NoRaw]

\* Faulty variant: Ack looks for the job as it is now.
SerializeNow(job) == ToJSON(job)

\* rawOrSerialize of redis_broker.go: the exact bytes of the dequeue, if any.
RawOrSerialize(job) ==
  IF job.rawPayload # NoRaw THEN job.rawPayload ELSE ToJSON(job)
=============================================================================
