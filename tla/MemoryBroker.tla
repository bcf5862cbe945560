---------------------------- MODULE MemoryBroker ----------------------------
(***************************************************************************)
(* internal/broker/memory.go: the in-memory broker of the test harness.    *)
(*                                                                         *)
(* Unlike Redis it stores pointers: every list that has a job has the one  *)
(* struct that the client made, and searches for it by JID.  A pointer is  *)
(* therefore a JID here, and the fields that change are in the module that *)
(* uses the broker.  Each call holds the broker's lock and is one step.    *)
(* Queues do not interact, so that one queue stands for all.               *)
(***************************************************************************)
EXTENDS Integers, Sequences, SequencesExt

VARIABLES
  queue,       \* m.queues[q]
  processing,  \* m.processing: pointers, and whether LeaseExp has passed
  retry,       \* m.retry: pointers, and whether RetryAt has passed
  dead,        \* m.dead
  processed, failed,
  closed       \* m.done is closed

brokerVars == <<queue, processing, retry, dead, processed, failed, closed>>

BrokerInit ==
  /\ queue = <<>> /\ processing = <<>> /\ retry = <<>> /\ dead = <<>>
  /\ processed = 0 /\ failed = 0
  /\ closed = FALSE

-----------------------------------------------------------------------------
\* The entries of a list at the positions in I, in their order.
Sublist(list, I) ==
  LET upTo[n \in 0..Len(list)] ==
        IF n = 0 THEN <<>>
        ELSE IF n \in I THEN Append(upTo[n - 1], list[n]) ELSE upTo[n - 1]
  IN  upTo[Len(list)]

\* A list of entries without the first one on a JID.
Without(list, jid) == RemoveFirstMatch(list, LAMBDA entry : entry.jid = jid)

Enqueue(jid) ==
  /\ ~closed
  /\ queue' = Append(queue, jid)
  /\ UNCHANGED <<processing, retry, dead, processed, failed, closed>>

\* Faulty variant: pop without leasing.
DequeueUnleased ==
  /\ queue # <<>>
  /\ queue' = Tail(queue)
  /\ UNCHANGED <<processing, retry, dead, processed, failed, closed>>

\* Pop and lease under one lock.
Dequeue ==
  /\ queue # <<>>
  /\ queue' = Tail(queue)
  /\ processing' = Append(processing, [jid |-> Head(queue), expired |-> FALSE])
  /\ UNCHANGED <<retry, dead, processed, failed, closed>>

\* Faulty variant: the oldest lease goes, whoever has it.
AckOldest(jid) ==
  /\ processing' = IF processing = <<>> THEN <<>> ELSE Tail(processing)
  /\ UNCHANGED <<queue, retry, dead, processed, failed, closed>>

\* The first lease on the JID goes, whoever has it.
Ack(jid) ==
  /\ processing' = Without(processing, jid)
  /\ UNCHANGED <<queue, retry, dead, processed, failed, closed>>

Expired == {i \in DOMAIN processing : processing[i].expired}

\* The pointers that ReapOrphanedJobs returns.
Orphans ==
  LET entries == Sublist(processing, Expired)
  IN  [i \in DOMAIN entries |-> entries[i].jid]

ReapOrphanedJobs ==
  /\ processing' = Sublist(processing, DOMAIN processing \ Expired)
  /\ UNCHANGED <<queue, retry, dead, processed, failed, closed>>

AddToRetry(jid) ==
  /\ retry' = Append(retry, [jid |-> jid, due |-> FALSE])
  /\ UNCHANGED <<queue, processing, dead, processed, failed, closed>>

Due == Sublist(retry, {i \in DOMAIN retry : retry[i].due})

\* The pointers that GetRetryJobs(limit) returns.
RetryJobs(limit) ==
  [i \in 1..(IF Len(Due) < limit THEN Len(Due) ELSE limit) |-> Due[i].jid]

\* Faulty variant: every due entry goes.
RemoveDue(jid) ==
  /\ retry' = Sublist(retry, {i \in DOMAIN retry : ~retry[i].due})
  /\ UNCHANGED <<queue, processing, dead, processed, failed, closed>>

\* The first entry of the JID goes.
RemoveFromRetry(jid) ==
  /\ retry' = Without(retry, jid)
  /\ UNCHANGED <<queue, processing, dead, processed, failed, closed>>

AddToDead(jid) ==
  /\ dead' = Append(dead, jid)
  /\ UNCHANGED <<queue, processing, retry, processed, failed, closed>>

RecordSuccess ==
  /\ processed' = processed + 1
  /\ UNCHANGED <<queue, processing, retry, dead, failed, closed>>

RecordFailure ==
  /\ failed' = failed + 1
  /\ UNCHANGED <<queue, processing, retry, dead, processed, closed>>

DeleteKey ==
  /\ queue' = <<>>
  /\ UNCHANGED <<processing, retry, dead, processed, failed, closed>>

GetStats ==
  [processed |-> processed, failed |-> failed, processing |-> Len(processing),
   retry |-> Len(retry), dead |-> Len(dead), queues |-> Len(queue)]

Close ==
  /\ closed' = TRUE
  /\ UNCHANGED <<queue, processing, retry, dead, processed, failed>>

-----------------------------------------------------------------------------
(* Time. *)

\* Leases are equally long, so that they run out in the order of processing.
LeaseExpires ==
  /\ \E i \in DOMAIN processing :
       /\ ~processing[i].expired
       /\ \A k \in 1..(i - 1) : processing[k].expired
       /\ processing' = [processing EXCEPT ![i].expired = TRUE]
  /\ UNCHANGED <<queue, retry, dead, processed, failed, closed>>

\* Backoffs are not, so that retries fall due in any order.
RetryFallsDue ==
  /\ \E i \in DOMAIN retry : ~retry[i].due /\ retry' = [retry EXCEPT ![i].due = TRUE]
  /\ UNCHANGED <<queue, processing, dead, processed, failed, closed>>
=============================================================================
