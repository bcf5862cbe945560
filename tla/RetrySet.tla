------------------------------ MODULE RetrySet ------------------------------
(***************************************************************************)
(* The Redis retry set with its scores: handleFailure gives a failed job   *)
(* the time of its next attempt, every engine's retryLoop asks for the     *)
(* due jobs with the lowest scores, at most RetryLimit of them, and moves  *)
(* those of its own queues back to their lists (processor.go,              *)
(* redis_broker.go). One set serves all engines of a Redis server.         *)
(* Meanwhile GetStats counts the jobs with one command after the other.    *)
(*                                                                         *)
(* Engines may serve the same queue.  Removing a member that another       *)
(* engine has removed already is no error, so that a job may come to exist *)
(* in several copies; copies with the same bytes are one member of a set.  *)
(* Time is in half seconds, scores are in Unix seconds, as in the code.    *)
(***************************************************************************)
EXTENDS Integers, Sequences, SequencesExt, FiniteSets

CONSTANTS
  JIDs, Queues, Engines,
  Copies,      \* bound on the copies of the jobs
  JobOf,       \* the job each of them is a copy of
  NoCopy,      \* in the hands of a retryLoop that holds none
  QueueOf,     \* Job.Queue of each job
  Serves,      \* Processor.queueSet of each engine
  Retry,       \* Job.Retry
  RetryLimit,  \* 100 in the code
  Backoff,     \* of each attempt, its delay in seconds: 2^attempt in the code
  OpenPause,   \* the delay after ErrCircuitOpen, 5 s in the code
  Pause,       \* the delay after a failed Enqueue, a minute in the code
  MaxTime,     \* bound on the clock, and on the times that handleFailure chooses
  Scenarios    \* the copies a behaviour starts with, and bounds on its failed calls of
               \* retryLoop, its answers ErrCircuitOpen and its calls of GetStats

ASSUME RetrySetAssumption ==
  /\ IsFiniteSet(Copies) /\ IsFiniteSet(Queues) /\ NoCopy \notin Copies
  /\ JobOf \in [Copies -> JIDs] /\ QueueOf \in [JIDs -> Queues]
  /\ Serves \in [Engines -> SUBSET Queues]
  /\ Retry \in Nat /\ RetryLimit \in Nat \ {0} /\ OpenPause \in Nat /\ Pause \in Nat
  /\ Backoff \in [1..Retry -> Nat]
  /\ MaxTime \in Nat
  /\ Scenarios \subseteq [jobs : SUBSET Copies, errors : Nat, opens : Nat, reads : Nat]
  /\ \A s \in Scenarios : \A c, d \in s.jobs : JobOf[c] = JobOf[d] => c = d

VARIABLES
  now,         \* the clock
  up,          \* the engines that run
  place,       \* where each copy is; "unsent" is one that Enqueue has failed for
  score,       \* of the copies in the retry set
  retryCount,  \* Job.RetryCount
  state,       \* Job.State of the copies in the retry set
  batch,       \* of each retryLoop: the members it has read and not yet handled
  hand,        \* the copy it has removed and not yet put anywhere
  left,        \* failed calls, open circuits and calls of GetStats that may still come
  retryAt,     \* history: the time given to AddToRetry
  last,        \* history: the score of the job each engine moved last, those apart
               \* that it had failed to remove before
  failed,      \* history: the bytes that each engine has failed to remove
  doubled,     \* history: the jobs that were enqueued twice, or stored again under
               \* the bytes that some retryLoop had still to handle
  stats        \* a call of GetStats: what it has counted, and the copies that moved meanwhile

jobVars == <<place, score, retryCount, state, retryAt>>
history == <<last, failed, doubled>>
vars == <<now, up, jobVars, batch, hand, left, history, stats>>

Unix(t) == t \div 2

NoStats == [pc |-> "none", counts |-> <<>>, todo |-> {}, moved |-> {}]

Init ==
  /\ now = 0
  /\ up = Engines
  /\ \E s \in Scenarios :
       /\ place = [c \in Copies |-> IF c \in s.jobs THEN "queue" ELSE "gone"]
       /\ left = [errors |-> s.errors, opens |-> s.opens, reads |-> s.reads]
  /\ score = [c \in Copies |-> 0] /\ retryAt = score /\ retryCount = score
  /\ state = [c \in Copies |-> "pending"]
  /\ batch = [e \in Engines |-> <<>>] /\ hand = [e \in Engines |-> NoCopy]
  /\ last = [e \in Engines |-> 0] /\ failed = [e \in Engines |-> {}] /\ doubled = {}
  /\ stats = NoStats

-----------------------------------------------------------------------------
(* The sets. *)

\* The JSON form of copy c, and of a job with these values.
BytesOf(jid, count, st) == [jid |-> jid, retryCount |-> count, state |-> st]
Bytes(c) == BytesOf(JobOf[c], retryCount[c], state[c])

\* The member b of the retry set: one copy, or none.
Member(b) == {c \in Copies : place[c] = "retry" /\ Bytes(c) = b}

\* Copies go to other places, under the eyes of a running GetStats.
Move(new) ==
  /\ place' = new
  /\ stats' = IF stats.pc \in {"count", "done"}
              THEN [stats EXCEPT !.moved = @ \cup {c \in Copies : new[c] # place[c]}] ELSE stats

MoveTo(c, to) == Move([place EXCEPT ![c] = to])

\* AddToRetry(job, time): the score is cut to seconds; of a member that is there
\* already it is renewed.
AddToRetry(c, count, st, time) ==
  /\ retryCount' = [retryCount EXCEPT ![c] = count]
  /\ state' = [state EXCEPT ![c] = st]
  /\ score' = [score EXCEPT ![c] = Unix(time)]
  /\ retryAt' = [retryAt EXCEPT ![c] = time]
  /\ Move([d \in Copies |-> IF d = c THEN "retry"
                            ELSE IF d \in Member(BytesOf(JobOf[c], count, st)) THEN "gone"
                            ELSE place[d]])

\* AddToDead(job): the dead copies of a job have the same bytes.
AddToDead(c, count) ==
  /\ retryCount' = [retryCount EXCEPT ![c] = count]
  /\ Move([d \in Copies |-> IF d = c THEN "dead"
                            ELSE IF place[d] = "dead" /\ JobOf[d] = JobOf[c] THEN "gone"
                            ELSE place[d]])
  /\ UNCHANGED <<state, score, retryAt>>

-----------------------------------------------------------------------------
(* The way of a job. *)

Begins(c) ==
  /\ place[c] = "queue"
  /\ \E e \in up : QueueOf[JobOf[c]] \in Serves[e]
  /\ MoveTo(c, "active")
  /\ UNCHANGED <<now, up, score, retryCount, state, retryAt, batch, hand, left, history>>

\* The job succeeds, or handleFailure fails to store it: it is acked in both cases.
Ends(c) ==
  /\ place[c] = "active"
  /\ MoveTo(c, "gone")
  /\ retryCount' = [retryCount EXCEPT ![c] = 0]
  /\ UNCHANGED <<now, up, score, state, retryAt, batch, hand, left, history>>

\* handleFailure: the attempt is counted, and the job waits or dies.
Fails(c) ==
  LET count == retryCount[c] + 1 IN
  /\ place[c] = "active"
  /\ IF count <= Retry
     THEN /\ now + 2 * Backoff[count] <= MaxTime
          /\ AddToRetry(c, count, "failed", now + 2 * Backoff[count])
     ELSE AddToDead(c, count)
  /\ UNCHANGED <<now, up, batch, hand, left, history>>

\* Some retryLoop has still to handle these bytes.
Listed(b) == \E e \in Engines : \E i \in DOMAIN batch[e] : batch[e][i].bytes = b

\* handleFailure after ErrCircuitOpen: no attempt is used up.
MeetsOpenCircuit(c) ==
  /\ place[c] = "active" /\ left.opens > 0
  /\ left' = [left EXCEPT !.opens = @ - 1]
  /\ now + 2 * OpenPause <= MaxTime
  /\ AddToRetry(c, retryCount[c], "pending", now + 2 * OpenPause)
  /\ doubled' = IF Listed(BytesOf(JobOf[c], retryCount[c], "pending"))
                THEN doubled \cup {JobOf[c]} ELSE doubled
  /\ UNCHANGED <<now, up, batch, hand, last, failed>>

-----------------------------------------------------------------------------
(* retryLoop(). *)

Due == {c \in Copies : place[c] = "retry" /\ score[c] <= Unix(now)}

\* Faulty variant: all of the set, due or not.
PicksAll ==
  {s \in SetToSeqs({c \in Copies : place[c] = "retry"}) :
     IsSorted(s, LAMBDA i, j : score[i] <= score[j])}

\* Faulty variant: any due jobs, the highest scores first.
PicksLatest ==
  {s \in UNION {SetToSeqs(S) : S \in SUBSET Due} :
     /\ Len(s) = IF Cardinality(Due) < RetryLimit THEN Cardinality(Due) ELSE RetryLimit
     /\ IsSorted(s, LAMBDA i, j : score[i] >= score[j])
     /\ \A i \in ToSet(s), j \in Due \ ToSet(s) : score[i] >= score[j]}

\* What ZRANGEBYSCORE may return; the bytes decide between equal scores.
Picks ==
  LET due == Due IN
  {s \in UNION {SetToSeqs(S) : S \in SUBSET due} :
     /\ Len(s) = IF Cardinality(due) < RetryLimit THEN Cardinality(due) ELSE RetryLimit
     /\ IsSorted(s, LAMBDA i, j : score[i] <= score[j])
     /\ \A i \in ToSet(s), j \in due \ ToSet(s) : score[i] <= score[j]}

\* The jobs of the members that ZRANGEBYSCORE returned.  (The score is not part of
\* what the call returns; no action but the history reads it.)
Read(s) == [i \in DOMAIN s |-> [bytes |-> Bytes(s[i]), score |-> score[s[i]]]]

GetRetryJobs(e) ==
  /\ e \in up /\ batch[e] = <<>> /\ hand[e] = NoCopy
  /\ \E s \in Picks : batch' = [batch EXCEPT ![e] = Read(s)]
  /\ UNCHANGED <<now, up, jobVars, hand, left, history, stats>>

\* The loop comes to the next job of its batch: one of its own queues, or not.
AtJob(e, own) ==
  /\ batch[e] # <<>> /\ hand[e] = NoCopy
  /\ (QueueOf[Head(batch[e]).bytes.jid] \in Serves[e]) = own

\* Faulty variant: a job of another queue ends the round.
RetryBreaks(e) ==
  /\ AtJob(e, FALSE)
  /\ batch' = [batch EXCEPT ![e] = <<>>]
  /\ UNCHANGED <<now, up, jobVars, hand, left, history, stats>>

RetrySkips(e) ==
  /\ AtJob(e, FALSE)
  /\ batch' = [batch EXCEPT ![e] = Tail(@)]
  /\ UNCHANGED <<now, up, jobVars, hand, left, history, stats>>

\* RemoveFromRetry; the job is now in the loop's hands.  If the member was gone,
\* somebody else has it too: this is one more copy.  (When all Copies are in use, it
\* is taken to run and end at once.)
RetryRemoves(e) ==
  LET b == Head(batch[e]).bytes
      spare == {c \in Copies : place[c] = "gone" /\ JobOf[c] = b.jid} IN
  /\ AtJob(e, TRUE)
  /\ \/ \E c \in IF Member(b) # {} THEN Member(b) ELSE spare :
          /\ MoveTo(c, "moving")
          /\ hand' = [hand EXCEPT ![e] = c]
          /\ retryCount' = [retryCount EXCEPT ![c] = b.retryCount]
          /\ state' = [state EXCEPT ![c] = "pending"]
          /\ score' = [score EXCEPT ![c] = 0]
          /\ retryAt' = [retryAt EXCEPT ![c] = 0]
     \/ Member(b) = {} /\ spare = {} /\ UNCHANGED <<jobVars, hand, stats>>
  /\ batch' = [batch EXCEPT ![e] = Tail(@)]
  /\ last' = IF b \in failed[e] THEN last ELSE [last EXCEPT ![e] = Head(batch[e]).score]
  /\ doubled' = IF Member(b) # {} THEN doubled ELSE doubled \cup {b.jid}
  /\ UNCHANGED <<now, up, left, failed>>

CallFails ==
  /\ left.errors > 0
  /\ left' = [left EXCEPT !.errors = @ - 1]

\* RemoveFromRetry fails, done or not done: the loop goes on to the next job.
RetryRemoveFails(e) ==
  LET b == Head(batch[e]).bytes IN
  /\ AtJob(e, TRUE)
  /\ CallFails
  /\ \/ UNCHANGED <<place, stats>>
     \/ Move([c \in Copies |-> IF c \in Member(b) THEN "gone" ELSE place[c]])
  /\ batch' = [batch EXCEPT ![e] = Tail(@)]
  /\ failed' = [failed EXCEPT ![e] = @ \cup {b}]
  /\ UNCHANGED <<now, up, score, retryCount, state, retryAt, hand, last, doubled>>

RetryEnqueues(e) ==
  /\ hand[e] # NoCopy /\ place[hand[e]] = "moving"
  /\ MoveTo(hand[e], "queue")
  /\ hand' = [hand EXCEPT ![e] = NoCopy]
  /\ UNCHANGED <<now, up, score, retryCount, state, retryAt, batch, left, history>>

\* Enqueue fails, done or not done: an attempt is charged.
RetryEnqueueFails(e) ==
  LET c == hand[e] IN
  /\ c # NoCopy /\ place[c] = "moving"
  /\ CallFails
  /\ retryCount' = [retryCount EXCEPT ![c] = @ + 1]
  /\ \/ MoveTo(c, "unsent") /\ UNCHANGED doubled
     \/ \E d \in Copies :
          /\ place[d] = "gone" /\ JobOf[d] = JobOf[c]
          /\ Move([place EXCEPT ![c] = "unsent", ![d] = "queue"])
          /\ doubled' = doubled \cup {JobOf[c]}
  /\ UNCHANGED <<now, up, score, state, retryAt, batch, hand, last, failed>>

\* ... and the job waits again, dies, or is lost.
RetryFallsBack(e) ==
  LET c == hand[e] IN
  /\ c # NoCopy /\ place[c] = "unsent"
  /\ \/ /\ IF retryCount[c] > Retry THEN AddToDead(c, retryCount[c])
                                     ELSE AddToRetry(c, retryCount[c], "pending", now + 2 * Pause)
        /\ UNCHANGED left
     \/ /\ MoveTo(c, "gone") /\ CallFails
        /\ UNCHANGED <<score, retryCount, state, retryAt>>
  /\ hand' = [hand EXCEPT ![e] = NoCopy]
  /\ UNCHANGED <<now, up, batch, history>>

RetryLoop(e) == \/ GetRetryJobs(e) \/ RetrySkips(e) \/ RetryRemoves(e) \/ RetryRemoveFails(e)
                \/ RetryEnqueues(e) \/ RetryEnqueueFails(e) \/ RetryFallsBack(e)

-----------------------------------------------------------------------------
(* GetStats. *)

At(where) == Cardinality({c \in Copies : place[c] = where})

StatsUnchanged == UNCHANGED <<now, up, jobVars, batch, hand, history>>

\* ZCARD of the sets "retry" and "dead", each a command of its own. The two
\* statistics sets, which are counted before them, hold no jobs.
ZCard == <<At("retry"), At("dead")>>

StatsBegins ==
  /\ stats.pc = "none" /\ left.reads > 0
  /\ left' = [left EXCEPT !.reads = @ - 1]
  /\ stats' = [stats EXCEPT !.pc = "count", !.counts = <<ZCard[1]>>, !.todo = Queues]
  /\ StatsUnchanged

StatsCounts ==
  /\ stats.pc = "count" /\ Len(stats.counts) = 1
  /\ stats' = [stats EXCEPT !.counts = Append(@, ZCard[2])]
  /\ UNCHANGED left /\ StatsUnchanged

LLen(q) == Cardinality({c \in Copies : place[c] = "queue" /\ QueueOf[JobOf[c]] = q})

\* Faulty variant: only the first page of SCAN.
ScanFirstPage ==
  /\ stats.pc = "count" /\ Len(stats.counts) = 2
  /\ \E q \in stats.todo :
       stats' = [stats EXCEPT !.todo = @ \ {q}, !.counts = Append(@, LLen(q)), !.pc = "done"]
  /\ UNCHANGED left /\ StatsUnchanged

\* LLEN of each list that SCAN returns, in any order; the last count is their sum.
StatsScans ==
  /\ stats.pc = "count" /\ Len(stats.counts) \in {2, 3}
  /\ \E q \in stats.todo :
       LET sum == LLen(q) + IF Len(stats.counts) = 3 THEN stats.counts[3] ELSE 0 IN
       stats' = [stats EXCEPT !.todo = @ \ {q}, !.counts = Append(SubSeq(@, 1, 2), sum),
                              !.pc = IF stats.todo = {q} THEN "done" ELSE "count"]
  /\ UNCHANGED left /\ StatsUnchanged

StatsReturns ==
  /\ stats.pc = "done"
  /\ stats' = NoStats
  /\ UNCHANGED left /\ StatsUnchanged

-----------------------------------------------------------------------------
Clock ==
  /\ now < MaxTime
  /\ now' = now + 1
  /\ UNCHANGED <<up, jobVars, batch, hand, left, history, stats>>

\* Engine.Stop, and the loop was between two rounds.
Stops(e) ==
  /\ e \in up /\ batch[e] = <<>> /\ hand[e] = NoCopy
  /\ up' = up \ {e}
  /\ UNCHANGED <<now, jobVars, batch, hand, left, history, stats>>

Next ==
  \/ Clock
  \/ \E c \in Copies : Begins(c) \/ Ends(c) \/ Fails(c) \/ MeetsOpenCircuit(c)
  \/ \E e \in Engines : RetryLoop(e) \/ Stops(e)
  \/ StatsBegins \/ StatsCounts \/ StatsScans \/ StatsReturns

Spec == Init /\ [][Next]_vars

\* The clock goes on and the loop of a running engine ticks; nothing is said of
\* jobs, which may run for ever or fail, nor of GetStats.
FairSpec == Spec /\ WF_vars(Clock) /\ \A e \in Engines : WF_vars(RetryLoop(e))

-----------------------------------------------------------------------------
(* Properties. *)

\* A job leaves the retry set less than a second before the time that was chosen for
\* it (scores are cut to seconds), although the loop that moves it read the set long
\* before.  Excepted are the jobs that were enqueued twice, or were stored again under
\* bytes that a loop had still to handle: there a stale batch takes the new member.
NotEarly ==
  [][\A c \in Copies :
       JobOf[c] \notin doubled /\ place[c] = "retry" /\ place'[c] = "moving"
         => retryAt[c] < now + 2]_vars

\* An engine moves the jobs of its queues in the order of their scores, over
\* all its rounds, whatever other engines do: a job that failed later does not
\* overtake, unless removing the earlier one failed.
NoOvertaking ==
  [][\A e \in Engines : last'[e] >= last[e]]_vars

\* Due jobs that no round of engine e takes out of the way.
Crowded(e) ==
  Cardinality({c \in Due : QueueOf[JobOf[c]] \notin Serves[e]}) >= RetryLimit

\* A job waits for a time that the clock of the model reaches.
Waits(c) == place[c] = "retry" /\ retryAt[c] <= MaxTime

\* A job waiting for its retry gets it from any engine that serves its queue,
\* unless due jobs of other queues fill the front of the set for good.
RetriedUnlessCrowded ==
  \A e \in Engines, c \in Copies :
    QueueOf[JobOf[c]] \in Serves[e] =>
      (<>[](e \in up /\ ~Crowded(e)) => (Waits(c) ~> ~Waits(c)))

\* The copies at a place that did not move during the call of GetStats.
Steady(where) == Cardinality({c \in Copies \ stats.moved : place[c] = where})

\* GetStats is no snapshot, but each of its counts has every copy of a job that
\* stayed in its place meanwhile, and beyond those at most the copies that moved.
StatsNearlyExact ==
  stats.pc = "done" =>
    /\ stats.counts[1] \in Steady("retry")..Steady("retry") + Cardinality(stats.moved)
    /\ stats.counts[2] \in Steady("dead")..Steady("dead") + Cardinality(stats.moved)
    /\ stats.counts[3] \in Steady("queue")..Steady("queue") + Cardinality(stats.moved)
=============================================================================
