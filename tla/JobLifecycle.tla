---------------------------- MODULE JobLifecycle ----------------------------
(***************************************************************************)
(* The life of a job in one healthy engine: it waits, runs, waits again    *)
(* after a failure, and ends as done or dead, once and for all.            *)
(***************************************************************************)
EXTENDS Integers

CONSTANTS
  JIDs,
  MaxRetryCount  \* payload.MaxRetryCount

VARIABLES
  phase,    \* of each job
  attempts  \* failed attempts of each job

vars == <<phase, attempts>>

Init ==
  /\ phase = [jid \in JIDs |-> "new"]
  /\ attempts = [jid \in JIDs |-> 0]

Moves(jid, from, to) == phase[jid] = from /\ phase' = [phase EXCEPT ![jid] = to]

Submit(jid) == Moves(jid, "new", "waiting") /\ UNCHANGED attempts

Run(jid) == Moves(jid, "waiting", "running") /\ UNCHANGED attempts

Succeed(jid) == Moves(jid, "running", "done") /\ UNCHANGED attempts

\* No job may be retried more often than MaxRetryCount; its own Retry, which may be
\* less, is not known here.
Fail(jid) ==
  /\ attempts[jid] <= MaxRetryCount
  /\ Moves(jid, "running", "waiting") \/ Moves(jid, "running", "dead")
  /\ attempts' = [attempts EXCEPT ![jid] = @ + 1]

\* The circuit of its class is open: the job has not run.
Postpone(jid) == Moves(jid, "running", "waiting") /\ UNCHANGED attempts

\* A job that cannot be brought back to its queue may use up its retries.
GiveUp(jid) == Moves(jid, "waiting", "dead") /\ UNCHANGED attempts

Next == \E jid \in JIDs : \/ Submit(jid) \/ Run(jid) \/ Succeed(jid)
                          \/ Fail(jid) \/ Postpone(jid) \/ GiveUp(jid)

Spec == Init /\ [][Next]_vars
=============================================================================
