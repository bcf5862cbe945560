----------------------------- MODULE MCRetrySet -----------------------------
EXTENDS RetrySet

CONSTANTS a1, a1x, b1, b2, e1, e2, qa, qb

MCCopies == {a1, a1x, b1, b2}
MCJobOf == [c \in Copies |-> IF c = a1x THEN a1 ELSE c]
MCQueueOf == (a1 :> qa) @@ (b1 :> qb) @@ (b2 :> qb)
MCServes == (e1 :> {qa, qb}) @@ (e2 :> {qa})
MCBackoff == [n \in 1..Retry |-> 1]

Scenario(jobs, errors, opens, reads) ==
  [jobs |-> jobs, errors |-> errors, opens |-> opens, reads |-> reads]

\* A failing call, with jobs of two queues or of one; open circuits; jobs of queue qb
\* in the way of those of qa; GetStats.
MCScenarios == {Scenario({a1, b1}, 1, 0, 0), Scenario({b1, b2}, 1, 0, 0), Scenario({a1}, 0, 2, 0),
                Scenario({a1, b1, b2}, 0, 0, 0), Scenario({a1}, 0, 0, 1)}
=============================================================================
