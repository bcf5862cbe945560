---------------------------- MODULE EngineProofs ----------------------------
(***************************************************************************)
(* What Engine promises for every set of jobs, workers and callers, every  *)
(* retry count and every capacity of the metrics channel.                  *)
(***************************************************************************)
EXTENDS Engine, TLAPS, FiniteSetTheorems, SequenceTheorems

-----------------------------------------------------------------------------
(* The invariants. *)

\* Start: one call of it gets as far as launching goroutines, and it launches
\* the ones of LaunchOrder in their order, with the handler wrapped before.
StartOrder ==
  /\ \A s \in Starters :
       /\ starter[s] \in {"processor", "launch", "started"} => engineStarted
       /\ starter[s] \in {"launch", "started"} => processorStarted
       /\ starter[s] = "launch" => launched < Len(LaunchOrder)
  /\ \A s, t \in Starters :
       {starter[s], starter[t]} \subseteq {"launch", "started"} => s = t
  /\ processorStarted => engineStarted /\ handler = chain
  /\ ~processorStarted => launched = 0 /\ \A g \in Goroutines : goroutine[g] = "none"
  /\ \A i \in 1..Len(LaunchOrder) : i > launched => goroutine[LaunchOrder[i]] = "none"
  /\ events = NoChannel => goroutine["metricsLoop"] = "none"

\* Only running goroutines are at work, and they have a job exactly where the
\* code has one in hand.
HandsRunning ==
  /\ fetcher.pc # "top" => goroutine["fetcher"] = "running"
  /\ fetcher.job = NoJob <=> fetcher.pc # "send"
  /\ \A w \in Workers :
       /\ worker[w].pc # "idle" => goroutine[w] = "running"
       /\ worker[w].job = NoJob <=> worker[w].pc = "idle"

\* Nobody has a job or can get one.
Drained ==
  /\ cancelled
  /\ fetcher.pc = "top"
  /\ \A w \in Workers : worker[w].pc = "idle"

\* Stop gets past wg.Wait only when everything has drained, and leaves it so.
StopOrder ==
  /\ \A s \in Stoppers :
       /\ stopper[s] \in {"wait", "woken", "close"} => cancelled
       /\ stopper[s] = "close" => Drained
       /\ stopper[s] = "returned" => once = "done"
  /\ once = "done" => closed /\ Drained

\* A job is in one place, with attempts left.
Places ==
  /\ waiting \cap retrySet = {}
  /\ fetcher.job \notin waiting \cup retrySet
  /\ \A w \in Workers : worker[w].job \notin waiting \cup retrySet
  /\ \A w \in Workers : worker[w].job # NoJob => worker[w].job # fetcher.job
  /\ \A v, w \in Workers : worker[w].job # NoJob /\ worker[v].job = worker[w].job => v = w
  /\ \A jid \in waiting \cup retrySet : retryCount[jid] <= Retry
  /\ fetcher.job # NoJob => retryCount[fetcher.job] <= Retry
  /\ \A w \in Workers : worker[w].job # NoJob => retryCount[worker[w].job] <= Retry

\* What a call of Health has read is still good enough when it answers.
HealthInv ==
  /\ prober \in [pc : {"idle", "ping", "answered"}, started : BOOLEAN,
                 status : {"none", "unreachable", "ok", "not started"},
                 since : {"none", "started", "stopped"}]
  /\ prober.since = "stopped" => closed
  /\ prober.since = "started" => prober.started
  /\ prober.status = "not started" => ~prober.started
  /\ HealthTruthful

\* Without a channel nothing is counted.
ChannelInv ==
  /\ events = NoChannel => handling = NoJob /\ totals = outcomes /\ lost = outcomes
                           /\ outcomes = [t \in Outcome |-> 0]
  /\ EventsAccounted

\* The rank of the next event of a job, of which a worker has reached pc.
Due(count, pc) == 3 * count +
  CASE pc = "begin" -> 0
    [] pc \in {"execute", "perform", "failed"} -> 1
    [] pc = "schedule" -> 2
    [] pc = "store" -> 3

\* The events of job jid are all before rank: the last one handled, the one
\* being handled, and those in the channel.
Before(s, h, c, jid, rank) ==
  /\ s[jid] < rank
  /\ h # NoJob /\ h.jid = jid => Rank(h) < rank
  /\ c # NoChannel => \A i \in 1..Len(c) : c[i].jid = jid => Rank(c[i]) < rank

\* The events of each job are in the order of their ranks, from the last one
\* handled to the end of the channel.
Ordered(s, h, c) ==
  /\ h # NoJob => s[h.jid] < Rank(h)
  /\ c # NoChannel => \A i \in 1..Len(c) :
       /\ s[c[i].jid] < Rank(c[i])
       /\ h # NoJob /\ h.jid = c[i].jid => Rank(h) < Rank(c[i])
       /\ \A j \in 1..Len(c) : i < j /\ c[i].jid = c[j].jid => Rank(c[i]) < Rank(c[j])

\* The events so far are in order, and the next ones of the jobs come later.
OrderInv ==
  /\ Ordered(seen, handling, events)
  /\ \A jid \in waiting \cup retrySet :
       Before(seen, handling, events, jid, 3 * retryCount[jid])
  /\ fetcher.job # NoJob =>
       Before(seen, handling, events, fetcher.job, 3 * retryCount[fetcher.job])
  /\ \A w \in Workers : worker[w].job # NoJob =>
       Before(seen, handling, events, worker[w].job, Due(retryCount[worker[w].job], worker[w].pc))

\* The part that the rest is built on.
CoreInv == TypeOK /\ StartOrder /\ HandsRunning /\ Places

-----------------------------------------------------------------------------
(* The order in which Start launches goroutines. *)

\* A finite set, as a sequence without repetitions.
LEMMA WorkerSequence ==
  /\ SetToSeq(Workers) \in Seq(Workers)
  /\ IsInjective(SetToSeq(Workers))
<1>. DEFINE n == Cardinality(Workers)
<1>1. n \in Nat /\ ExistsBijection(1..n, Workers)
  BY EngineAssumption, FS_CardinalityType
<1>2. \E f \in [1..n -> Workers] : IsInjective(f)
  BY <1>1 DEF ExistsBijection, Bijection, Injection
<1>3. SetToSeq(Workers) \in [1..n -> Workers] /\ IsInjective(SetToSeq(Workers))
  BY <1>2 DEF SetToSeq
<1>. QED  BY <1>1, <1>3

\* Start launches each goroutine once, and metricsLoop only with a channel.
LEMMA LaunchOrderOnce ==
  /\ LaunchOrder \in Seq(Goroutines)
  /\ Len(LaunchOrder) > 0
  /\ \A i, j \in 1..Len(LaunchOrder) : LaunchOrder[i] = LaunchOrder[j] => i = j
  /\ events = NoChannel => \A i \in 1..Len(LaunchOrder) : LaunchOrder[i] # "metricsLoop"
<1>. DEFINE S == SetToSeq(Workers)
            n == Len(S)
            T == IF events = NoChannel THEN <<"retryLoop", "reaperLoop">>
                 ELSE <<"retryLoop", "reaperLoop", "metricsLoop">>
            m == Len(T)
<1>1. S \in Seq(Workers) /\ IsInjective(S) /\ DOMAIN S = 1..n /\ n \in Nat
  BY WorkerSequence
<1>2. T \in Seq(Loops) /\ m \in {2, 3} /\ T[1] = "retryLoop" /\ T[2] = "reaperLoop"
      /\ (m = 3 => T[3] = "metricsLoop" /\ events # NoChannel)
  <2>1. CASE events = NoChannel
    <3>1. T = <<"retryLoop", "reaperLoop">>
      BY <2>1
    <3>. HIDE DEF T
    <3>. QED  BY <3>1 DEF Loops
  <2>2. CASE events # NoChannel
    <3>1. T = <<"retryLoop", "reaperLoop", "metricsLoop">>
      BY <2>2
    <3>. HIDE DEF T
    <3>. QED  BY <2>2, <3>1 DEF Loops
  <2>. QED  BY <2>1, <2>2
<1>. HIDE DEF S, T
<1>3. /\ LaunchOrder = (<<"fetcher">> \o S) \o T
  BY <1>1 DEF LaunchOrder, S, T
<1>4. /\ LaunchOrder \in Seq(Goroutines)
      /\ Len(LaunchOrder) = 1 + n + m
      /\ LaunchOrder[1] = "fetcher"
      /\ \A i \in 2..(n + 1) : LaunchOrder[i] = S[i - 1]
      /\ \A i \in (n + 2)..(n + 1 + m) : LaunchOrder[i] = T[i - n - 1]
  <2>1. S \in Seq(Goroutines) /\ T \in Seq(Goroutines) /\ <<"fetcher">> \in Seq(Goroutines)
    BY <1>1, <1>2 DEF Goroutines
  <2>. QED  BY <1>1, <1>2, <1>3, <2>1
<1>5. ASSUME NEW i \in 1..Len(LaunchOrder)
      PROVE  \/ i = 1 /\ LaunchOrder[i] = "fetcher"
             \/ i \in 2..(n + 1) /\ LaunchOrder[i] = S[i - 1] /\ LaunchOrder[i] \in Workers
             \/ i = n + 2 /\ LaunchOrder[i] = "retryLoop"
             \/ i = n + 3 /\ LaunchOrder[i] = "reaperLoop"
             \/ i = n + 4 /\ LaunchOrder[i] = "metricsLoop" /\ events # NoChannel
  <2>1. CASE i = 1
    BY <1>4, <2>1
  <2>2. CASE i \in 2..(n + 1)
    <3>1. LaunchOrder[i] = S[i - 1] /\ i - 1 \in 1..n
      BY <1>1, <1>4, <2>2
    <3>. QED  BY <1>1, <2>2, <3>1
  <2>3. CASE i \in (n + 2)..(n + 1 + m)
    <3>1. LaunchOrder[i] = T[i - n - 1]
      BY <1>4, <2>3
    <3>2. CASE i = n + 2
      <4>1. i - n - 1 = 1
        BY <1>1, <3>2
      <4>. QED  BY <1>2, <3>1, <3>2, <4>1
    <3>3. CASE i = n + 3
      <4>1. i - n - 1 = 2
        BY <1>1, <3>3
      <4>. QED  BY <1>2, <3>1, <3>3, <4>1
    <3>4. CASE i = n + 4
      <4>1. i - n - 1 = 3 /\ m = 3
        <5>. HIDE DEF m, n
        <5>. QED  BY <1>1, <1>2, <2>3, <3>4
      <4>. QED  BY <1>2, <3>1, <3>4, <4>1
    <3>5. i = n + 2 \/ i = n + 3 \/ i = n + 4
      <4>. HIDE DEF m, n
      <4>. QED  BY <1>1, <1>2, <2>3
    <3>. QED  BY <3>2, <3>3, <3>4, <3>5
  <2>. HIDE DEF m, n
  <2>4. i \in Nat /\ 1 <= i /\ i <= 1 + n + m /\ n \in Nat /\ m \in Nat
    BY <1>1, <1>2, <1>4
  <2>5. i = 1 \/ i \in 2..(n + 1) \/ i \in (n + 2)..(n + 1 + m)
    BY <2>4
  <2>. QED  BY <2>1, <2>2, <2>3, <2>5
<1>6. Workers \cap {"fetcher", "retryLoop", "reaperLoop", "metricsLoop"} = {}
  BY EngineAssumption DEF Loops
<1>7. ASSUME NEW i \in 1..Len(LaunchOrder), NEW j \in 1..Len(LaunchOrder),
             LaunchOrder[i] = LaunchOrder[j]
      PROVE  i = j
  <2>1. CASE LaunchOrder[i] \in Workers
    <3>1. i \in 2..(n + 1) /\ j \in 2..(n + 1) /\ S[i - 1] = S[j - 1]
      BY <1>5, <1>6, <1>7, <2>1
    <3>2. i - 1 \in DOMAIN S /\ j - 1 \in DOMAIN S
      BY <1>1, <3>1
    <3>3. i - 1 = j - 1
      BY <1>1, <3>1, <3>2 DEF IsInjective
    <3>. QED  BY <3>1, <3>3
  <2>2. CASE LaunchOrder[i] \notin Workers
    BY <1>5, <1>7, <2>2
  <2>. QED  BY <2>1, <2>2
<1>8. Len(LaunchOrder) > 0
  BY <1>1, <1>2, <1>4
<1>. QED  BY <1>4, <1>5, <1>6, <1>7, <1>8

\* The order only depends on whether there is a channel.
LEMMA LaunchOrderKept ==
  ASSUME events' = NoChannel <=> events = NoChannel
  PROVE  LaunchOrder' = LaunchOrder
BY DEF LaunchOrder

-----------------------------------------------------------------------------
(* The WaitGroup. *)

\* There are finitely many goroutines.
LEMMA GoroutinesFinite ==
  /\ IsFiniteSet(Goroutines)
  /\ \A S \in SUBSET Goroutines : IsFiniteSet(S)
<1>1. IsFiniteSet({"fetcher"}) /\ IsFiniteSet({"retryLoop"})
  BY FS_Singleton
<1>2. IsFiniteSet(Loops)
  <2>1. IsFiniteSet({"retryLoop"} \cup {"reaperLoop"})
    BY <1>1, FS_AddElement
  <2>2. IsFiniteSet(({"retryLoop"} \cup {"reaperLoop"}) \cup {"metricsLoop"})
    BY <2>1, FS_AddElement
  <2>3. Loops = ({"retryLoop"} \cup {"reaperLoop"}) \cup {"metricsLoop"}
    BY DEF Loops
  <2>. QED  BY <2>2, <2>3
<1>3. IsFiniteSet({"fetcher"} \cup Workers)
  BY <1>1, EngineAssumption, FS_Union
<1>4. IsFiniteSet(Goroutines)
  BY <1>2, <1>3, FS_Union DEF Goroutines
<1>. QED  BY <1>4, FS_Subset

\* wg.Add before the go statement of a goroutine that does not run yet.
LEMMA AddCounts ==
  ASSUME TasksType, NEW g \in Goroutines, goroutine[g] # "running",
         goroutine' = [goroutine EXCEPT ![g] = "running"], wg' = wg + Adds(g),
         UNCHANGED stopper
  PROVE  TasksType'
<1>. DEFINE R == {h \in Goroutines : goroutine[h] = "running"}
<1>1. IsFiniteSet(R) /\ g \notin R
  BY GoroutinesFinite
<1>2. Cardinality(R \cup {g}) = Cardinality(R) + 1
  BY <1>1, FS_AddElement
<1>3. {h \in Goroutines : goroutine'[h] = "running"} = R \cup {g}
  BY DEF TasksType
<1>4. goroutine' \in [Goroutines -> {"none", "running", "exited"}]
  BY DEF TasksType
<1>. QED  BY <1>2, <1>3, <1>4 DEF TasksType, Adds

\* wg.Done of a running goroutine.
LEMMA ExitCounts ==
  ASSUME TasksType, NEW g \in Goroutines, goroutine[g] = "running", Exits(g)
  PROVE  TasksType'
<1>. DEFINE R == {h \in Goroutines : goroutine[h] = "running"}
<1>1. IsFiniteSet(R) /\ g \in R
  BY GoroutinesFinite
<1>2. Cardinality(R \ {g}) = Cardinality(R) - 1
  BY <1>1, FS_RemoveElement
<1>3. {h \in Goroutines : goroutine'[h] = "running"} = R \ {g}
  BY DEF TasksType, Exits
<1>5. stopper' \in [Stoppers -> {"idle", "once", "wait", "woken", "close", "returned", "panicked"}]
  BY DEF TasksType, Exits
<1>4. goroutine' \in [Goroutines -> {"none", "running", "exited"}]
  BY DEF TasksType, Exits
<1>. QED  BY <1>2, <1>3, <1>4, <1>5 DEF TasksType, Adds, Exits

\* wg.Wait returns only when no goroutine runs.
LEMMA WaitMeansNoneRuns ==
  ASSUME TasksType, wg = 0
  PROVE  \A g \in Goroutines : goroutine[g] # "running"
<1>. DEFINE R == {h \in Goroutines : goroutine[h] = "running"}
<1>1. IsFiniteSet(R) /\ Cardinality(R) = 0
  BY GoroutinesFinite DEF TasksType
<1>2. R = {}
  BY <1>1, FS_EmptySet
<1>. QED  BY <1>2

-----------------------------------------------------------------------------
(* The metrics channel. *)

\* Counting a result.
LEMMA AddType ==
  ASSUME NEW counts \in [Outcome -> Nat], NEW type
  PROVE  /\ Add(counts, type) \in [Outcome -> Nat]
         /\ \A t \in Outcome :
              Add(counts, type)[t] = counts[t] + IF t = type THEN 1 ELSE 0
BY DEF Add

\* Sending an event keeps the channel a channel, within its capacity.
LEMMA EmitType ==
  ASSUME ChannelType, retryCount \in [JIDs -> 0..Retry + 1],
         NEW type \in EventType, NEW jid \in JIDs, EmitEvent(type, jid),
         UNCHANGED metering
  PROVE  /\ ChannelType'
         /\ events' = NoChannel <=> events = NoChannel
<1>1. CASE events = NoChannel
  BY <1>1 DEF EmitEvent, channel, metering, ChannelType
<1>2. CASE events # NoChannel
  <2>. DEFINE e == NewEvent(type, jid)
  <2>1. e \in JobEvent
    BY EngineAssumption DEF NewEvent, JobEvent
  <2>2. events \in Seq(JobEvent) /\ Len(events) <= Capacity /\ Capacity \in Nat
    BY <1>2, EngineAssumption DEF ChannelType
  <2>3. Send(e) /\ outcomes' = Add(outcomes, type)
    BY <1>2 DEF EmitEvent
  <2>4. lost' \in [Outcome -> Nat] /\ outcomes' \in [Outcome -> Nat]
    <3>1. lost \in [Outcome -> Nat] /\ outcomes \in [Outcome -> Nat]
      BY DEF ChannelType
    <3>2. Add(lost, e.type) \in [Outcome -> Nat] /\ Add(outcomes, type) \in [Outcome -> Nat]
      BY <3>1, AddType
    <3>3. lost' = Add(lost, e.type) \/ lost' = lost
      BY <2>3 DEF Send
    <3>. QED  BY <2>3, <3>1, <3>2, <3>3
  <2>5. events' \in Seq(JobEvent) /\ Len(events') <= Capacity
    <3>. HIDE DEF e
    <3>1. CASE Len(events) < Capacity
      <4>1. events' = Append(events, e)
        BY <2>3, <3>1 DEF Send
      <4>2. Append(events, e) \in Seq(JobEvent) /\ Len(Append(events, e)) = Len(events) + 1
        BY <2>1, <2>2, AppendProperties
      <4>. QED  BY <2>2, <3>1, <4>1, <4>2
    <3>2. CASE ~(Len(events) < Capacity)
      BY <2>2, <2>3, <3>2 DEF Send
    <3>. QED  BY <3>1, <3>2
  <2>6. events' # NoChannel
    BY <2>5, EngineAssumption
  <2>. QED  BY <1>2, <2>4, <2>5, <2>6 DEF ChannelType, metering
<1>. QED  BY <1>1, <1>2

\* metricsLoop takes an event from the channel.
LEMMA ReceiveType ==
  ASSUME ChannelType, events # NoChannel, MetricsReceive
  PROVE  /\ ChannelType' /\ events' # NoChannel
         /\ handling' \in JobEvent /\ handling' = events[1]
         /\ events \in Seq(JobEvent) /\ Len(events) > 0 /\ events' \in Seq(JobEvent)
         /\ Len(events') = Len(events) - 1
         /\ \A i \in 1..Len(events') : events'[i] = events[i + 1]
<1>1. events \in Seq(JobEvent) /\ events # <<>> /\ Len(events) <= Capacity /\ Capacity \in Nat
  BY EngineAssumption DEF ChannelType, MetricsReceive
<1>2. /\ Head(events) \in JobEvent /\ Tail(events) \in Seq(JobEvent)
      /\ Len(Tail(events)) = Len(events) - 1 /\ Len(events) > 0
      /\ \A i \in 1..Len(Tail(events)) : Tail(events)[i] = events[i + 1]
      /\ Head(events) = events[1]
  BY <1>1, HeadTailProperties
<1>3. events' = Tail(events) /\ handling' = Head(events) /\ UNCHANGED <<totals, seen, outcomes, lost>>
  BY DEF MetricsReceive
<1>4. events' # NoChannel
  BY <1>2, <1>3, EngineAssumption
<1>5. Len(events') <= Capacity
  BY <1>1, <1>2, <1>3
<1>. QED  BY <1>1, <1>2, <1>3, <1>4, <1>5 DEF ChannelType

\* The rank of an event.
LEMMA RankType ==
  ASSUME NEW event \in JobEvent
  PROVE  /\ Rank(event) \in Nat
         /\ event.type = "job_started" => Rank(event) = 3 * event.attempt
         /\ event.type \in Outcome => Rank(event) = 3 * event.attempt + 1
         /\ event.type \in {"job_retry_scheduled", "job_moved_to_dead"} =>
              Rank(event) = 3 * event.attempt + 2
<1>1. event.attempt \in Nat /\ event.type \in EventType
  BY DEF JobEvent
<1>2. CASE event.type = "job_started"
  BY <1>1, <1>2 DEF Rank, Outcome
<1>3. CASE event.type \in Outcome
  BY <1>1, <1>3 DEF Rank, Outcome
<1>4. CASE event.type \in {"job_retry_scheduled", "job_moved_to_dead"}
  BY <1>1, <1>4 DEF Rank, Outcome
<1>. QED  BY <1>1, <1>2, <1>3, <1>4 DEF EventType

\* metricsLoop's handler returns.
LEMMA HandleType ==
  ASSUME ChannelType, MetricsHandle
  PROVE  ChannelType' /\ events' = events
<1>1. handling \in JobEvent /\ handling.jid \in JIDs /\ Rank(handling) \in Int
  BY RankType DEF ChannelType, MetricsHandle, JobEvent
<1>2. totals' \in [Outcome -> Nat] /\ lost' \in [Outcome -> Nat]
  BY AddType DEF ChannelType, MetricsHandle
<1>3. seen' \in [JIDs -> Int]
  BY <1>1 DEF ChannelType, MetricsHandle
<1>. QED  BY <1>2, <1>3 DEF ChannelType, MetricsHandle

-----------------------------------------------------------------------------
(* Every step keeps the core invariant; first the setters. *)

\* What a step leaves alone keeps its invariant.
LEMMA Framed ==
  /\ SetupType /\ UNCHANGED <<chain, handler, validator, defaultValidator, registered, metrics>>
       => SetupType'
  /\ (/\ LifeType /\ (events' = NoChannel <=> events = NoChannel)
      /\ UNCHANGED <<engineStarted, processorStarted, launched, starter, stopped>>)
       => LifeType'
  /\ TasksType /\ UNCHANGED tasks => TasksType'
  /\ JobsType /\ UNCHANGED <<jobs, hands>> => JobsType'
  /\ ChannelType /\ UNCHANGED <<channel, metering>> => ChannelType'
  /\ (/\ StartOrder /\ (events' = NoChannel <=> events = NoChannel)
      /\ UNCHANGED <<engineStarted, processorStarted, handler, chain, starter, launched, goroutine>>)
       => StartOrder'
  /\ HandsRunning /\ UNCHANGED <<hands, goroutine>> => HandsRunning'
  /\ Places /\ UNCHANGED <<jobs, hands>> => Places'
<1>1. SetupType /\ UNCHANGED <<chain, handler, validator, defaultValidator, registered, metrics>>
        => SetupType'
  BY DEF SetupType
<1>2. (/\ LifeType /\ (events' = NoChannel <=> events = NoChannel)
       /\ UNCHANGED <<engineStarted, processorStarted, launched, starter, stopped>>)
        => LifeType'
  BY LaunchOrderKept DEF LifeType, stopped
<1>3. TasksType /\ UNCHANGED tasks => TasksType'
  BY DEF TasksType, tasks
<1>4. JobsType /\ UNCHANGED <<jobs, hands>> => JobsType'
  BY DEF JobsType, jobs, hands
<1>5. ChannelType /\ UNCHANGED <<channel, metering>> => ChannelType'
  BY DEF ChannelType, channel, metering
<1>6. (/\ StartOrder /\ (events' = NoChannel <=> events = NoChannel)
       /\ UNCHANGED <<engineStarted, processorStarted, handler, chain, starter, launched, goroutine>>)
        => StartOrder'
  <2>. HAVE /\ StartOrder /\ (events' = NoChannel <=> events = NoChannel)
            /\ UNCHANGED <<engineStarted, processorStarted, handler, chain, starter, launched,
                           goroutine>>
  <2>1. LaunchOrder' = LaunchOrder
    BY LaunchOrderKept
  <2>. QED  BY <2>1 DEF StartOrder
<1>7. HandsRunning /\ UNCHANGED <<hands, goroutine>> => HandsRunning'
  BY DEF HandsRunning, hands
<1>8. Places /\ UNCHANGED <<jobs, hands>> => Places'
  BY DEF Places, jobs, hands
<1>. QED  BY <1>1, <1>2, <1>3, <1>4, <1>5, <1>6, <1>7, <1>8

\* The setters: the ones that need an engine not started find nothing launched.
LEMMA SettersCore ==
  ASSUME CoreInv, Setters
  PROVE  CoreInv'
<1>0. /\ TypeOK /\ StartOrder /\ HandsRunning /\ Places
      /\ SetupType /\ LifeType /\ TasksType /\ JobsType /\ ChannelType
  BY DEF CoreInv, TypeOK
<1>1. SetupOnly =>
        /\ UNCHANGED <<jobs, hands, tasks, handler, engineStarted, processorStarted, starter,
                       launched, stopped, goroutine, outcomes, lost, metering>>
        /\ TasksType' /\ JobsType' /\ HandsRunning' /\ Places'
  BY <1>0, Framed DEF SetupOnly, started, tasks
<1>2. ASSUME Use
      PROVE  CoreInv'
  <2>1. /\ ~engineStarted /\ chain < MaxUse /\ chain' = chain + 1 /\ SetupOnly
        /\ UNCHANGED <<validator, defaultValidator, registered, metrics, events>>
    BY <1>2 DEF Use
  <2>2. SetupType'
    BY <1>0, <1>1, <2>1, EngineAssumption DEF SetupType
  <2>3. LifeType' /\ ChannelType'
    BY <1>0, <1>1, <2>1, Framed DEF channel
  <2>4. LaunchOrder' = LaunchOrder
    BY <2>1, LaunchOrderKept
  <2>5. StartOrder'
    BY <1>0, <1>1, <2>1, <2>4 DEF StartOrder
  <2>. QED  BY <1>1, <2>1, <2>2, <2>3, <2>5 DEF CoreInv, TypeOK
<1>3. ASSUME UNCHANGED <<chain, events>>, SetupOnly,
             {validator', defaultValidator'} \subseteq Validators,
             {registered', metrics'} \subseteq BOOLEAN
      PROVE  CoreInv'
  <2>1. SetupType'
    BY <1>0, <1>1, <1>3 DEF SetupType
  <2>2. LifeType' /\ ChannelType' /\ StartOrder'
    BY <1>0, <1>1, <1>3, Framed DEF channel
  <2>. QED  BY <1>1, <1>3, <2>1, <2>2 DEF CoreInv, TypeOK
<1>4. ASSUME NEW v \in Validators, SetValidator(v) \/ SetDefaultValidator(v)
      PROVE  CoreInv'
  BY <1>0, <1>3, <1>4 DEF SetValidator, SetDefaultValidator, SetupType
<1>5. ASSUME Register
      PROVE  CoreInv'
  BY <1>0, <1>3, <1>5 DEF Register, SetupType
<1>6. ASSUME NEW h \in BOOLEAN, SetMetricsHandler(h)
      PROVE  CoreInv'
  <2>1. /\ ~processorStarted /\ metrics' = h /\ SetupOnly
        /\ events' = IF h /\ events = NoChannel THEN <<>> ELSE events
        /\ UNCHANGED <<chain, validator, defaultValidator, registered>>
    BY <1>6 DEF SetMetricsHandler
  <2>2. SetupType'
    BY <1>0, <1>1, <2>1 DEF SetupType
  <2>3. <<>> \in Seq(JobEvent) /\ Len(<<>>) = 0 /\ <<>> # NoChannel /\ Capacity \in Nat
    <3>1. <<>> \in Seq(JobEvent) /\ Len(<<>>) = 0
      OBVIOUS
    <3>. QED  BY <3>1, EngineAssumption, Zenon
  <2>4. ChannelType'
    BY <1>0, <1>1, <2>1, <2>3 DEF ChannelType, metering
  <2>5. (LaunchOrder \in Seq(Goroutines) /\ Len(LaunchOrder) > 0)'
    BY LaunchOrderOnce, PTL
  <2>6. /\ launched' = 0 /\ ~processorStarted'
        /\ \A g \in Goroutines : goroutine'[g] = "none"
    BY <1>0, <1>1, <2>1 DEF StartOrder
  <2>7. LifeType'
    <3>1. 0 \in 0..Len(LaunchOrder')
      BY <2>5
    <3>2. UNCHANGED <<engineStarted, processorStarted, starter, cancelled, closed, once>>
      BY <1>1, <2>1 DEF stopped
    <3>. QED  BY <1>0, <2>6, <3>1, <3>2 DEF LifeType
  <2>8. StartOrder'
    <3>1. \A i \in 1..Len(LaunchOrder') : LaunchOrder'[i] \in Goroutines
      BY <2>5
    <3>2. "metricsLoop" \in Goroutines
      BY DEF Goroutines, Loops
    <3>. QED  BY <1>0, <1>1, <2>1, <2>6, <3>1, <3>2 DEF StartOrder
  <2>. QED  BY <1>1, <2>1, <2>2, <2>4, <2>7, <2>8 DEF CoreInv, TypeOK
<1>. QED  BY <1>2, <1>4, <1>5, <1>6 DEF Setters

\* Start: the first call to find the engine and the processor not started
\* launches the goroutines, each of which has not run before.
LEMMA StarterCore ==
  ASSUME CoreInv, NEW s \in Starters, Starter(s)
  PROVE  CoreInv'
<1>0. /\ TypeOK /\ StartOrder /\ HandsRunning /\ Places
      /\ SetupType /\ LifeType /\ TasksType /\ JobsType /\ ChannelType
  BY DEF CoreInv, TypeOK
<1>1. UNCHANGED <<setup, stopped, stopper, jobs, hands, channel, metering>>
  BY DEF Starter, EngineStart, ProcessorStart, Launch, tasks
<1>2. /\ UNCHANGED <<chain, validator, defaultValidator, registered, metrics, events>>
      /\ LaunchOrder' = LaunchOrder /\ JobsType' /\ ChannelType' /\ Places'
  BY <1>0, <1>1, Framed, LaunchOrderKept DEF setup, channel
<1>3. /\ starter \in [Starters -> {"idle", "refused", "processor", "launch", "started"}]
      /\ {engineStarted, processorStarted} \subseteq BOOLEAN
      /\ launched \in 0..Len(LaunchOrder)
  BY <1>0 DEF LifeType
<1>4. UNCHANGED <<once, cancelled, closed>>
  BY <1>1 DEF stopped
<1>5. CASE EngineStart(s)
  <2>1. /\ starter' = [starter EXCEPT ![s] = IF engineStarted THEN "refused" ELSE "processor"]
        /\ engineStarted' = TRUE /\ UNCHANGED <<processorStarted, handler, launched, tasks>>
    BY <1>5 DEF EngineStart, StarterGoes
  <2>2. SetupType' /\ TasksType' /\ HandsRunning'
    BY <1>0, <1>1, <1>2, <2>1, Framed DEF tasks
  <2>3. LifeType'
    BY <1>0, <1>2, <1>3, <1>4, <2>1 DEF LifeType
  <2>4. StartOrder'
    BY <1>0, <1>2, <1>3, <2>1 DEF StartOrder, tasks
  <2>. QED  BY <1>2, <2>2, <2>3, <2>4 DEF CoreInv, TypeOK
<1>6. CASE ProcessorStart(s)
  <2>1. /\ starter[s] = "processor"
        /\ starter' = [starter EXCEPT ![s] = IF processorStarted THEN "refused" ELSE "launch"]
        /\ processorStarted' = TRUE /\ handler' = IF processorStarted THEN handler ELSE chain
        /\ UNCHANGED <<engineStarted, launched, tasks>>
    BY <1>6 DEF ProcessorStart, StarterGoes
  <2>2. TasksType' /\ HandsRunning'
    BY <1>0, <1>1, <1>2, <2>1, Framed DEF tasks
  <2>3. SetupType'
    BY <1>0, <1>2, <2>1 DEF SetupType
  <2>4. LifeType'
    BY <1>0, <1>2, <1>3, <1>4, <2>1 DEF LifeType
  <2>5. StartOrder'
    <3>1. UNCHANGED goroutine /\ Len(LaunchOrder) > 0 /\ engineStarted
      BY <1>0, <2>1, LaunchOrderOnce DEF StartOrder, tasks
    <3>2. CASE processorStarted
      BY <1>0, <1>2, <1>3, <2>1, <3>1, <3>2 DEF StartOrder
    <3>3. CASE ~processorStarted
      <4>1. \A t \in Starters : starter[t] \notin {"launch", "started"}
        BY <1>0, <3>3 DEF StartOrder
      <4>2. launched = 0
        BY <1>0, <3>3 DEF StartOrder
      <4>. QED  BY <1>0, <1>2, <1>3, <2>1, <3>1, <3>3, <4>1, <4>2 DEF StartOrder
    <3>. QED  BY <3>2, <3>3
  <2>. QED  BY <1>2, <2>2, <2>3, <2>4, <2>5 DEF CoreInv, TypeOK
<1>7. CASE Launch(s)
  <2>. DEFINE g == LaunchOrder[launched + 1]
  <2>1. /\ starter[s] = "launch" /\ launched' = launched + 1
        /\ goroutine' = [goroutine EXCEPT ![g] = "running"] /\ wg' = wg + Adds(g)
        /\ starter' = [starter EXCEPT ![s] = IF launched + 1 = Len(LaunchOrder) THEN "started"
                                             ELSE "launch"]
        /\ UNCHANGED <<engineStarted, processorStarted, handler>>
    BY <1>2, <1>7 DEF Launch, StarterGoes
  <2>2. /\ LaunchOrder \in Seq(Goroutines) /\ launched + 1 \in 1..Len(LaunchOrder)
        /\ launched < Len(LaunchOrder) /\ Len(LaunchOrder) \in Nat
    BY <1>0, <1>3, <2>1, LaunchOrderOnce DEF StartOrder
  <2>3. g \in Goroutines /\ goroutine[g] = "none"
    BY <1>0, <1>3, <2>2 DEF StartOrder
  <2>. HIDE DEF g
  <2>4. TasksType'
    BY <1>0, <1>1, <2>1, <2>3, AddCounts
  <2>5. SetupType'
    BY <1>0, <1>2, <2>1 DEF SetupType
  <2>6. LifeType'
    BY <1>0, <1>2, <1>3, <1>4, <2>1, <2>2 DEF LifeType
  <2>7. goroutine \in [Goroutines -> {"none", "running", "exited"}]
    BY <1>0 DEF TasksType
  <2>8. HandsRunning'
    BY <1>0, <1>1, <2>1, <2>3, <2>7 DEF HandsRunning, hands, Goroutines
  <2>9. StartOrder'
    <3>1. processorStarted /\ engineStarted
      BY <1>0, <2>1 DEF StartOrder
    <3>2. \A t \in Starters : starter[t] \in {"launch", "started"} => t = s
      BY <1>0, <2>1 DEF StartOrder
    <3>3. \A t \in Starters :
            /\ starter'[t] = "launch" => launched + 1 < Len(LaunchOrder)
            /\ starter'[t] \in {"launch", "started"} => t = s
      BY <1>3, <2>1, <2>2, <3>2
    <3>4. ASSUME NEW i \in 1..Len(LaunchOrder), i > launched + 1
          PROVE  goroutine'[LaunchOrder[i]] = "none"
      <4>1. i # launched + 1 /\ i > launched
        BY <1>3, <2>2, <3>4
      <4>2. LaunchOrder[i] # g
        BY <2>2, <4>1, LaunchOrderOnce DEF g
      <4>3. goroutine[LaunchOrder[i]] = "none" /\ LaunchOrder[i] \in Goroutines
        BY <1>0, <2>2, <4>1 DEF StartOrder
      <4>. QED  BY <2>1, <2>7, <4>2, <4>3
    <3>5. events = NoChannel => goroutine'["metricsLoop"] = "none"
      <4>. HAVE events = NoChannel
      <4>1. g # "metricsLoop" /\ goroutine["metricsLoop"] = "none" /\ "metricsLoop" \in Goroutines
        BY <1>0, <2>2, LaunchOrderOnce DEF StartOrder, Goroutines, Loops, g
      <4>. QED  BY <2>1, <2>7, <4>1
    <3>6. handler = chain
      BY <1>0, <3>1 DEF StartOrder
    <3>. QED  BY <1>2, <2>1, <3>1, <3>3, <3>4, <3>5, <3>6 DEF StartOrder
  <2>. QED  BY <1>2, <2>4, <2>5, <2>6, <2>8, <2>9 DEF CoreInv, TypeOK
<1>. QED  BY <1>5, <1>6, <1>7 DEF Starter

\* A goroutine that runs leaves the order of the launches alone when it exits.
LEMMA ExitKeepsStart ==
  ASSUME CoreInv, NEW g \in Goroutines, goroutine[g] = "running", Exits(g),
         UNCHANGED <<setup, started, stopped, channel, metering>>
  PROVE  SetupType' /\ LifeType' /\ TasksType' /\ ChannelType' /\ StartOrder'
<1>0. /\ TypeOK /\ StartOrder
      /\ SetupType /\ LifeType /\ TasksType /\ JobsType /\ ChannelType
  BY DEF CoreInv, TypeOK
<1>1. /\ UNCHANGED <<chain, validator, defaultValidator, registered, metrics, handler>>
      /\ UNCHANGED <<engineStarted, processorStarted, starter, launched, events>>
  BY DEF setup, started, channel
<1>2. SetupType' /\ LifeType' /\ ChannelType'
  BY <1>0, <1>1, Framed
<1>3. TasksType'
  BY <1>0, ExitCounts
<1>4. /\ goroutine \in [Goroutines -> {"none", "running", "exited"}]
      /\ goroutine' = [goroutine EXCEPT ![g] = "exited"]
  BY <1>0 DEF TasksType, Exits
<1>5. \A h \in Goroutines : goroutine[h] = "none" => goroutine'[h] = "none"
  BY <1>4
<1>6. LaunchOrder' = LaunchOrder /\ (\A i \in 1..Len(LaunchOrder) : LaunchOrder[i] \in Goroutines)
      /\ "metricsLoop" \in Goroutines
  BY <1>1, LaunchOrderKept, LaunchOrderOnce DEF Goroutines, Loops
<1>7. processorStarted
  BY <1>0 DEF StartOrder
<1>8. StartOrder'
  BY <1>0, <1>1, <1>5, <1>6, <1>7 DEF StartOrder
<1>. QED  BY <1>2, <1>3, <1>8

\* Stop, Health, and metricsLoop at work.
LEMMA ObserversCore ==
  ASSUME CoreInv,
         \/ \E s \in Stoppers : Stopping(StopCalled, s) \/ Stopping(StopProceeds, s)
         \/ MetricsReceive \/ MetricsHandle \/ Health \/ UNCHANGED vars
  PROVE  CoreInv'
<1>0. /\ TypeOK /\ StartOrder /\ HandsRunning /\ Places
      /\ SetupType /\ LifeType /\ TasksType /\ JobsType /\ ChannelType
  BY DEF CoreInv, TypeOK
<1>1. ASSUME NEW s \in Stoppers, Stopping(StopCalled, s) \/ Stopping(StopProceeds, s)
      PROVE  CoreInv'
  <2>1. UNCHANGED <<setup, started, goroutine, wg, jobs, hands, channel, metering>>
    BY <1>1 DEF Stopping
  <2>2. UNCHANGED <<chain, handler, validator, defaultValidator, registered, metrics, events,
                    engineStarted, processorStarted, starter, launched, goroutine>>
    BY <2>1 DEF setup, started, channel
  <2>3. /\ SetupType' /\ JobsType' /\ ChannelType'
        /\ StartOrder' /\ HandsRunning' /\ Places' /\ LaunchOrder' = LaunchOrder
    BY <1>0, <2>1, <2>2, Framed, LaunchOrderKept
  <2>4. /\ stopper' \in [Stoppers -> {"idle", "once", "wait", "woken", "close", "returned",
                                      "panicked"}]
        /\ once' \in {"free", "running", "done"}
        /\ {cancelled', closed'} \subseteq BOOLEAN
    BY <1>0, <1>1 DEF LifeType, TasksType, Stopping, StopCalled, StopProceeds, StopOnce,
                      StopWaits, StopWakes, StopCloses, StopperGoes
  <2>5. LifeType' /\ TasksType'
    BY <1>0, <2>1, <2>2, <2>3, <2>4 DEF LifeType, TasksType
  <2>. QED  BY <2>3, <2>5 DEF CoreInv, TypeOK
<1>2. ASSUME MetricsReceive \/ MetricsHandle
      PROVE  CoreInv'
  <2>1. UNCHANGED <<setup, started, stopped, tasks, jobs, hands>>
    BY <1>2 DEF MetricsReceive, MetricsHandle
  <2>2. ChannelType' /\ (events' = NoChannel <=> events = NoChannel)
    <3>1. CASE MetricsReceive
      <4>1. events # NoChannel
        BY <1>0, <3>1 DEF MetricsReceive, StartOrder
      <4>. QED  BY <1>0, <3>1, <4>1, ReceiveType
    <3>2. CASE MetricsHandle
      BY <1>0, <3>2, HandleType
    <3>. QED  BY <1>2, <3>1, <3>2
  <2>3. UNCHANGED <<chain, handler, validator, defaultValidator, registered, metrics,
                    engineStarted, processorStarted, starter, launched, goroutine>>
    BY <2>1 DEF setup, started, tasks
  <2>. QED  BY <1>0, <2>1, <2>2, <2>3, Framed DEF CoreInv, TypeOK
<1>3. ASSUME Health \/ UNCHANGED vars
      PROVE  CoreInv'
  <2>1. UNCHANGED <<setup, started, stopped, tasks, jobs, hands, channel, metering>>
    BY <1>3 DEF Health, vars
  <2>2. UNCHANGED <<chain, handler, validator, defaultValidator, registered, metrics, events,
                    engineStarted, processorStarted, starter, launched, goroutine>>
    BY <2>1 DEF setup, started, tasks, channel
  <2>. QED  BY <1>0, <2>1, <2>2, Framed DEF CoreInv, TypeOK
<1>. QED  BY <1>1, <1>2, <1>3

\* A loop leaves.
LEMMA LoopCore ==
  ASSUME CoreInv, NEW g \in Loops, LoopExits(g)
  PROVE  CoreInv'
<1>0. /\ HandsRunning /\ Places /\ JobsType
      /\ goroutine \in [Goroutines -> {"none", "running", "exited"}]
  BY DEF CoreInv, TypeOK, TasksType
<1>1. /\ g \in Goroutines /\ goroutine[g] = "running" /\ Exits(g)
      /\ UNCHANGED <<setup, started, stopped, jobs, hands, channel, metering>>
  BY DEF LoopExits, Goroutines
<1>2. g # "fetcher" /\ g \notin Workers
  BY EngineAssumption DEF Loops
<1>3. HandsRunning'
  BY <1>0, <1>1, <1>2 DEF HandsRunning, Exits, hands, Goroutines
<1>. QED  BY <1>0, <1>1, <1>3, Framed, ExitKeepsStart DEF CoreInv, TypeOK

\* A step that moves jobs but neither starts nor ends a goroutine and neither
\* makes nor drops the channel.
LEMMA JobsMove ==
  ASSUME CoreInv, UNCHANGED <<setup, started, stopped, tasks>>,
         ChannelType', events' = NoChannel <=> events = NoChannel,
         JobsType', HandsRunning', Places'
  PROVE  CoreInv'
<1>1. /\ SetupType /\ LifeType /\ TasksType /\ StartOrder
  BY DEF CoreInv, TypeOK
<1>2. UNCHANGED <<chain, handler, validator, defaultValidator, registered, metrics,
                  engineStarted, processorStarted, starter, launched, goroutine>>
  BY DEF setup, started, tasks
<1>. QED  BY <1>1, <1>2, Framed DEF CoreInv, TypeOK

\* The fetcher.
LEMMA FetcherCore ==
  ASSUME CoreInv, Fetcher
  PROVE  CoreInv'
<1>0. /\ HandsRunning /\ Places /\ JobsType /\ TasksType /\ ChannelType
      /\ "fetcher" \in Goroutines /\ "fetcher" \notin Workers /\ NoJob \notin JIDs
  BY EngineAssumption DEF CoreInv, TypeOK, Goroutines
<1>1. /\ waiting \subseteq JIDs /\ retrySet \subseteq JIDs
      /\ retryCount \in [JIDs -> 0..Retry + 1]
      /\ fetcher \in [pc : {"top", "poll", "send"}, job : JIDs \cup {NoJob}]
      /\ worker \in [Workers -> [pc : {"idle", "begin", "execute", "perform", "failed",
                                      "schedule", "store"}, job : JIDs \cup {NoJob}]]
      /\ goroutine \in [Goroutines -> {"none", "running", "exited"}]
  BY <1>0 DEF JobsType, TasksType
<1>2. CASE FetcherTop
  <2>1. /\ goroutine["fetcher"] = "running" /\ fetcher.pc = "top"
        /\ UNCHANGED <<setup, started, stopped, jobs, worker, channel, metering>>
        /\ UNCHANGED <<waiting, retrySet, retryCount, events>>
    BY <1>2 DEF FetcherTop, jobs, channel
  <2>2. CASE cancelled
    <3>1. Exits("fetcher") /\ UNCHANGED hands
      BY <1>2, <2>1, <2>2 DEF FetcherTop, hands
    <3>2. HandsRunning'
      BY <1>0, <1>1, <2>1, <3>1 DEF HandsRunning, Exits, hands, Goroutines
    <3>. QED  BY <1>0, <2>1, <3>1, <3>2, Framed, ExitKeepsStart DEF CoreInv, TypeOK
  <2>3. CASE ~cancelled
    <3>1. fetcher' = [pc |-> "poll", job |-> NoJob] /\ UNCHANGED <<tasks, goroutine, wg>>
      BY <1>2, <2>3 DEF FetcherTop, FetcherGoes, tasks
    <3>2. JobsType'
      BY <1>1, <2>1, <3>1 DEF JobsType
    <3>3. HandsRunning'
      BY <1>0, <2>1, <3>1 DEF HandsRunning
    <3>4. Places'
      BY <1>0, <1>1, <2>1, <3>1 DEF Places
    <3>. QED  BY <1>0, <2>1, <3>1, <3>2, <3>3, <3>4, Framed, JobsMove
  <2>. QED  BY <2>2, <2>3
<1>3. CASE FetcherPoll
  <2>1. /\ fetcher.pc = "poll"
        /\ UNCHANGED <<retrySet, retryCount, worker, setup, started, stopped, tasks, channel,
                       metering, goroutine, wg, events>>
    BY <1>3 DEF FetcherPoll, tasks, channel
  <2>2. \/ \E jid \in waiting : /\ waiting' = waiting \ {jid}
                                /\ fetcher' = [pc |-> "send", job |-> jid]
        \/ fetcher' = [pc |-> "top", job |-> NoJob] /\ UNCHANGED waiting
    BY <1>3 DEF FetcherPoll, FetcherGoes
  <2>3. JobsType'
    BY <1>1, <2>1, <2>2 DEF JobsType
  <2>4. HandsRunning'
    BY <1>0, <1>1, <2>1, <2>2 DEF HandsRunning
  <2>5. Places'
    <3>1. CASE fetcher' = [pc |-> "top", job |-> NoJob] /\ UNCHANGED waiting
      BY <1>0, <1>1, <2>1, <3>1 DEF Places
    <3>2. ASSUME NEW jid \in waiting, waiting' = waiting \ {jid},
                 fetcher' = [pc |-> "send", job |-> jid]
          PROVE  Places'
      <4>1. /\ jid \notin retrySet /\ retryCount[jid] <= Retry
            /\ \A w \in Workers : worker[w].job # jid
        BY <1>0 DEF Places
      <4>. QED  BY <1>0, <1>1, <2>1, <3>2, <4>1 DEF Places
    <3>. QED  BY <2>2, <3>1, <3>2
  <2>. QED  BY <1>0, <2>1, <2>3, <2>4, <2>5, Framed, JobsMove
<1>4. CASE FetcherSend
  <2>1. PICK w \in Workers :
          /\ goroutine[w] = "running" /\ worker[w].pc = "idle"
          /\ worker' = [worker EXCEPT ![w] = [pc |-> "begin", job |-> fetcher.job]]
    BY <1>4 DEF FetcherSend
  <2>2. /\ fetcher.pc = "send" /\ fetcher' = [pc |-> "top", job |-> NoJob]
        /\ UNCHANGED <<setup, started, stopped, tasks, jobs, channel, metering, goroutine, wg,
                       waiting, retrySet, retryCount, events>>
    BY <1>4 DEF FetcherSend, FetcherGoes, tasks, jobs, channel
  <2>3. fetcher.job \in JIDs
    BY <1>0, <1>1, <2>2 DEF HandsRunning
  <2>4. JobsType'
    BY <1>1, <2>1, <2>2, <2>3 DEF JobsType
  <2>5. HandsRunning'
    BY <1>0, <1>1, <2>1, <2>2, <2>3 DEF HandsRunning
  <2>6. Places'
    <3>1. /\ worker'[w].job = fetcher.job /\ fetcher'.job = NoJob
          /\ \A v \in Workers \ {w} : worker'[v] = worker[v]
      BY <1>1, <2>1, <2>2
    <3>2. \A v \in Workers \ {w} : worker'[v].job # fetcher.job
      BY <1>0, <1>1, <2>3, <3>1 DEF Places
    <3>. QED  BY <1>0, <1>1, <2>2, <2>3, <3>1, <3>2 DEF Places
  <2>. QED  BY <1>0, <2>2, <2>4, <2>5, <2>6, Framed, JobsMove
<1>5. CASE FetcherHandBack
  <2>1. /\ fetcher.pc = "send" /\ waiting' = waiting \cup {fetcher.job}
        /\ fetcher' = [pc |-> "top", job |-> NoJob] /\ Exits("fetcher")
        /\ UNCHANGED <<retrySet, retryCount, worker, setup, started, stopped, channel, metering>>
    BY <1>5 DEF FetcherHandBack, FetcherGoes
  <2>2. fetcher.job \in JIDs /\ goroutine["fetcher"] = "running"
    BY <1>0, <1>1, <2>1 DEF HandsRunning
  <2>3. JobsType'
    BY <1>1, <2>1, <2>2 DEF JobsType
  <2>4. HandsRunning'
    BY <1>0, <1>1, <2>1 DEF HandsRunning, Exits, Goroutines
  <2>5. Places'
    BY <1>0, <1>1, <2>1, <2>2 DEF Places
  <2>. QED  BY <1>0, <2>1, <2>2, <2>3, <2>4, <2>5, ExitKeepsStart DEF CoreInv, TypeOK
<1>. QED  BY <1>2, <1>3, <1>4, <1>5 DEF Fetcher

\* A worker has a job while it is busy.
LEMMA BusyWorker ==
  ASSUME CoreInv, NEW w \in Workers, worker[w].pc # "idle"
  PROVE  /\ worker[w].job \in JIDs /\ worker[w].job # NoJob
         /\ goroutine[w] = "running" /\ retryCount[worker[w].job] <= Retry
BY DEF CoreInv, TypeOK, JobsType, HandsRunning, Places

\* A worker goes on with its job.
LEMMA WorkerGoesOn ==
  ASSUME CoreInv, NEW w \in Workers, worker[w].pc # "idle",
         NEW pc \in {"begin", "execute", "perform", "failed", "schedule", "store"},
         WorkerGoes(w, pc, worker[w].job), UNCHANGED jobs, Processing,
         ChannelType', events' = NoChannel <=> events = NoChannel
  PROVE  CoreInv'
<1>0. HandsRunning /\ Places /\ JobsType /\ worker[w].job \in JIDs /\ goroutine[w] = "running"
      /\ worker[w].job # NoJob
  BY BusyWorker DEF CoreInv, TypeOK
<1>1. /\ UNCHANGED <<setup, started, stopped, tasks, goroutine, fetcher, waiting, retrySet, retryCount>>
      /\ worker' = [worker EXCEPT ![w] = [pc |-> pc, job |-> worker[w].job]]
  BY DEF Processing, jobs, tasks, WorkerGoes
<1>2. worker \in [Workers -> [pc : {"idle", "begin", "execute", "perform", "failed",
                                    "schedule", "store"}, job : JIDs \cup {NoJob}]]
  BY <1>0 DEF JobsType
<1>3. JobsType'
  BY <1>0, <1>1, <1>2 DEF JobsType
<1>4. \A v \in Workers : worker'[v].job = worker[v].job
  BY <1>1, <1>2
<1>5. HandsRunning'
  BY <1>0, <1>1, <1>2 DEF HandsRunning
<1>6. Places'
  BY <1>0, <1>1, <1>4 DEF Places
<1>. QED  BY <1>1, <1>3, <1>5, <1>6, JobsMove

\* A worker is through with its job.
LEMMA WorkerLetsGo ==
  ASSUME CoreInv, NEW w \in Workers, worker[w].pc # "idle", WorkerGoes(w, "idle", NoJob),
         Processing, ChannelType', events' = NoChannel <=> events = NoChannel,
         waiting' = waiting,
         \/ UNCHANGED <<retrySet, retryCount>>
         \/ LET jid == worker[w].job IN
            /\ retrySet' = IF MayRetry(jid) THEN retrySet \cup {jid} ELSE retrySet
            /\ retryCount' = [retryCount EXCEPT ![jid] = @ + 1]
  PROVE  CoreInv'
<1>. DEFINE jid == worker[w].job
<1>0. /\ HandsRunning /\ Places /\ JobsType /\ jid \in JIDs /\ goroutine[w] = "running"
      /\ jid # NoJob /\ retryCount[jid] <= Retry /\ Retry \in Nat /\ NoJob \notin JIDs
  BY BusyWorker, EngineAssumption DEF CoreInv, TypeOK
<1>1. /\ UNCHANGED <<setup, started, stopped, tasks, goroutine, fetcher>>
      /\ worker' = [worker EXCEPT ![w] = [pc |-> "idle", job |-> NoJob]]
  BY DEF Processing, tasks, WorkerGoes
<1>2. /\ worker \in [Workers -> [pc : {"idle", "begin", "execute", "perform", "failed",
                                       "schedule", "store"}, job : JIDs \cup {NoJob}]]
      /\ waiting \subseteq JIDs /\ retrySet \subseteq JIDs
      /\ retryCount \in [JIDs -> 0..Retry + 1]
  BY <1>0 DEF JobsType
<1>3. /\ worker'[w] = [pc |-> "idle", job |-> NoJob]
      /\ \A v \in Workers \ {w} : worker'[v] = worker[v] /\ worker[v].job # jid
      /\ fetcher.job # jid /\ jid \notin waiting /\ jid \notin retrySet
  BY <1>0, <1>1, <1>2 DEF Places
<1>4. HandsRunning'
  BY <1>0, <1>1, <1>2 DEF HandsRunning
<1>5. CASE UNCHANGED <<retrySet, retryCount>>
  <2>1. JobsType'
    BY <1>0, <1>1, <1>2, <1>5 DEF JobsType
  <2>2. Places'
    BY <1>0, <1>1, <1>2, <1>3, <1>5 DEF Places
  <2>. QED  BY <1>1, <1>4, <2>1, <2>2, JobsMove
<1>6. CASE /\ retrySet' = IF MayRetry(jid) THEN retrySet \cup {jid} ELSE retrySet
           /\ retryCount' = [retryCount EXCEPT ![jid] = @ + 1]
  <2>1. /\ retryCount' \in [JIDs -> 0..Retry + 1]
        /\ \A j \in JIDs \ {jid} : retryCount'[j] = retryCount[j]
        /\ MayRetry(jid) => retryCount'[jid] <= Retry
    BY <1>0, <1>2, <1>6 DEF MayRetry
  <2>2. JobsType'
    BY <1>0, <1>1, <1>2, <1>6, <2>1 DEF JobsType
  <2>3. waiting' \cap retrySet' = {}
    BY <1>0, <1>3, <1>6 DEF Places
  <2>4. \A j \in waiting' \cup retrySet' : retryCount'[j] <= Retry
    BY <1>0, <1>2, <1>3, <1>6, <2>1 DEF Places
  <2>5. fetcher.job \in JIDs \cup {NoJob} /\ \A v \in Workers : worker[v].job \in JIDs \cup {NoJob}
    BY <1>0, <1>2 DEF JobsType
  <2>6. /\ fetcher'.job # NoJob => retryCount'[fetcher'.job] <= Retry
        /\ \A v \in Workers : worker'[v].job # NoJob => retryCount'[worker'[v].job] <= Retry
    BY <1>0, <1>1, <1>3, <2>1, <2>5 DEF Places
  <2>7. /\ fetcher'.job \notin waiting' \cup retrySet'
        /\ \A v \in Workers : worker'[v].job \notin waiting' \cup retrySet'
    BY <1>0, <1>1, <1>2, <1>3, <1>6 DEF Places
  <2>8. /\ \A v \in Workers : worker'[v].job # NoJob => worker'[v].job # fetcher'.job
        /\ \A u, v \in Workers : worker'[v].job # NoJob /\ worker'[u].job = worker'[v].job => u = v
    BY <1>0, <1>1, <1>3 DEF Places
  <2>9. Places'
    BY <2>3, <2>4, <2>6, <2>7, <2>8 DEF Places
  <2>. QED  BY <1>1, <1>4, <2>2, <2>9, JobsMove
<1>. QED  BY <1>5, <1>6

\* The workers.
LEMMA WorkerCore ==
  ASSUME CoreInv, NEW w \in Workers, Worker(w)
  PROVE  CoreInv'
<1>0. /\ HandsRunning /\ Places /\ JobsType /\ ChannelType
      /\ retryCount \in [JIDs -> 0..Retry + 1]
  BY DEF CoreInv, TypeOK, JobsType
<1>. DEFINE jid == worker[w].job
            Kept == ChannelType' /\ (events' = NoChannel <=> events = NoChannel)
<1>1. ASSUME NEW type \in EventType, EmitEvent(type, jid), worker[w].pc # "idle", Processing
      PROVE  Kept
  BY <1>0, <1>1, BusyWorker, EmitType DEF Processing
<1>2. ASSUME UNCHANGED channel, Processing
      PROVE  Kept
  BY <1>0, <1>2, Framed DEF Processing, channel
<1>. HIDE DEF Kept
<1>3. CASE WorkerBegins(w)
  <2>1. Kept
    BY <1>1, <1>3 DEF WorkerBegins, EventType
  <2>. QED  BY <1>3, <2>1, WorkerGoesOn DEF WorkerBegins, Kept
<1>4. CASE WorkerExecutes(w)
  <2>1. Kept
    BY <1>2, <1>4 DEF WorkerExecutes
  <2>. QED  BY <1>4, <2>1, WorkerGoesOn DEF WorkerExecutes, Kept
<1>5. CASE JobSucceeds(w)
  <2>1. Kept
    BY <1>1, <1>5 DEF JobSucceeds, EventType, Outcome
  <2>. QED  BY <1>5, <2>1, WorkerLetsGo DEF JobSucceeds, Kept, jobs
<1>6. CASE JobFails(w)
  <2>1. Kept
    BY <1>1, <1>6 DEF JobFails, EventType, Outcome
  <2>. QED  BY <1>6, <2>1, WorkerGoesOn DEF JobFails, Kept
<1>7. CASE WorkerReports(w)
  <2>1. Kept
    BY <1>1, <1>7 DEF WorkerReports, EventType
  <2>. QED  BY <1>7, <2>1, WorkerGoesOn DEF WorkerReports, Kept
<1>8. CASE WorkerStores(w)
  <2>1. Kept
    BY <1>2, <1>8 DEF WorkerStores
  <2>. QED  BY <1>8, <2>1, WorkerLetsGo DEF WorkerStores, Kept
<1>9. CASE WorkerExits(w)
  <2>1. /\ w \in Goroutines /\ goroutine[w] = "running" /\ Exits(w) /\ worker[w].pc = "idle"
        /\ UNCHANGED <<setup, started, stopped, jobs, hands, channel, metering>>
        /\ w # "fetcher" /\ "fetcher" \in Goroutines
    BY <1>9, EngineAssumption DEF WorkerExits, Goroutines
  <2>2. goroutine \in [Goroutines -> {"none", "running", "exited"}]
    BY DEF CoreInv, TypeOK, TasksType
  <2>3. HandsRunning'
    BY <1>0, <2>1, <2>2 DEF HandsRunning, Exits, hands, Goroutines
  <2>. QED  BY <1>0, <2>1, <2>3, Framed, ExitKeepsStart DEF CoreInv, TypeOK
<1>. QED  BY <1>3, <1>4, <1>5, <1>6, <1>7, <1>8, <1>9 DEF Worker

\* retryLoop.
LEMMA RetryCore ==
  ASSUME CoreInv, RetryMoves
  PROVE  CoreInv'
<1>0. /\ HandsRunning /\ Places /\ JobsType /\ ChannelType /\ Retry \in Nat /\ NoJob \notin JIDs
  BY EngineAssumption DEF CoreInv, TypeOK
<1>1. UNCHANGED <<setup, started, stopped, tasks, goroutine, hands, fetcher, worker, channel,
                  events, metering>>
  BY DEF RetryMoves, tasks, hands, channel
<1>2. PICK jid \in retrySet :
        \/ /\ waiting' = waiting \cup {jid} /\ retrySet' = retrySet \ {jid}
           /\ UNCHANGED retryCount
        \/ /\ retrySet' = IF MayRetry(jid) THEN retrySet ELSE retrySet \ {jid}
           /\ retryCount' = [retryCount EXCEPT ![jid] = @ + 1]
           /\ UNCHANGED waiting
  BY DEF RetryMoves
<1>3. /\ waiting \subseteq JIDs /\ retrySet \subseteq JIDs /\ jid \in JIDs
      /\ retryCount \in [JIDs -> 0..Retry + 1]
      /\ fetcher.job \in JIDs \cup {NoJob} /\ \A v \in Workers : worker[v].job \in JIDs \cup {NoJob}
  BY <1>0 DEF JobsType
<1>4. /\ jid \notin waiting /\ fetcher.job # jid /\ \A w \in Workers : worker[w].job # jid
      /\ retryCount[jid] <= Retry
  BY <1>0 DEF Places
<1>5. JobsType' /\ Places'
  <2>1. CASE waiting' = waiting \cup {jid} /\ retrySet' = retrySet \ {jid} /\ UNCHANGED retryCount
    BY <1>0, <1>1, <1>3, <1>4, <2>1 DEF JobsType, Places
  <2>2. CASE /\ retrySet' = IF MayRetry(jid) THEN retrySet ELSE retrySet \ {jid}
             /\ retryCount' = [retryCount EXCEPT ![jid] = @ + 1]
             /\ UNCHANGED waiting
    <3>1. /\ retryCount' \in [JIDs -> 0..Retry + 1]
          /\ \A j \in JIDs \ {jid} : retryCount'[j] = retryCount[j]
          /\ MayRetry(jid) => retryCount'[jid] <= Retry
      BY <1>0, <1>3, <1>4, <2>2 DEF MayRetry
    <3>2. retrySet' \subseteq retrySet /\ (jid \in retrySet' => MayRetry(jid))
      BY <2>2
    <3>3. JobsType'
      BY <1>0, <1>1, <1>3, <2>2, <3>1 DEF JobsType
    <3>4. Places'
      BY <1>0, <1>1, <1>3, <1>4, <2>2, <3>1, <3>2 DEF Places
    <3>. QED  BY <3>3, <3>4
  <2>. QED  BY <1>2, <2>1, <2>2
<1>. QED  BY <1>0, <1>1, <1>5, Framed, JobsMove

\* Every step keeps the core invariant.
LEMMA StepCore ==
  ASSUME CoreInv, [Next]_vars
  PROVE  CoreInv'
BY SettersCore, StarterCore, ObserversCore, LoopCore, FetcherCore, WorkerCore, RetryCore DEF Next

\* The initial state.
LEMMA InitCore ==
  ASSUME Init
  PROVE  CoreInv
<1>1. SetupType
  <2>1. registered \in BOOLEAN /\ metrics \in BOOLEAN
    BY DEF Init
  <2>. QED  BY <2>1, EngineAssumption DEF Init, SetupType, Validators
<1>2. LifeType
  <2>1. 0 \in 0..Len(LaunchOrder)
    BY LaunchOrderOnce
  <2>. QED  BY <2>1 DEF Init, LifeType
<1>3. TasksType
  <2>1. {g \in Goroutines : goroutine[g] = "running"} = {} /\ Cardinality({}) = 0
    BY FS_EmptySet DEF Init
  <2>. QED  BY <2>1 DEF Init, TasksType
<1>4. JobsType
  BY EngineAssumption DEF Init, JobsType
<1>5. ChannelType
  BY DEF Init, ChannelType
<1>6. StartOrder
  <2>1. /\ \A i \in 1..Len(LaunchOrder) : LaunchOrder[i] \in Goroutines
        /\ "metricsLoop" \in Goroutines
    BY LaunchOrderOnce DEF Goroutines, Loops
  <2>. QED  BY <2>1 DEF Init, StartOrder
<1>7. HandsRunning
  BY DEF Init, HandsRunning
<1>8. Places
  BY EngineAssumption DEF Init, Places
<1>. QED  BY <1>1, <1>2, <1>3, <1>4, <1>5, <1>6, <1>7, <1>8 DEF CoreInv, TypeOK

\* The core invariant is one.
LEMMA CoreInvariant == Spec => []CoreInv
<1>1. Init => CoreInv
  BY InitCore
<1>2. CoreInv /\ [Next]_vars => CoreInv'
  BY StepCore
<1>. QED  BY <1>1, <1>2, PTL DEF Spec

\* The engine's state is well formed; in particular the WaitGroup counts exactly
\* the goroutines that run, while Start is still launching and Stop waits, and
\* the metrics channel stays within its capacity.
THEOREM EngineTypeCorrect == Spec => []TypeOK
<1>1. CoreInv => TypeOK
  BY DEF CoreInv
<1>. QED  BY <1>1, CoreInvariant, PTL

-----------------------------------------------------------------------------
(* Stop. *)

\* Nothing but Stop touches what StopOrder says of Stop, and a drained engine
\* stays drained: its fetcher can only exit.
LEMMA StepStopOrder ==
  ASSUME CoreInv, StopOrder, [Next]_vars
  PROVE  StopOrder'
<1>0. /\ HandsRunning /\ TasksType /\ JobsType /\ LifeType
      /\ {cancelled, closed} \subseteq BOOLEAN
      /\ stopper \in [Stoppers -> {"idle", "once", "wait", "woken", "close", "returned",
                                  "panicked"}]
      /\ "fetcher" \in Goroutines /\ Workers \subseteq Goroutines
  BY DEF CoreInv, TypeOK, LifeType, TasksType, Goroutines
<1>. DEFINE Waits(s) == \/ stopper'[s] = stopper[s]
                        \/ stopper[s] = "wait" /\ stopper'[s] = "woken"
<1>1. ASSUME UNCHANGED stopped, \A s \in Stoppers : Waits(s), Drained => fetcher'.pc = "top",
             Drained => \A w \in Workers : worker'[w].pc = "idle"
      PROVE  StopOrder'
  BY <1>1 DEF StopOrder, Drained, stopped
<1>2. ASSUME UNCHANGED <<stopped, fetcher, worker>>, \A s \in Stoppers : Waits(s)
      PROVE  StopOrder'
  BY <1>1, <1>2 DEF Drained
<1>12. UNCHANGED stopper => \A s \in Stoppers : Waits(s)
  OBVIOUS
<1>13. UNCHANGED tasks => \A s \in Stoppers : Waits(s)
  BY DEF tasks
<1>14. \A g : Exits(g) => \A s \in Stoppers : Waits(s)
  BY <1>0 DEF Exits
<1>. HIDE DEF Waits
<1>3. CASE Setters
  BY <1>2, <1>3, <1>13 DEF Setters, Use, SetValidator, SetDefaultValidator, Register,
                           SetMetricsHandler, SetupOnly, hands
<1>4. ASSUME NEW s \in Starters, Starter(s)
      PROVE  StopOrder'
  BY <1>2, <1>4, <1>12, <1>13 DEF Starter, EngineStart, ProcessorStart, Launch, hands
<1>5. ASSUME NEW s \in Stoppers, Stopping(StopCalled, s) \/ Stopping(StopProceeds, s)
      PROVE  StopOrder'
  <2>1. UNCHANGED <<fetcher, worker>>
    BY <1>5 DEF Stopping, hands
  <2>2. CASE StopCalled(s)
    BY <1>0, <2>1, <2>2 DEF StopCalled, StopperGoes, StopOrder, Drained
  <2>3. CASE StopOnce(s)
    BY <1>0, <2>1, <2>3 DEF StopOnce, StopperGoes, StopOrder, Drained
  <2>4. ASSUME wg = 0, cancelled
        PROVE  Drained
    <3>1. \A g \in Goroutines : goroutine[g] # "running"
      BY <1>0, <2>4, WaitMeansNoneRuns
    <3>. QED  BY <1>0, <2>4, <3>1 DEF Drained, HandsRunning
  <2>5. CASE StopWaits(s)
    BY <1>0, <2>1, <2>4, <2>5 DEF StopWaits, StopperGoes, StopOrder, Drained
  <2>7. CASE StopWakes(s)
    BY <1>0, <2>1, <2>4, <2>7 DEF StopWakes, StopperGoes, StopOrder, Drained
  <2>6. CASE StopCloses(s)
    BY <1>0, <2>1, <2>6 DEF StopCloses, StopperGoes, StopOrder, Drained
  <2>. QED  BY <1>5, <2>2, <2>3, <2>5, <2>6, <2>7 DEF Stopping, StopProceeds
<1>6. ASSUME NEW g \in Loops, LoopExits(g)
      PROVE  StopOrder'
  BY <1>2, <1>6, <1>14 DEF LoopExits, hands
<1>7. CASE MetricsReceive \/ MetricsHandle
  BY <1>2, <1>7, <1>13 DEF MetricsReceive, MetricsHandle, hands
<1>8. CASE Fetcher
  <2>1. UNCHANGED stopped /\ \A s \in Stoppers : Waits(s)
    BY <1>8, <1>13, <1>14 DEF Fetcher, FetcherTop, FetcherPoll, FetcherSend, FetcherHandBack
  <2>2. Drained => UNCHANGED <<fetcher, worker>>
    BY <1>8 DEF Drained, Fetcher, FetcherTop, FetcherPoll, FetcherSend, FetcherHandBack
  <2>. QED  BY <1>1, <2>1, <2>2 DEF Drained
<1>9. CASE RetryMoves
  BY <1>2, <1>9, <1>13 DEF RetryMoves, hands
<1>10. ASSUME NEW w \in Workers, Worker(w)
       PROVE  StopOrder'
  <2>1. UNCHANGED <<stopped, fetcher>> /\ \A s \in Stoppers : Waits(s)
    BY <1>10, <1>13, <1>14 DEF Worker, WorkerBegins, WorkerExecutes, JobSucceeds, JobFails, WorkerReports,
                 WorkerStores, WorkerExits, Processing, hands
  <2>2. Drained => UNCHANGED worker
    BY <1>10 DEF Drained, Worker, WorkerBegins, WorkerExecutes, JobSucceeds, JobFails,
                 WorkerReports, WorkerStores, WorkerExits, hands
  <2>. QED  BY <1>1, <2>1, <2>2 DEF Drained
<1>11. CASE Health \/ UNCHANGED vars
  BY <1>2, <1>11, <1>13 DEF Health, vars, hands
<1>. QED  BY <1>3, <1>4, <1>5, <1>6, <1>7, <1>8, <1>9, <1>10, <1>11 DEF Next

\* The invariant of Stop.
LEMMA StopInvariant == Spec => [](CoreInv /\ StopOrder)
<1>1. Init => StopOrder
  BY DEF Init, StopOrder
<1>2. CoreInv /\ StopOrder /\ [Next]_vars => StopOrder'
  BY StepStopOrder
<1>. QED  BY <1>1, <1>2, CoreInvariant, PTL DEF Spec

\* When Engine.Stop has returned to any of its callers, the broker is closed and
\* no goroutine holds a job, nor one that a concurrent Start launches later.
THEOREM StopReturnsDrained == Spec => []StoppedHoldsNoJob
<1>1. CoreInv /\ StopOrder => StoppedHoldsNoJob
  BY DEF CoreInv, StopOrder, StoppedHoldsNoJob, HandsRunning, Drained
<1>. QED  BY <1>1, StopInvariant, PTL

-----------------------------------------------------------------------------
(* The setters take effect. *)

\* Every step keeps what the setters promise: the ones that are checked are
\* refused once a worker can be busy.
LEMMA StepSetters ==
  ASSUME CoreInv, SettersTakeEffect, [Next]_vars
  PROVE  SettersTakeEffect'
<1>0. /\ HandsRunning /\ StartOrder /\ JobsType /\ TasksType
      /\ \A w \in Workers : w \in Goroutines
      /\ worker \in [Workers -> [pc : {"idle", "begin", "execute", "perform", "failed",
                                      "schedule", "store"}, job : JIDs \cup {NoJob}]]
  BY DEF CoreInv, TypeOK, Goroutines, JobsType
<1>1. \A w \in Workers : worker[w].pc # "idle" =>
                          processorStarted /\ engineStarted /\ handler = chain
  BY <1>0 DEF HandsRunning, StartOrder
<1>2. ASSUME UNCHANGED <<worker, handler, chain, validator>>
      PROVE  SettersTakeEffect'
  BY <1>2 DEF SettersTakeEffect
<1>3. CASE Setters
  <2>1. UNCHANGED <<worker, handler>>
    BY <1>3 DEF Setters, Use, SetValidator, SetDefaultValidator, Register,
                SetMetricsHandler, SetupOnly, hands, started
  <2>2. engineStarted => UNCHANGED <<chain, validator>>
    BY <1>3 DEF Setters, Use, SetValidator, SetDefaultValidator, Register, SetMetricsHandler
  <2>. QED  BY <1>1, <2>1, <2>2 DEF SettersTakeEffect
<1>4. ASSUME NEW s \in Starters, Starter(s)
      PROVE  SettersTakeEffect'
  <2>1. UNCHANGED <<worker, chain, validator>>
    BY <1>4 DEF Starter, EngineStart, ProcessorStart, Launch, setup, hands
  <2>2. processorStarted => UNCHANGED handler
    BY <1>4 DEF Starter, EngineStart, ProcessorStart, Launch
  <2>. QED  BY <1>1, <2>1, <2>2 DEF SettersTakeEffect
<1>5. ASSUME NEW s \in Stoppers, Stopping(StopCalled, s) \/ Stopping(StopProceeds, s)
      PROVE  SettersTakeEffect'
  BY <1>2, <1>5 DEF Stopping, setup, started, hands
<1>6. ASSUME NEW g \in Loops, LoopExits(g)
      PROVE  SettersTakeEffect'
  BY <1>2, <1>6 DEF LoopExits, setup, started, hands
<1>7. CASE MetricsReceive \/ MetricsHandle
  BY <1>2, <1>7 DEF MetricsReceive, MetricsHandle, setup, started, hands
<1>8. CASE Fetcher
  <2>1. UNCHANGED <<handler, chain, validator>>
    BY <1>8 DEF Fetcher, FetcherTop, FetcherPoll, FetcherSend, FetcherHandBack, setup, started
  <2>2. \A w \in Workers : worker'[w] = worker[w] \/ worker'[w].pc = "begin"
    BY <1>0, <1>8 DEF Fetcher, FetcherTop, FetcherPoll, FetcherSend, FetcherHandBack
  <2>. QED  BY <2>1, <2>2 DEF SettersTakeEffect
<1>9. CASE RetryMoves
  BY <1>2, <1>9 DEF RetryMoves, setup, started, hands
<1>10. ASSUME NEW w \in Workers, Worker(w)
       PROVE  SettersTakeEffect'
  <2>1. UNCHANGED <<handler, chain, validator, defaultValidator>>
    BY <1>10 DEF Worker, WorkerBegins, WorkerExecutes, JobSucceeds, JobFails, WorkerReports,
                 WorkerStores, WorkerExits, Processing, setup, started
  <2>2. \A v \in Workers \ {w} : worker'[v] = worker[v]
    BY <1>0, <1>10 DEF Worker, WorkerBegins, WorkerExecutes, JobSucceeds, JobFails, WorkerReports,
                 WorkerStores, WorkerExits, WorkerGoes, hands
  <2>3. CASE WorkerBegins(w)
    <3>1. worker'[w].pc = "execute" /\ worker[w].pc = "begin"
      BY <1>0, <2>3 DEF WorkerBegins, WorkerGoes
    <3>. QED  BY <1>1, <2>1, <2>2, <3>1 DEF SettersTakeEffect
  <2>4. CASE WorkerExecutes(w)
    <3>1. /\ worker[w].pc = "execute" /\ worker'[w].job = worker[w].job
          /\ worker'[w].pc = "perform" =>
               (EffectiveValidator = "strict" => worker[w].job \in ValidJobs)
      BY <1>0, <2>4 DEF WorkerExecutes, WorkerGoes
    <3>. QED  BY <1>1, <2>1, <2>2, <3>1 DEF SettersTakeEffect, EffectiveValidator
  <2>5. CASE JobSucceeds(w) \/ JobFails(w) \/ WorkerReports(w) \/ WorkerStores(w)
    <3>1. worker'[w].pc \notin {"execute", "perform"}
      BY <1>0, <2>5 DEF JobSucceeds, JobFails, WorkerReports, WorkerStores, WorkerGoes
    <3>. QED  BY <2>1, <2>2, <3>1 DEF SettersTakeEffect
  <2>6. CASE WorkerExits(w)
    BY <1>2, <2>1, <2>6 DEF WorkerExits, hands
  <2>. QED  BY <1>10, <2>3, <2>4, <2>5, <2>6 DEF Worker
<1>11. CASE Health \/ UNCHANGED vars
  BY <1>2, <1>11 DEF Health, vars, setup, started, hands
<1>. QED  BY <1>3, <1>4, <1>5, <1>6, <1>7, <1>8, <1>9, <1>10, <1>11 DEF Next

\* What Use and SetValidator accepted applies to every job: the handler wraps the
\* whole chain although two mutexes guard the two, and no rejected job performs.
THEOREM AcceptedSettersApply == Spec => []SettersTakeEffect
<1>1. Init => SettersTakeEffect
  BY DEF Init, SettersTakeEffect
<1>2. CoreInv /\ SettersTakeEffect /\ [Next]_vars => SettersTakeEffect'
  BY StepSetters
<1>. QED  BY <1>1, <1>2, CoreInvariant, PTL DEF Spec

-----------------------------------------------------------------------------
(* Health. *)

\* Every step keeps what a call of Health relies on.
LEMMA StepHealth ==
  ASSUME CoreInv, StopOrder, HealthInv, [Next]_vars
  PROVE  HealthInv'
<1>0. /\ StartOrder /\ {closed, engineStarted} \subseteq BOOLEAN
      /\ \A s \in Stoppers : stopper[s] = "returned" => closed
  BY DEF CoreInv, TypeOK, LifeType, StopOrder
<1>1. ASSUME UNCHANGED prober, closed => closed'
      PROVE  HealthInv'
  BY <1>1 DEF HealthInv, HealthTruthful
<1>2. CASE Health
  <2>1. UNCHANGED closed
    BY <1>2 DEF Health, stopped
  <2>2. CASE HealthReads
    <3>1. prober' = [pc |-> "ping", started |-> engineStarted, status |-> "none", since |-> Moment]
      BY <2>2 DEF HealthReads
    <3>2. Moment = "stopped" => closed
      BY <1>0 DEF Moment
    <3>3. Moment = "started" => engineStarted
      BY <1>0 DEF Moment, StartOrder
    <3>4. Moment \in {"none", "started", "stopped"}
      BY DEF Moment
    <3>. QED  BY <1>0, <2>1, <3>1, <3>2, <3>3, <3>4 DEF HealthInv, HealthTruthful
  <2>3. CASE HealthPings
    <3>1. PICK reachable \in BOOLEAN :
            /\ closed => ~reachable
            /\ prober' = [prober EXCEPT !.pc = "answered",
                 !.status = IF ~reachable THEN "unreachable"
                            ELSE IF prober.started THEN "ok" ELSE "not started"]
      BY <2>3 DEF HealthPings
    <3>. QED  BY <2>1, <3>1 DEF HealthInv, HealthTruthful
  <2>4. CASE HealthReturns
    BY <2>1, <2>4 DEF HealthReturns, NoCall, HealthInv, HealthTruthful
  <2>. QED  BY <1>2, <2>2, <2>3, <2>4 DEF Health
<1>3. CASE UNCHANGED prober
  <2>1. closed => closed'
    <3>1. CASE UNCHANGED stopped
      BY <3>1 DEF stopped
    <3>2. ASSUME NEW s \in Stoppers, Stopping(StopCalled, s) \/ Stopping(StopProceeds, s)
          PROVE  closed => closed'
      BY <3>2 DEF Stopping, StopCalled, StopProceeds, StopOnce, StopWaits, StopWakes, StopCloses
    <3>3. \/ UNCHANGED stopped
          \/ \E s \in Stoppers : Stopping(StopCalled, s) \/ Stopping(StopProceeds, s)
      BY DEF Next, Setters, Use, SetValidator, SetDefaultValidator, Register, SetMetricsHandler,
             SetupOnly, Starter, EngineStart, ProcessorStart, Launch, LoopExits, MetricsReceive,
             MetricsHandle, Fetcher, FetcherTop, FetcherPoll, FetcherSend, FetcherHandBack,
             RetryMoves, Worker, WorkerBegins, WorkerExecutes, JobSucceeds, JobFails,
             WorkerReports, WorkerStores, WorkerExits, Processing, Health, vars
    <3>. QED  BY <3>1, <3>2, <3>3
  <2>. QED  BY <1>1, <1>3, <2>1
<1>4. UNCHANGED prober \/ Health
  BY DEF Next, Setters, Use, SetValidator, SetDefaultValidator, Register, SetMetricsHandler,
         SetupOnly, Starter, EngineStart, ProcessorStart, Launch, Stopping, LoopExits,
         MetricsReceive, MetricsHandle, Fetcher, FetcherTop, FetcherPoll, FetcherSend,
         FetcherHandBack, RetryMoves, Worker, WorkerBegins, WorkerExecutes, JobSucceeds, JobFails,
         WorkerReports, WorkerStores, WorkerExits, Processing, vars
<1>. QED  BY <1>2, <1>3, <1>4

\* Health, which reads Engine.started and then pings the broker, never says "ok"
\* of an engine whose Stop had returned or that nobody started, nor "not
\* started" of one whose Start had returned, when the call began.
THEOREM HealthAnswersTruthfully == Spec => []HealthTruthful
<1>1. Init => HealthInv
  BY DEF Init, HealthInv, HealthTruthful, NoCall
<1>2. CoreInv /\ StopOrder /\ HealthInv /\ [Next]_vars => HealthInv'
  BY StepHealth
<1>3. HealthInv => HealthTruthful
  BY DEF HealthInv
<1>. QED  BY <1>1, <1>2, <1>3, StopInvariant, PTL DEF Spec

-----------------------------------------------------------------------------
(* The accounts of the metrics. *)

\* One more event in a channel.
LEMMA QueuedAppend ==
  ASSUME NEW c \in Seq(JobEvent), NEW e \in JobEvent, NEW t
  PROVE  /\ Count(c, t) \in Nat
         /\ Count(Append(c, e), t) = Count(c, t) + IF t = e.type THEN 1 ELSE 0
<1>. DEFINE A == {i \in 1..Len(c) : c[i].type = t}
            d == Append(c, e)
            B == {i \in 1..Len(d) : d[i].type = t}
<1>1. /\ d \in Seq(JobEvent) /\ Len(d) = Len(c) + 1 /\ Len(c) \in Nat
      /\ \A i \in 1..Len(c) : d[i] = c[i]
      /\ d[Len(c) + 1] = e /\ DOMAIN d = 1..Len(d) /\ DOMAIN c = 1..Len(c)
  BY AppendProperties
<1>. HIDE DEF d
<1>2. IsFiniteSet(A) /\ Cardinality(A) \in Nat
  <2>1. IsFiniteSet(1..Len(c))
    BY <1>1, FS_Interval
  <2>. QED  BY <2>1, FS_Subset, FS_CardinalityType
<1>3. Len(c) + 1 \notin A
  BY <1>1
<1>4. B = IF e.type = t THEN A \cup {Len(c) + 1} ELSE A
  <2>1. \A i \in 1..Len(d) : i \in 1..Len(c) \/ i = Len(c) + 1
    BY <1>1
  <2>2. \A i \in 1..Len(c) : i \in 1..Len(d)
    BY <1>1
  <2>3. Len(c) + 1 \in 1..Len(d)
    BY <1>1
  <2>. QED  BY <1>1, <2>1, <2>2, <2>3
<1>. HIDE DEF A, B
<1>5. Cardinality(A \cup {Len(c) + 1}) = Cardinality(A) + 1
  BY <1>2, <1>3, FS_AddElement
<1>6. Cardinality(B) = Cardinality(A) + IF t = e.type THEN 1 ELSE 0
  BY <1>2, <1>4, <1>5
<1>7. Count(c, t) = Cardinality(A) /\ Count(d, t) = Cardinality(B)
  BY <1>1 DEF A, B, Count
<1>. QED  BY <1>2, <1>6, <1>7 DEF d

\* One event less, at the front.
LEMMA QueuedTail ==
  ASSUME NEW c \in Seq(JobEvent), NEW d \in Seq(JobEvent), NEW t, Len(c) > 0,
         Len(d) = Len(c) - 1, \A i \in 1..Len(d) : d[i] = c[i + 1]
  PROVE  /\ Count(d, t) \in Nat
         /\ Count(c, t) = Count(d, t) + IF t = c[1].type THEN 1 ELSE 0
<1>. DEFINE A == {i \in 1..Len(c) : c[i].type = t}
            B == {i \in 1..Len(d) : d[i].type = t}
            f == [i \in B |-> i + 1]
<1>1. DOMAIN c = 1..Len(c) /\ DOMAIN d = 1..Len(d) /\ Len(c) \in Nat /\ Len(d) \in Nat
  OBVIOUS
<1>2. IsFiniteSet(A) /\ Cardinality(A) \in Nat /\ IsFiniteSet(B) /\ Cardinality(B) \in Nat
  <2>1. IsFiniteSet(1..Len(c)) /\ IsFiniteSet(1..Len(d))
    BY <1>1, FS_Interval
  <2>. QED  BY <2>1, FS_Subset, FS_CardinalityType
<1>3. \A i \in B : i + 1 \in A \ {1}
  BY <1>1
<1>4. \A j \in A \ {1} : j - 1 \in B
  <2>. SUFFICES ASSUME NEW j \in A \ {1} PROVE j - 1 \in B
    OBVIOUS
  <2>1. j - 1 \in 1..Len(d) /\ j - 1 + 1 = j
    BY <1>1
  <2>2. d[j - 1] = c[j]
    BY <2>1
  <2>. QED  BY <2>1, <2>2
<1>5. ExistsBijection(B, A \ {1})
  <2>1. f \in [B -> A \ {1}]
    BY <1>3
  <2>2. \A i, j \in B : f[i] = f[j] => i = j
    BY <1>1
  <2>3. \A j \in A \ {1} : \E i \in B : f[i] = j
    <3>. SUFFICES ASSUME NEW j \in A \ {1} PROVE \E i \in B : f[i] = j
      OBVIOUS
    <3>1. j - 1 \in B /\ j - 1 + 1 = j
      BY <1>1, <1>4
    <3>. QED  BY <3>1
  <2>. HIDE DEF A, B, f
  <2>4. DOMAIN f = B
    BY <2>1
  <2>5. f \in Bijection(B, A \ {1})
    BY <2>1, <2>2, <2>3, <2>4 DEF Bijection, Injection, Surjection, IsInjective
  <2>. QED  BY <2>5 DEF ExistsBijection
<1>6. Cardinality(A \ {1}) = Cardinality(B)
  <2>. HIDE DEF A, B
  <2>. QED  BY <1>2, <1>5, FS_Bijection
<1>7. 1 \in A <=> c[1].type = t
  BY <1>1
<1>. HIDE DEF A, B
<1>8. Cardinality(A \ {1}) = IF 1 \in A THEN Cardinality(A) - 1 ELSE Cardinality(A)
  BY <1>2, FS_RemoveElement
<1>9. Cardinality(A) = Cardinality(B) + IF t = c[1].type THEN 1 ELSE 0
  BY <1>2, <1>6, <1>7, <1>8
<1>10. Count(c, t) = Cardinality(A) /\ Count(d, t) = Cardinality(B)
  BY <1>1 DEF A, B, Count
<1>. QED  BY <1>2, <1>9, <1>10

\* A worker sends an event: it is in the channel, or counted as lost.
LEMMA EmitAccounts ==
  ASSUME CoreInv, ChannelInv, NEW type \in EventType, NEW jid \in JIDs,
         EmitEvent(type, jid), UNCHANGED metering
  PROVE  ChannelInv'
<1>0. ChannelType /\ retryCount \in [JIDs -> 0..Retry + 1] /\ Capacity \in Nat
  BY EngineAssumption DEF CoreInv, TypeOK, JobsType
<1>1. UNCHANGED <<handling, totals>>
  BY DEF metering
<1>2. CASE events = NoChannel
  BY <1>1, <1>2 DEF EmitEvent, channel, ChannelInv, EventsAccounted
<1>3. CASE events # NoChannel
  <2>. DEFINE e == NewEvent(type, jid)
  <2>1. e \in JobEvent /\ e.type = type
    BY <1>0, EngineAssumption DEF NewEvent, JobEvent
  <2>2. /\ events \in Seq(JobEvent) /\ totals \in [Outcome -> Nat]
        /\ lost \in [Outcome -> Nat] /\ outcomes \in [Outcome -> Nat]
    BY <1>0, <1>3 DEF ChannelType
  <2>3. Send(e) /\ outcomes' = Add(outcomes, type)
    BY <1>3 DEF EmitEvent
  <2>4. events' # NoChannel
    BY <1>0, <1>3, EmitType
  <2>. HIDE DEF e
  <2>5. ASSUME NEW t \in Outcome
        PROVE  totals'[t] + InHand(t)' + Count(events', t) + lost'[t] = outcomes'[t]
    <3>1. totals[t] + InHand(t) + Count(events, t) + lost[t] = outcomes[t]
      BY <1>3 DEF ChannelInv, EventsAccounted
    <3>2. InHand(t)' = InHand(t) /\ InHand(t) \in Nat
      BY <1>1 DEF InHand
    <3>3. outcomes'[t] = outcomes[t] + IF t = type THEN 1 ELSE 0
      BY <2>2, <2>3, AddType
    <3>4. Count(events, t) \in Nat
      BY <2>1, <2>2, QueuedAppend
    <3>5. CASE Len(events) < Capacity
      <4>1. events' = Append(events, e) /\ UNCHANGED lost
        BY <2>3, <3>5 DEF Send
      <4>2. Count(events', t) = Count(events, t) + IF t = type THEN 1 ELSE 0
        BY <2>1, <2>2, <4>1, QueuedAppend
      <4>. QED  BY <1>1, <2>1, <2>2, <3>1, <3>2, <3>3, <3>4, <4>1, <4>2
    <3>6. CASE ~(Len(events) < Capacity)
      <4>1. lost' = Add(lost, type) /\ UNCHANGED events
        BY <2>1, <2>3, <3>6 DEF Send
      <4>2. Count(events', t) = Count(events, t)
        BY <4>1
      <4>3. lost'[t] = lost[t] + IF t = type THEN 1 ELSE 0
        BY <2>2, <4>1, AddType
      <4>. QED  BY <1>1, <2>2, <3>1, <3>2, <3>3, <3>4, <4>2, <4>3
    <3>. QED  BY <3>5, <3>6
  <2>. QED  BY <2>4, <2>5 DEF ChannelInv, EventsAccounted
<1>. QED  BY <1>2, <1>3

\* Steps that neither send nor handle an event leave the accounts alone.
LEMMA QuietSteps ==
  ASSUME [Next]_vars
  PROVE  \/ UNCHANGED <<channel, metering>>
         \/ MetricsReceive \/ MetricsHandle
         \/ \E h \in BOOLEAN : SetMetricsHandler(h)
         \/ \E w \in Workers : \/ WorkerBegins(w) \/ JobSucceeds(w)
                              \/ JobFails(w) \/ WorkerReports(w)
<1>1. ASSUME Setters
      PROVE  UNCHANGED <<channel, metering>> \/ \E h \in BOOLEAN : SetMetricsHandler(h)
  BY <1>1 DEF Setters, Use, SetValidator, SetDefaultValidator, Register, SetupOnly, channel
<1>2. ASSUME NEW s \in Starters, Starter(s)
      PROVE  UNCHANGED <<channel, metering>>
  BY <1>2 DEF Starter, EngineStart, ProcessorStart, Launch
<1>3. ASSUME NEW s \in Stoppers, Stopping(StopCalled, s) \/ Stopping(StopProceeds, s)
      PROVE  UNCHANGED <<channel, metering>>
  BY <1>3 DEF Stopping
<1>4. ASSUME Fetcher \/ RetryMoves \/ Health \/ UNCHANGED vars \/ \E g \in Loops : LoopExits(g)
      PROVE  UNCHANGED <<channel, metering>>
  BY <1>4 DEF Fetcher, FetcherTop, FetcherPoll, FetcherSend, FetcherHandBack, RetryMoves,
              Health, LoopExits, vars
<1>5. ASSUME NEW w \in Workers, WorkerExecutes(w) \/ WorkerStores(w) \/ WorkerExits(w)
      PROVE  UNCHANGED <<channel, metering>>
  BY <1>5 DEF WorkerExecutes, WorkerStores, WorkerExits, Processing
<1>. QED  BY <1>1, <1>2, <1>3, <1>4, <1>5 DEF Next, Worker

\* Every step keeps the accounts.
LEMMA StepAccounts ==
  ASSUME CoreInv, ChannelInv, [Next]_vars
  PROVE  ChannelInv'
<1>0. ChannelType /\ StartOrder /\ {totals, outcomes, lost} \subseteq [Outcome -> Nat]
      /\ NoJob \notin JobEvent
  BY EngineAssumption DEF CoreInv, TypeOK, ChannelType
<1>1. CASE UNCHANGED <<channel, metering>>
  BY <1>1 DEF channel, metering, ChannelInv, EventsAccounted, InHand
<1>2. CASE MetricsReceive
  <2>1. events # NoChannel
    BY <1>0, <1>2 DEF MetricsReceive, StartOrder
  <2>2. /\ events' # NoChannel /\ handling' \in JobEvent /\ handling' = events[1]
        /\ events \in Seq(JobEvent) /\ Len(events) > 0 /\ events' \in Seq(JobEvent)
        /\ Len(events') = Len(events) - 1
        /\ \A i \in 1..Len(events') : events'[i] = events[i + 1]
    BY <1>0, <1>2, <2>1, ReceiveType
  <2>3. handling = NoJob /\ UNCHANGED <<totals, outcomes, lost>>
    BY <1>2 DEF MetricsReceive
  <2>4. ASSUME NEW t \in Outcome
        PROVE  totals'[t] + InHand(t)' + Count(events', t) + lost'[t] = outcomes'[t]
    <3>1. totals[t] + InHand(t) + Count(events, t) + lost[t] = outcomes[t]
      BY <2>1 DEF ChannelInv, EventsAccounted
    <3>2. Count(events', t) \in Nat /\ Count(events, t) = Count(events', t) +
                                        IF t = events[1].type THEN 1 ELSE 0
      BY <2>2, QueuedTail
    <3>3. InHand(t) = 0 /\ InHand(t)' = IF t = events[1].type THEN 1 ELSE 0
      BY <1>0, <2>2, <2>3 DEF InHand
    <3>4. totals[t] \in Nat /\ lost[t] \in Nat /\ outcomes[t] \in Nat
      BY <1>0
    <3>. QED  BY <2>3, <3>1, <3>2, <3>3, <3>4
  <2>. QED  BY <2>2, <2>4 DEF ChannelInv, EventsAccounted
<1>3. CASE MetricsHandle
  <2>1. /\ handling # NoJob /\ handling' = NoJob /\ UNCHANGED <<events, outcomes>>
        /\ \/ totals' = Add(totals, handling.type) /\ UNCHANGED lost
           \/ lost' = Add(lost, handling.type) /\ UNCHANGED totals
    BY <1>3 DEF MetricsHandle
  <2>2. events # NoChannel /\ events \in Seq(JobEvent) /\ handling \in JobEvent
    BY <1>0, <2>1 DEF ChannelInv, ChannelType
  <2>3. ASSUME NEW t \in Outcome
        PROVE  totals'[t] + InHand(t)' + Count(events', t) + lost'[t] = outcomes'[t]
    <3>1. totals[t] + InHand(t) + Count(events, t) + lost[t] = outcomes[t]
      BY <2>2 DEF ChannelInv, EventsAccounted
    <3>2. Count(events', t) = Count(events, t) /\ Count(events, t) \in Nat
      BY <2>1, <2>2, QueuedAppend
    <3>3. InHand(t) = (IF t = handling.type THEN 1 ELSE 0) /\ InHand(t)' = 0
      BY <2>1 DEF InHand
    <3>4. totals[t] \in Nat /\ lost[t] \in Nat /\ outcomes[t] \in Nat
      BY <1>0
    <3>5. /\ Add(totals, handling.type)[t] = totals[t] + IF t = handling.type THEN 1 ELSE 0
          /\ Add(lost, handling.type)[t] = lost[t] + IF t = handling.type THEN 1 ELSE 0
      BY <1>0, AddType
    <3>. QED  BY <2>1, <3>1, <3>2, <3>3, <3>4, <3>5
  <2>. QED  BY <2>1, <2>2, <2>3 DEF ChannelInv, EventsAccounted
<1>4. ASSUME NEW h \in BOOLEAN, SetMetricsHandler(h)
      PROVE  ChannelInv'
  <2>1. /\ events' = IF h /\ events = NoChannel THEN <<>> ELSE events
        /\ UNCHANGED <<handling, totals, outcomes, lost>>
    BY <1>4 DEF SetMetricsHandler, SetupOnly, metering
  <2>2. CASE events' = events
    BY <2>1, <2>2 DEF ChannelInv, EventsAccounted, InHand
  <2>3. CASE events = NoChannel /\ events' = <<>>
    <3>1. <<>> \in Seq(JobEvent)
      OBVIOUS
    <3>2. events' # NoChannel
      BY <2>3, <3>1, EngineAssumption, Zenon
    <3>3. \A t : {i \in DOMAIN <<>> : <<>>[i].type = t} = {}
      OBVIOUS
    <3>4. \A t : Count(<<>>, t) = 0
      BY <3>3, FS_EmptySet DEF Count
    <3>5. /\ handling = NoJob /\ totals = [t \in Outcome |-> 0]
          /\ lost = [t \in Outcome |-> 0] /\ outcomes = [t \in Outcome |-> 0]
      BY <2>3 DEF ChannelInv
    <3>6. \A t \in Outcome :
            /\ totals'[t] = 0 /\ lost'[t] = 0 /\ outcomes'[t] = 0 /\ InHand(t)' = 0
            /\ Count(events', t) = 0
      BY <2>1, <2>3, <3>4, <3>5 DEF InHand
    <3>7. \A t \in Outcome :
            totals'[t] + InHand(t)' + Count(events', t) + lost'[t] = outcomes'[t]
      BY <3>6
    <3>. QED  BY <3>2, <3>7 DEF ChannelInv, EventsAccounted
  <2>. QED  BY <2>1, <2>2, <2>3
<1>5. ASSUME NEW w \in Workers,
             WorkerBegins(w) \/ JobSucceeds(w) \/ JobFails(w) \/ WorkerReports(w)
      PROVE  ChannelInv'
  <2>1. worker[w].pc # "idle" /\ UNCHANGED metering
    BY <1>5 DEF WorkerBegins, JobSucceeds, JobFails, WorkerReports, Processing
  <2>2. worker[w].job \in JIDs
    BY <2>1, BusyWorker
  <2>3. \E type \in EventType : EmitEvent(type, worker[w].job)
    BY <1>5 DEF WorkerBegins, JobSucceeds, JobFails, WorkerReports, EventType, Outcome
  <2>. QED  BY <2>1, <2>2, <2>3, EmitAccounts
<1>. QED  BY <1>1, <1>2, <1>3, <1>4, <1>5, QuietSteps

\* Every result that a worker reports is in exactly one of three places: counted
\* by InMemoryMetrics, on its way in the channel or with metricsLoop, or dropped
\* at the full channel or by a nil handler.
THEOREM MetricsAccountForResults == Spec => []EventsAccounted
<1>1. Init => ChannelInv
  BY DEF Init, ChannelInv, EventsAccounted
<1>2. CoreInv /\ ChannelInv /\ [Next]_vars => ChannelInv'
  BY StepAccounts
<1>3. ChannelInv => EventsAccounted
  BY DEF ChannelInv
<1>. QED  BY <1>1, <1>2, <1>3, CoreInvariant, PTL DEF Spec

-----------------------------------------------------------------------------
(* The order of the events of a job. *)

\* A later rank is later still.
LEMMA BeforeLater ==
  ASSUME NEW s \in [JIDs -> Int], NEW h \in JobEvent \cup {NoJob}, NEW c,
         c # NoChannel => c \in Seq(JobEvent), NEW jid \in JIDs,
         NEW rank \in Int, NEW later \in Int, rank <= later, Before(s, h, c, jid, rank)
  PROVE  Before(s, h, c, jid, later)
<1>1. s[jid] < later
  BY DEF Before
<1>2. h # NoJob /\ h.jid = jid => Rank(h) < later
  BY RankType DEF Before
<1>3. ASSUME c # NoChannel, NEW i \in 1..Len(c), c[i].jid = jid
      PROVE  Rank(c[i]) < later
  <2>1. c[i] \in JobEvent
    BY <1>3
  <2>2. Rank(c[i]) \in Nat /\ Rank(c[i]) < rank
    BY <1>3, <2>1, RankType DEF Before
  <2>. QED  BY <2>2
<1>. QED  BY <1>1, <1>2, <1>3 DEF Before

\* An event of another job is sent.
LEMMA BeforeOther ==
  ASSUME NEW s, NEW h, NEW c \in Seq(JobEvent), NEW e \in JobEvent,
         NEW jid, NEW rank, jid # e.jid, c # NoChannel, Before(s, h, c, jid, rank)
  PROVE  Before(s, h, Append(c, e), jid, rank)
<1>1. /\ Len(Append(c, e)) = Len(c) + 1 /\ Len(c) \in Nat
      /\ \A i \in 1..Len(c) : Append(c, e)[i] = c[i]
      /\ Append(c, e)[Len(c) + 1] = e
  BY AppendProperties
<1>2. ASSUME NEW i \in 1..Len(Append(c, e)), Append(c, e)[i].jid = jid
      PROVE  Rank(Append(c, e)[i]) < rank
  <2>1. i \in 1..Len(c)
    BY <1>1, <1>2
  <2>. QED  BY <1>1, <1>2, <2>1 DEF Before
<1>. QED  BY <1>2 DEF Before

\* The next event of a job is sent.
LEMMA SendInOrder ==
  ASSUME NEW s \in [JIDs -> Int], NEW h \in JobEvent \cup {NoJob}, NEW c \in Seq(JobEvent),
         c # NoChannel, NEW e \in JobEvent, Ordered(s, h, c), Before(s, h, c, e.jid, Rank(e))
  PROVE  /\ Ordered(s, h, Append(c, e))
         /\ Before(s, h, Append(c, e), e.jid, Rank(e) + 1)
<1>. DEFINE d == Append(c, e)
<1>1. /\ Len(d) = Len(c) + 1 /\ Len(c) \in Nat
      /\ \A i \in 1..Len(c) : d[i] = c[i]
      /\ d[Len(c) + 1] = e
  BY AppendProperties
<1>2. e.jid \in JIDs /\ Rank(e) \in Nat
  BY RankType DEF JobEvent
<1>. HIDE DEF d
<1>3. ASSUME NEW i \in 1..Len(d)
      PROVE  \/ i \in 1..Len(c) /\ d[i] = c[i]
             \/ i = Len(c) + 1 /\ d[i] = e
  <2>1. i \in 1..Len(c) \/ i = Len(c) + 1
    BY <1>1
  <2>. QED  BY <1>1, <2>1
<1>4. Before(s, h, c, e.jid, Rank(e) + 1)
  BY <1>2, BeforeLater
<1>5. Before(s, h, d, e.jid, Rank(e) + 1)
  BY <1>2, <1>3, <1>4 DEF Before
<1>6. ASSUME NEW i \in 1..Len(d)
      PROVE  /\ s[d[i].jid] < Rank(d[i])
             /\ h # NoJob /\ h.jid = d[i].jid => Rank(h) < Rank(d[i])
  BY <1>3 DEF Ordered, Before
<1>7. ASSUME NEW i \in 1..Len(d), NEW j \in 1..Len(d), i < j, d[i].jid = d[j].jid
      PROVE  Rank(d[i]) < Rank(d[j])
  <2>1. i \in 1..Len(c) /\ d[i] = c[i]
    BY <1>1, <1>3, <1>7
  <2>2. CASE j \in 1..Len(c) /\ d[j] = c[j]
    BY <1>7, <2>1, <2>2 DEF Ordered
  <2>3. CASE d[j] = e
    BY <1>7, <2>1, <2>3 DEF Before
  <2>. QED  BY <1>3, <2>2, <2>3
<1>. QED  BY <1>5, <1>6, <1>7 DEF Ordered, d

\* metricsLoop takes the first event.
LEMMA ReceiveInOrder ==
  ASSUME NEW s, NEW c \in Seq(JobEvent), NEW d \in Seq(JobEvent), c # NoChannel,
         c[1] \in JobEvent, Len(c) > 0,
         Len(d) = Len(c) - 1, \A i \in 1..Len(d) : d[i] = c[i + 1]
  PROVE  /\ Ordered(s, NoJob, c) => Ordered(s, c[1], d)
         /\ \A jid, rank : Before(s, NoJob, c, jid, rank) => Before(s, c[1], d, jid, rank)
<1>1. Len(c) \in Nat /\ Len(d) \in Nat /\ 1 \in 1..Len(c)
  OBVIOUS
<1>2. \A i \in 1..Len(d) : i + 1 \in 1..Len(c) /\ d[i] = c[i + 1] /\ 1 < i + 1
  BY <1>1
<1>3. \A i, j \in 1..Len(d) : i < j => i + 1 < j + 1
  BY <1>1
<1>4. ASSUME Ordered(s, NoJob, c)
      PROVE  Ordered(s, c[1], d)
  <2>1. s[c[1].jid] < Rank(c[1])
    BY <1>1, <1>4 DEF Ordered
  <2>2. ASSUME NEW i \in 1..Len(d)
        PROVE  /\ s[d[i].jid] < Rank(d[i])
               /\ c[1].jid = d[i].jid => Rank(c[1]) < Rank(d[i])
    BY <1>1, <1>2, <1>4 DEF Ordered
  <2>3. ASSUME NEW i \in 1..Len(d), NEW j \in 1..Len(d), i < j, d[i].jid = d[j].jid
        PROVE  Rank(d[i]) < Rank(d[j])
    <3>1. /\ i + 1 \in 1..Len(c) /\ j + 1 \in 1..Len(c) /\ i + 1 < j + 1
          /\ d[i] = c[i + 1] /\ d[j] = c[j + 1]
      BY <1>2, <1>3, <2>3
    <3>. QED  BY <1>4, <2>3, <3>1 DEF Ordered
  <2>. QED  BY <2>1, <2>2, <2>3 DEF Ordered
<1>5. ASSUME NEW jid, NEW rank, Before(s, NoJob, c, jid, rank)
      PROVE  Before(s, c[1], d, jid, rank)
  BY <1>1, <1>2, <1>5 DEF Before
<1>. QED  BY <1>4, <1>5

\* metricsLoop has handled an event, or it was lost on a nil handler.
LEMMA HandleInOrder ==
  ASSUME NEW s \in [JIDs -> Int], NEW h \in JobEvent, h # NoJob, NEW c,
         c # NoChannel => c \in Seq(JobEvent),
         NEW r \in [JIDs -> Int], r = s \/ r = [s EXCEPT ![h.jid] = Rank(h)]
  PROVE  /\ Ordered(s, h, c) => Ordered(r, NoJob, c)
         /\ \A jid \in JIDs : \A rank : Before(s, h, c, jid, rank) => Before(r, NoJob, c, jid, rank)
<1>1. ASSUME NEW jid \in JIDs
      PROVE  r[jid] = s[jid] \/ (h.jid = jid /\ r[jid] = Rank(h))
  BY <1>1
<1>2. ASSUME Ordered(s, h, c)
      PROVE  Ordered(r, NoJob, c)
  <2>. SUFFICES ASSUME c # NoChannel, NEW i \in 1..Len(c)
                PROVE  /\ r[c[i].jid] < Rank(c[i])
                       /\ \A j \in 1..Len(c) : i < j /\ c[i].jid = c[j].jid => Rank(c[i]) < Rank(c[j])
    BY DEF Ordered
  <2>1. c[i].jid \in JIDs
    <3>1. c[i] \in JobEvent
      OBVIOUS
    <3>. QED  BY <3>1 DEF JobEvent
  <2>. QED  BY <1>1, <1>2, <2>1 DEF Ordered
<1>3. ASSUME NEW jid \in JIDs, NEW rank, Before(s, h, c, jid, rank)
      PROVE  Before(r, NoJob, c, jid, rank)
  BY <1>1, <1>3 DEF Before
<1>. QED  BY <1>2, <1>3

\* The ranks that are due.
LEMMA DueType ==
  ASSUME NEW n \in Nat
  PROVE  /\ Due(n, "begin") = 3 * n
         /\ \A pc \in {"execute", "perform", "failed"} : Due(n, pc) = 3 * n + 1
         /\ Due(n, "schedule") = 3 * n + 2
         /\ Due(n, "store") = 3 * n + 3
BY DEF Due

\* A worker sends the event that is due and goes on, or is through.
LEMMA WorkerSendsInOrder ==
  ASSUME CoreInv, OrderInv, NEW w \in Workers, worker[w].pc # "idle",
         NEW type \in EventType, EmitEvent(type, worker[w].job), UNCHANGED <<metering, jobs, fetcher>>,
         Rank(NewEvent(type, worker[w].job)) = Due(retryCount[worker[w].job], worker[w].pc),
         \/ /\ WorkerGoes(w, "idle", NoJob)
         \/ \E pc \in {"execute", "schedule", "store"} :
              /\ WorkerGoes(w, pc, worker[w].job)
              /\ Due(retryCount[worker[w].job], pc) = Due(retryCount[worker[w].job], worker[w].pc) + 1
  PROVE  OrderInv'
<1>. DEFINE jid == worker[w].job
            e == NewEvent(type, jid)
            due == Due(retryCount[jid], worker[w].pc)
<1>0. /\ jid \in JIDs /\ jid # NoJob /\ Places /\ JobsType /\ ChannelType
      /\ UNCHANGED <<seen, handling, waiting, retrySet, retryCount, fetcher>>
  BY BusyWorker DEF CoreInv, TypeOK, metering, jobs
<1>1. /\ seen \in [JIDs -> Int] /\ handling \in JobEvent \cup {NoJob}
      /\ events # NoChannel => events \in Seq(JobEvent)
      /\ waiting \subseteq JIDs /\ retrySet \subseteq JIDs
      /\ fetcher.job \in JIDs \cup {NoJob} /\ \A v \in Workers : worker[v].job \in JIDs \cup {NoJob}
      /\ worker \in [Workers -> [pc : {"idle", "begin", "execute", "perform", "failed",
                                      "schedule", "store"}, job : JIDs \cup {NoJob}]]
      /\ retryCount \in [JIDs -> 0..Retry + 1]
  BY <1>0 DEF JobsType, ChannelType
<1>2. e \in JobEvent /\ e.jid = jid
  BY <1>0, <1>1, EngineAssumption DEF NewEvent, JobEvent
<1>3. Rank(e) = due /\ due \in Nat
  BY <1>2, RankType
<1>4. Before(seen, handling, events, jid, due) /\ Ordered(seen, handling, events)
  BY <1>0 DEF OrderInv
<1>5. \/ events' = events
      \/ events # NoChannel /\ events' = Append(events, e)
  BY DEF EmitEvent, Send, channel
<1>. HIDE DEF e, due, jid
<1>6. /\ Ordered(seen, handling, events')
      /\ Before(seen, handling, events', jid, due + 1)
      /\ \A j \in JIDs \ {jid} : \A rank :
           Before(seen, handling, events, j, rank) => Before(seen, handling, events', j, rank)
  <2>1. CASE events' = events
    <3>1. Before(seen, handling, events, jid, due + 1)
      <4>1. due \in Int /\ due + 1 \in Int /\ due <= due + 1
        BY <1>3
      <4>. QED  BY <1>0, <1>1, <1>4, <4>1, BeforeLater
    <3>. QED  BY <1>4, <2>1, <3>1
  <2>2. CASE events # NoChannel /\ events' = Append(events, e)
    <3>1. Ordered(seen, handling, events') /\ Before(seen, handling, events', jid, due + 1)
      BY <1>1, <1>2, <1>3, <1>4, <2>2, SendInOrder
    <3>2. ASSUME NEW j \in JIDs \ {jid}, NEW rank, Before(seen, handling, events, j, rank)
          PROVE  Before(seen, handling, events', j, rank)
      BY <1>1, <1>2, <2>2, <3>2, BeforeOther
    <3>. QED  BY <3>1, <3>2
  <2>. QED  BY <1>5, <2>1, <2>2
<1>7. \A j \in waiting \cup retrySet : j # jid /\ j \in JIDs
  BY <1>0, <1>1 DEF Places, jid
<1>8. fetcher.job # jid /\ \A v \in Workers \ {w} : worker[v].job # jid
  BY <1>0, <1>1 DEF Places, jid
<1>9. /\ \A v \in Workers \ {w} : worker'[v] = worker[v]
      /\ \/ worker'[w].job = NoJob
         \/ worker'[w].job = jid /\ Due(retryCount[jid], worker'[w].pc) = due + 1
  BY <1>1 DEF WorkerGoes, jid, due
<1>10. \A j \in waiting' \cup retrySet' :
         Before(seen', handling', events', j, 3 * retryCount'[j])
  BY <1>0, <1>6, <1>7 DEF OrderInv
<1>11. fetcher'.job # NoJob =>
         Before(seen', handling', events', fetcher'.job, 3 * retryCount'[fetcher'.job])
  BY <1>0, <1>1, <1>6, <1>8 DEF OrderInv
<1>12. ASSUME NEW v \in Workers, worker'[v].job # NoJob
       PROVE  Before(seen', handling', events', worker'[v].job,
                     Due(retryCount'[worker'[v].job], worker'[v].pc))
  <2>1. CASE v = w
    BY <1>0, <1>6, <1>9, <1>12, <2>1
  <2>2. CASE v # w
    <3>1. worker'[v] = worker[v] /\ worker[v].job \in JIDs \ {jid}
      BY <1>1, <1>8, <1>9, <1>12, <2>2
    <3>. QED  BY <1>0, <1>6, <1>12, <3>1 DEF OrderInv
  <2>. QED  BY <2>1, <2>2
<1>. QED  BY <1>0, <1>6, <1>10, <1>11, <1>12 DEF OrderInv

\* The ranks of what the workers send are the ones due.
LEMMA WorkersInOrder ==
  ASSUME CoreInv, OrderInv, NEW w \in Workers,
         WorkerBegins(w) \/ JobSucceeds(w) \/ JobFails(w) \/ WorkerReports(w)
  PROVE  OrderInv'
<1>. DEFINE jid == worker[w].job
            n == retryCount[jid]
<1>1. worker[w].pc # "idle" /\ UNCHANGED <<metering, jobs, fetcher>>
  BY DEF WorkerBegins, JobSucceeds, JobFails, WorkerReports, Processing
<1>2. jid \in JIDs /\ n \in Nat
  BY <1>1, BusyWorker, EngineAssumption DEF CoreInv, TypeOK, JobsType
<1>3. ASSUME NEW type \in EventType
      PROVE  /\ NewEvent(type, jid) \in JobEvent /\ NewEvent(type, jid).type = type
             /\ NewEvent(type, jid).attempt = n
  BY <1>2, <1>3 DEF NewEvent, JobEvent
<1>. HIDE DEF jid, n
<1>4. CASE WorkerBegins(w)
  <2>1. "job_started" \in EventType
    BY DEF EventType
  <2>2. /\ Rank(NewEvent("job_started", jid)) = Due(n, "begin")
        /\ Due(n, "execute") = Due(n, "begin") + 1
    BY <1>2, <1>3, <2>1, RankType, DueType
  <2>3. /\ worker[w].pc = "begin" /\ EmitEvent("job_started", worker[w].job)
        /\ WorkerGoes(w, "execute", worker[w].job)
    BY <1>4 DEF WorkerBegins
  <2>. QED  BY <1>1, <2>1, <2>2, <2>3, WorkerSendsInOrder DEF jid, n
<1>5. CASE JobSucceeds(w)
  <2>1. "job_succeeded" \in EventType /\ "job_succeeded" \in Outcome
    BY DEF EventType, Outcome
  <2>2. Rank(NewEvent("job_succeeded", jid)) = Due(n, "perform")
    BY <1>2, <1>3, <2>1, RankType, DueType
  <2>3. /\ worker[w].pc = "perform" /\ EmitEvent("job_succeeded", worker[w].job)
        /\ WorkerGoes(w, "idle", NoJob)
    BY <1>5 DEF JobSucceeds
  <2>. QED  BY <1>1, <2>1, <2>2, <2>3, WorkerSendsInOrder DEF jid, n
<1>6. CASE JobFails(w)
  <2>1. "job_failed" \in EventType /\ "job_failed" \in Outcome
    BY DEF EventType, Outcome
  <2>2. /\ worker[w].pc \in {"perform", "failed"} /\ EmitEvent("job_failed", worker[w].job)
        /\ WorkerGoes(w, "schedule", worker[w].job)
    BY <1>6 DEF JobFails
  <2>3. /\ Rank(NewEvent("job_failed", jid)) = Due(n, worker[w].pc)
        /\ Due(n, "schedule") = Due(n, worker[w].pc) + 1
    <3>1. Rank(NewEvent("job_failed", jid)) = 3 * n + 1
      BY <1>3, <2>1, RankType
    <3>2. Due(n, worker[w].pc) = 3 * n + 1 /\ Due(n, "schedule") = 3 * n + 2
      BY <1>2, <2>2, DueType
    <3>. QED  BY <1>2, <3>1, <3>2
  <2>. QED  BY <1>1, <2>1, <2>2, <2>3, WorkerSendsInOrder DEF jid, n
<1>7. CASE WorkerReports(w)
  <2>1. PICK type \in {"job_retry_scheduled", "job_moved_to_dead"} : EmitEvent(type, worker[w].job)
    BY <1>7 DEF WorkerReports
  <2>2. type \in EventType
    BY DEF EventType
  <2>3. /\ Rank(NewEvent(type, jid)) = Due(n, "schedule")
        /\ Due(n, "store") = Due(n, "schedule") + 1
    <3>1. Rank(NewEvent(type, jid)) = 3 * n + 2
      BY <1>3, <2>2, RankType
    <3>2. Due(n, "schedule") = 3 * n + 2 /\ Due(n, "store") = 3 * n + 3
      BY <1>2, DueType
    <3>. QED  BY <1>2, <3>1, <3>2
  <2>4. worker[w].pc = "schedule" /\ WorkerGoes(w, "store", worker[w].job)
    BY <1>7 DEF WorkerReports
  <2>. QED  BY <1>1, <2>1, <2>2, <2>3, <2>4, WorkerSendsInOrder DEF jid, n
<1>. QED  BY <1>4, <1>5, <1>6, <1>7

\* Jobs change hands, and attempts are counted, without the next event being
\* due any earlier.
LEMMA MovesInOrder ==
  ASSUME CoreInv, OrderInv, UNCHANGED <<channel, metering>>,
         \/ UNCHANGED <<jobs, hands>> \/ Fetcher \/ RetryMoves
         \/ \E w \in Workers : WorkerExecutes(w) \/ WorkerStores(w)
  PROVE  OrderInv'
<1>. DEFINE B(jid, rank) == Before(seen, handling, events, jid, rank)
<1>0. /\ UNCHANGED <<seen, handling, events>> /\ Places /\ JobsType /\ ChannelType /\ HandsRunning
      /\ Retry \in Nat /\ NoJob \notin JIDs
  BY EngineAssumption DEF CoreInv, TypeOK, channel, metering
<1>1. /\ waiting \subseteq JIDs /\ retrySet \subseteq JIDs
      /\ fetcher.job \in JIDs \cup {NoJob} /\ \A v \in Workers : worker[v].job \in JIDs \cup {NoJob}
      /\ worker \in [Workers -> [pc : {"idle", "begin", "execute", "perform", "failed",
                                      "schedule", "store"}, job : JIDs \cup {NoJob}]]
      /\ retryCount \in [JIDs -> 0..Retry + 1] /\ \A jid \in JIDs : retryCount[jid] \in Nat
      /\ seen \in [JIDs -> Int] /\ handling \in JobEvent \cup {NoJob}
      /\ events # NoChannel => events \in Seq(JobEvent)
  BY <1>0 DEF JobsType, ChannelType
<1>2. /\ Ordered(seen, handling, events)
      /\ \A jid \in waiting \cup retrySet : B(jid, 3 * retryCount[jid])
      /\ fetcher.job # NoJob => B(fetcher.job, 3 * retryCount[fetcher.job])
      /\ \A w \in Workers : worker[w].job # NoJob =>
           B(worker[w].job, Due(retryCount[worker[w].job], worker[w].pc))
  BY DEF OrderInv
<1>. SUFFICES /\ \A jid \in waiting' \cup retrySet' : B(jid, 3 * retryCount'[jid])
              /\ fetcher'.job # NoJob => B(fetcher'.job, 3 * retryCount'[fetcher'.job])
              /\ \A w \in Workers : worker'[w].job # NoJob =>
                   B(worker'[w].job, Due(retryCount'[worker'[w].job], worker'[w].pc))
  BY <1>0, <1>2 DEF OrderInv
<1>. HIDE DEF B
<1>3. CASE UNCHANGED <<jobs, hands>>
  BY <1>2, <1>3 DEF jobs, hands
<1>4. CASE Fetcher
  <2>1. UNCHANGED <<retrySet, retryCount>>
    BY <1>4 DEF Fetcher, FetcherTop, FetcherPoll, FetcherSend, FetcherHandBack, jobs
  <2>2. CASE FetcherTop
    <3>1. UNCHANGED <<waiting, worker>> /\ fetcher'.job = NoJob
      BY <1>0, <2>2 DEF FetcherTop, FetcherGoes, jobs, HandsRunning
    <3>. QED  BY <1>2, <2>1, <3>1
  <2>3. CASE FetcherPoll
    <3>1. /\ UNCHANGED worker /\ waiting' \subseteq waiting
          /\ fetcher'.job = NoJob \/ fetcher'.job \in waiting
      BY <2>3 DEF FetcherPoll, FetcherGoes
    <3>. QED  BY <1>2, <2>1, <3>1
  <2>4. CASE FetcherSend
    <3>1. PICK w \in Workers :
            worker' = [worker EXCEPT ![w] = [pc |-> "begin", job |-> fetcher.job]]
      BY <2>4 DEF FetcherSend
    <3>2. UNCHANGED waiting /\ fetcher'.job = NoJob /\ fetcher.job \in JIDs /\ fetcher.job # NoJob
      BY <1>0, <1>1, <2>4 DEF FetcherSend, FetcherGoes, jobs, HandsRunning
    <3>3. Due(retryCount[fetcher.job], "begin") = 3 * retryCount[fetcher.job]
      BY <1>1, <3>2, DueType
    <3>4. B(fetcher.job, Due(retryCount[fetcher.job], "begin"))
      BY <1>2, <3>2, <3>3
    <3>5. /\ worker'[w].pc = "begin" /\ worker'[w].job = fetcher.job
          /\ \A v \in Workers \ {w} : worker'[v] = worker[v]
      BY <1>1, <3>1
    <3>. QED  BY <1>2, <2>1, <3>2, <3>4, <3>5
  <2>5. CASE FetcherHandBack
    <3>1. /\ UNCHANGED worker /\ waiting' = waiting \cup {fetcher.job} /\ fetcher'.job = NoJob
          /\ fetcher.job # NoJob
      BY <1>0, <2>5 DEF FetcherHandBack, FetcherGoes, HandsRunning
    <3>. QED  BY <1>2, <2>1, <3>1
  <2>. QED  BY <1>4, <2>2, <2>3, <2>4, <2>5 DEF Fetcher
<1>5. CASE RetryMoves
  <2>1. UNCHANGED <<fetcher, worker>>
    BY <1>5 DEF RetryMoves, hands
  <2>2. PICK jid \in retrySet :
          /\ waiting' \cup retrySet' \subseteq waiting \cup retrySet
          /\ UNCHANGED retryCount \/ retryCount' = [retryCount EXCEPT ![jid] = @ + 1]
    BY <1>5 DEF RetryMoves
  <2>3. /\ jid \in JIDs /\ fetcher.job # jid /\ \A w \in Workers : worker[w].job # jid
    BY <1>0, <1>1 DEF Places
  <2>4. /\ \A j \in JIDs \ {jid} : retryCount'[j] = retryCount[j]
        /\ retryCount'[jid] = retryCount[jid] \/ retryCount'[jid] = retryCount[jid] + 1
    BY <1>1, <2>2, <2>3
  <2>5. B(jid, 3 * retryCount'[jid])
    <3>1. retryCount[jid] \in Nat /\ B(jid, 3 * retryCount[jid])
      BY <1>1, <1>2, <2>3
    <3>2. /\ 3 * retryCount[jid] \in Int /\ 3 * retryCount'[jid] \in Int
          /\ 3 * retryCount[jid] <= 3 * retryCount'[jid]
      BY <2>4, <3>1
    <3>. QED  BY <1>1, <2>3, <3>1, <3>2, BeforeLater DEF B
  <2>. QED  BY <1>1, <1>2, <2>1, <2>2, <2>3, <2>4, <2>5
<1>6. ASSUME NEW w \in Workers, WorkerExecutes(w)
      PROVE  /\ \A jid \in waiting' \cup retrySet' : B(jid, 3 * retryCount'[jid])
             /\ fetcher'.job # NoJob => B(fetcher'.job, 3 * retryCount'[fetcher'.job])
             /\ \A v \in Workers : worker'[v].job # NoJob =>
                  B(worker'[v].job, Due(retryCount'[worker'[v].job], worker'[v].pc))
  <2>1. /\ worker[w].pc = "execute" /\ UNCHANGED <<waiting, retrySet, retryCount, fetcher>>
        /\ worker'[w].job = worker[w].job /\ worker'[w].pc \in {"perform", "failed"}
        /\ \A v \in Workers \ {w} : worker'[v] = worker[v]
    BY <1>1, <1>6 DEF WorkerExecutes, WorkerGoes, Processing, jobs
  <2>2. worker[w].job \in JIDs
    BY <2>1, BusyWorker
  <2>3. Due(retryCount[worker[w].job], worker'[w].pc) = Due(retryCount[worker[w].job], worker[w].pc)
    <3>1. retryCount[worker[w].job] \in Nat
      BY <1>1, <2>2
    <3>. QED  BY ONLY <2>1, <3>1, DueType
  <2>. QED  BY <1>2, <2>1, <2>3
<1>7. ASSUME NEW w \in Workers, WorkerStores(w)
      PROVE  /\ \A jid \in waiting' \cup retrySet' : B(jid, 3 * retryCount'[jid])
             /\ fetcher'.job # NoJob => B(fetcher'.job, 3 * retryCount'[fetcher'.job])
             /\ \A v \in Workers : worker'[v].job # NoJob =>
                  B(worker'[v].job, Due(retryCount'[worker'[v].job], worker'[v].pc))
  <2>. DEFINE jid == worker[w].job
  <2>1. /\ worker[w].pc = "store" /\ UNCHANGED <<waiting, fetcher>>
        /\ retrySet' \subseteq retrySet \cup {jid}
        /\ retryCount' = [retryCount EXCEPT ![jid] = @ + 1]
        /\ worker'[w].job = NoJob /\ \A v \in Workers \ {w} : worker'[v] = worker[v]
    BY <1>1, <1>7 DEF WorkerStores, WorkerGoes, Processing
  <2>2. jid \in JIDs /\ jid # NoJob
    BY <2>1, BusyWorker
  <2>3. /\ jid \notin waiting \cup retrySet /\ fetcher.job # jid
        /\ \A v \in Workers \ {w} : worker[v].job # jid
    BY <1>0, <1>1, <2>2 DEF Places
  <2>4. /\ \A j \in JIDs \ {jid} : retryCount'[j] = retryCount[j]
        /\ retryCount'[jid] = retryCount[jid] + 1 /\ retryCount[jid] \in Nat
    BY <1>1, <2>1, <2>2
  <2>5. B(jid, Due(retryCount[jid], "store"))
    BY <1>2, <2>1, <2>2
  <2>. HIDE DEF jid
  <2>6. Due(retryCount[jid], "store") = 3 * retryCount'[jid]
    <3>1. Due(retryCount[jid], "store") = 3 * retryCount[jid] + 3
      BY <2>4, DueType
    <3>. QED  BY <2>4, <3>1
  <2>7. \A j \in waiting' \cup retrySet' : B(j, 3 * retryCount'[j])
    BY <1>1, <1>2, <2>1, <2>3, <2>4, <2>5, <2>6
  <2>8. fetcher'.job # NoJob => B(fetcher'.job, 3 * retryCount'[fetcher'.job])
    BY <1>1, <1>2, <2>1, <2>3, <2>4
  <2>9. \A v \in Workers : worker'[v].job # NoJob =>
          B(worker'[v].job, Due(retryCount'[worker'[v].job], worker'[v].pc))
    BY <1>1, <1>2, <2>1, <2>3, <2>4
  <2>. QED  BY <2>7, <2>8, <2>9
<1>. QED  BY <1>3, <1>4, <1>5, <1>6, <1>7

\* Every step keeps the order, and handles the events of a job in that order.
LEMMA StepOrder ==
  ASSUME CoreInv, ChannelInv, OrderInv, [Next]_vars
  PROVE  /\ OrderInv'
         /\ \A jid \in JIDs : seen'[jid] # seen[jid] => seen'[jid] > seen[jid]
<1>0. /\ ChannelType /\ ChannelType' /\ StartOrder /\ JobsType
  BY StepCore DEF CoreInv, TypeOK
<1>1. /\ seen \in [JIDs -> Int] /\ seen' \in [JIDs -> Int] /\ handling \in JobEvent \cup {NoJob}
      /\ events # NoChannel => events \in Seq(JobEvent)
      /\ waiting \subseteq JIDs /\ retrySet \subseteq JIDs
      /\ fetcher.job \in JIDs \cup {NoJob} /\ \A v \in Workers : worker[v].job \in JIDs \cup {NoJob}
  BY <1>0 DEF ChannelType, JobsType
<1>2. CASE MetricsReceive
  <2>1. events # NoChannel
    BY <1>0, <1>2 DEF MetricsReceive, StartOrder
  <2>2. /\ handling' \in JobEvent /\ handling' = events[1]
        /\ events \in Seq(JobEvent) /\ Len(events) > 0 /\ events' \in Seq(JobEvent)
        /\ Len(events') = Len(events) - 1
        /\ \A i \in 1..Len(events') : events'[i] = events[i + 1]
    BY <1>0, <1>2, <2>1, ReceiveType
  <2>3. /\ handling = NoJob
        /\ UNCHANGED <<seen, waiting, retrySet, retryCount, fetcher, worker>>
    BY <1>2 DEF MetricsReceive, jobs, hands
  <2>4. /\ Ordered(seen, NoJob, events) => Ordered(seen, handling', events')
        /\ \A jid, rank : Before(seen, NoJob, events, jid, rank) =>
                          Before(seen, handling', events', jid, rank)
    BY <2>1, <2>2, ReceiveInOrder
  <2>. QED  BY <2>3, <2>4 DEF OrderInv
<1>3. CASE MetricsHandle
  <2>1. /\ handling # NoJob /\ handling' = NoJob
        /\ seen' = seen \/ seen' = [seen EXCEPT ![handling.jid] = Rank(handling)]
        /\ UNCHANGED <<events, waiting, retrySet, retryCount, fetcher, worker>>
    BY <1>3 DEF MetricsHandle, jobs, hands
  <2>2. handling \in JobEvent /\ handling.jid \in JIDs /\ Rank(handling) \in Nat
    BY <1>1, <2>1, RankType DEF JobEvent
  <2>3. /\ Ordered(seen, handling, events) => Ordered(seen', NoJob, events)
        /\ \A jid \in JIDs : \A rank : Before(seen, handling, events, jid, rank) =>
                                   Before(seen', NoJob, events, jid, rank)
    BY <1>1, <2>1, <2>2, HandleInOrder
  <2>4. OrderInv'
    BY <1>1, <2>1, <2>3 DEF OrderInv
  <2>5. seen[handling.jid] < Rank(handling)
    BY <2>1 DEF OrderInv, Ordered
  <2>. QED  BY <1>1, <2>1, <2>2, <2>4, <2>5
<1>4. ASSUME NEW h \in BOOLEAN, SetMetricsHandler(h)
      PROVE  OrderInv' /\ UNCHANGED seen
  <2>1. UNCHANGED <<seen, handling, waiting, retrySet, retryCount, fetcher, worker>>
    BY <1>4 DEF SetMetricsHandler, SetupOnly, metering, jobs, hands
  <2>2. events' = events \/ events' = <<>>
    BY <1>4 DEF SetMetricsHandler
  <2>3. Len(<<>>) = 0
    OBVIOUS
  <2>4. /\ Ordered(seen, handling, events) => Ordered(seen, handling, events')
        /\ \A jid, rank : Before(seen, handling, events, jid, rank) =>
                          Before(seen, handling, events', jid, rank)
    BY <2>2, <2>3 DEF Ordered, Before
  <2>. QED  BY <2>1, <2>4 DEF OrderInv
<1>5. ASSUME NEW w \in Workers,
             WorkerBegins(w) \/ JobSucceeds(w) \/ JobFails(w) \/ WorkerReports(w)
      PROVE  OrderInv' /\ UNCHANGED seen
  BY <1>5, WorkersInOrder DEF WorkerBegins, JobSucceeds, JobFails, WorkerReports, Processing, metering
<1>6. ASSUME UNCHANGED <<channel, metering>>,
             ~(MetricsReceive \/ MetricsHandle), ~(\E h \in BOOLEAN : SetMetricsHandler(h)),
             ~(\E w \in Workers : \/ WorkerBegins(w) \/ JobSucceeds(w)
                                  \/ JobFails(w) \/ WorkerReports(w))
      PROVE  OrderInv' /\ UNCHANGED seen
  <2>1. \/ UNCHANGED <<jobs, hands>> \/ Fetcher \/ RetryMoves
        \/ \E w \in Workers : WorkerExecutes(w) \/ WorkerStores(w)
    BY <1>6 DEF Next, Setters, Use, SetValidator, SetDefaultValidator, Register, SetupOnly,
                Starter, EngineStart, ProcessorStart, Launch, Stopping, LoopExits, Worker,
                WorkerExits, Health, vars
  <2>. QED  BY <1>6, <2>1, MovesInOrder DEF metering
<1>. QED  BY <1>1, <1>2, <1>3, <1>4, <1>5, <1>6, QuietSteps

\* metricsLoop handles the events of a job in the order of its life, over all
\* its attempts and workers, whatever the full channel drops.
THEOREM EventsHandledInOrder == Spec => EventsInOrder
<1>1. Init => ChannelInv /\ OrderInv
  <2>1. Init => ChannelInv
    BY DEF Init, ChannelInv, EventsAccounted
  <2>2. Init => OrderInv
    <3>. SUFFICES ASSUME Init PROVE OrderInv
      OBVIOUS
    <3>1. \A jid \in JIDs : seen[jid] = -1 /\ retryCount[jid] = 0
      BY DEF Init
    <3>2. \A jid \in JIDs : Before(seen, handling, events, jid, 3 * retryCount[jid])
      BY <3>1 DEF Init, Before
    <3>. QED  BY <3>2 DEF Init, OrderInv, Ordered
  <2>. QED  BY <2>1, <2>2
<1>2. CoreInv /\ ChannelInv /\ OrderInv /\ [Next]_vars => (ChannelInv /\ OrderInv)'
  BY StepAccounts, StepOrder
<1>3. CoreInv /\ ChannelInv /\ OrderInv /\ [Next]_vars =>
        [\A jid \in JIDs : seen'[jid] # seen[jid] => seen'[jid] > seen[jid]]_seen
  BY StepOrder
<1>. QED  BY <1>1, <1>2, <1>3, CoreInvariant, PTL DEF Spec, EventsInOrder
=============================================================================
