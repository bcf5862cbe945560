--------------------------- MODULE Configuration ---------------------------
(***************************************************************************)
(* From what the application asks for to the engine it gets: the options   *)
(* and buildConfig (crank.go, options.go), the YAML file (config.go), the  *)
(* choice and the dialling of the broker (factory.go, redis_broker.go),    *)
(* the global client, and the weighted round robin of the fetcher over the *)
(* queues that result. Several constructors may run at the same time.      *)
(***************************************************************************)
EXTENDS Integers, Sequences, SequencesExt, FiniteSets

CONSTANTS
  Engines,             \* the calls of a constructor
  Requests,            \* what a call may ask for
  DefaultConcurrency, MaxConcurrency,  \* 10 and 10000
  DefaultTimeout, MaxTimeoutSec,       \* 8 and 86400
  NoWeight,            \* a YAML entry without a weight
  NoEngine

\* A queue as the application names it: by a QueueOption, a YAML sequence or a YAML map.
QueueOption == [form : {"option"}, name : STRING, weight : Int]
               \cup [form : {"array", "map"}, name : STRING, weight : Int \cup {NoWeight}]

(* A request: the constructor, how reading the file ends (QuickStart), the   *)
(* options or the file's fields, the URL's scheme in the request and in the  *)
(* environment. Timeouts are in half seconds.                                *)
Request == [via : {"New", "QuickStart", "NewTestEngine"},
            file : {"read", "traversal", "missing", "unparseable"},
            kind : {"", "redis", "nats", "pgsql", "other"}, custom : BOOLEAN,
            url : {"", "redis", "rediss", "unix", "other"}, env : {"", "redis"}, tls : BOOLEAN,
            queues : Seq(QueueOption), concurrency : Int, timeout : Int]

ASSUME ConfigurationAssumption ==
  /\ Requests \subseteq Request
  /\ \A r \in Requests : \A i \in DOMAIN r.queues :
       r.queues[i].form = "option" <=> r.via # "QuickStart"
  /\ NoWeight \notin Int
  /\ MaxConcurrency \in Nat /\ MaxTimeoutSec \in Nat
  /\ DefaultConcurrency \in 1..MaxConcurrency
  /\ DefaultTimeout \in 1..MaxTimeoutSec
  /\ NoEngine \notin Engines

VARIABLES
  call,    \* of each constructor call: pc, its request, Config, broker and poll list
  dialled, \* calls whose Redis client is open
  closed,  \* the broker given by WithCustomBroker is closed
  global,  \* the call whose client is the global one
  cursor,  \* of each fetcher: position in its poll list
  polls    \* history: how often each queue was polled in the current round

vars == <<call, dialled, closed, global, cursor, polls>>

NoConfig == [concurrency |-> 0, timeout |-> 0, queues |-> <<>>]
NoCall == [pc |-> "idle", request |-> NoEngine, config |-> NoConfig, broker |-> "none",
           tls |-> FALSE, queues |-> <<>>]

Init ==
  /\ call = [e \in Engines |-> NoCall]
  /\ dialled = {} /\ closed = FALSE /\ global = NoEngine
  /\ cursor = [e \in Engines |-> 0]
  /\ polls = [e \in Engines |-> <<>>]

-----------------------------------------------------------------------------
(* Config. *)

AtLeastOne(weight) == IF weight <= 0 THEN 1 ELSE weight

\* QueueConfig.UnmarshalYAML: a sequence keeps any weight it has, a map turns 0 into 1.
UnmarshalYAML(q) ==
  [name |-> q.name,
   weight |-> IF q.weight = NoWeight \/ (q.form = "map" /\ q.weight = 0) THEN 1 ELSE q.weight]

\* WithQueues and buildConfig.
OptionQueues(queues) ==
  IF queues = <<>> THEN <<[name |-> "default", weight |-> 1]>>
  ELSE [i \in DOMAIN queues |-> [name |-> queues[i].name, weight |-> AtLeastOne(queues[i].weight)]]

Seconds(halves) == halves \div 2

\* Faulty variant: the default is for zero only.
ConcurrencyOrZero(n) ==
  IF n = 0 THEN DefaultConcurrency ELSE IF n > MaxConcurrency THEN MaxConcurrency ELSE n

Concurrency(n) ==
  IF n <= 0 THEN DefaultConcurrency ELSE IF n > MaxConcurrency THEN MaxConcurrency ELSE n

Timeout(seconds) == IF seconds <= 0 THEN DefaultTimeout ELSE seconds

BuildConfig(r) ==
  [concurrency |-> Concurrency(r.concurrency),
   timeout |-> Timeout(Seconds(r.timeout)),
   queues |-> OptionQueues(r.queues)]

\* Load, once the file is read; only here is the timeout capped.
LoadConfig(r) ==
  LET seconds == Timeout(Seconds(r.timeout)) IN
  [concurrency |-> Concurrency(r.concurrency),
   timeout |-> IF seconds > MaxTimeoutSec THEN MaxTimeoutSec ELSE seconds,
   queues |-> [i \in DOMAIN r.queues |-> UnmarshalYAML(r.queues[i])]]

\* The URL that is dialled: the environment fills in for the file's.
BrokerURL(r) == IF r.via = "QuickStart" /\ r.url = "" THEN r.env ELSE r.url

Fails(e) == call' = [call EXCEPT ![e].pc = "failed"]

\* Load refuses the path, the text, the kind or the lack of a URL.
LoadRefuses(r) ==
  r.file # "read" \/ r.kind \notin {"redis", "nats"} \/ BrokerURL(r) = ""

Goes(e, r, config, pc, broker) ==
  call' = [call EXCEPT ![e] = [NoCall EXCEPT !.pc = pc, !.request = r, !.config = config,
                                             !.broker = broker]]

\* A custom broker takes precedence; without one, the kind must be given.
New(e, r) ==
  /\ r.via = "New"
  /\ IF r.custom THEN Goes(e, r, BuildConfig(r), "engine", "custom")
     ELSE IF r.kind # "" THEN Goes(e, r, BuildConfig(r), "open", "redis")
     ELSE Goes(e, r, NoConfig, "failed", "none")

QuickStart(e, r) ==
  /\ r.via = "QuickStart"
  /\ IF LoadRefuses(r) THEN Goes(e, r, NoConfig, "failed", "none")
     ELSE Goes(e, r, LoadConfig(r), "open", "redis")

NewTestEngine(e, r) ==
  /\ r.via = "NewTestEngine"
  /\ Goes(e, r, BuildConfig(r), "engine", "memory")

Call(e) ==
  /\ call[e].pc = "idle"
  /\ \E r \in Requests : New(e, r) \/ QuickStart(e, r) \/ NewTestEngine(e, r)
  /\ UNCHANGED <<dialled, closed, global, cursor, polls>>

-----------------------------------------------------------------------------
(* The broker. *)

\* Open, and NewRedisBrokerWithConfig before it dials: the kinds but "redis" are
\* not there yet, the URL may not parse, and UseTLS wants a scheme it can upgrade.
OpenRefuses(r) ==
  \/ r.kind # "redis"
  \/ BrokerURL(r) \in {"", "other"}
  \/ r.tls /\ BrokerURL(r) = "unix"

UsesTLS(r) == r.tls \/ BrokerURL(r) = "rediss"

\* Faulty variant: the client becomes the global one before it has been tried.
OpenPublishes(e) ==
  LET r == call[e].request IN
  /\ call[e].pc = "open"
  /\ IF OpenRefuses(r) THEN Fails(e) /\ UNCHANGED <<dialled, global>>
     ELSE /\ dialled' = dialled \cup {e}
          /\ call' = [call EXCEPT ![e].pc = "ping", ![e].tls = UsesTLS(r)]
          /\ global' = e
  /\ UNCHANGED <<closed, cursor, polls>>

\* redis.NewClient, unless there is nothing to dial.
Open(e) ==
  LET r == call[e].request IN
  /\ call[e].pc = "open"
  /\ IF OpenRefuses(r) THEN Fails(e) /\ UNCHANGED dialled
     ELSE /\ dialled' = dialled \cup {e}
          /\ call' = [call EXCEPT ![e].pc = "ping", ![e].tls = UsesTLS(r)]
  /\ UNCHANGED <<closed, global, cursor, polls>>

PingAnswers(e) ==
  /\ call[e].pc = "ping"
  /\ call' = [call EXCEPT ![e].pc = "engine"]
  /\ UNCHANGED <<dialled, closed, global, cursor, polls>>

\* Faulty variant: the client that did not reach the server stays open.
PingLeaks(e) ==
  /\ call[e].pc = "ping"
  /\ Fails(e)
  /\ UNCHANGED <<dialled, closed, global, cursor, polls>>

PingFails(e) ==
  /\ call[e].pc = "ping"
  /\ dialled' = dialled \ {e}
  /\ Fails(e)
  /\ UNCHANGED <<closed, global, cursor, polls>>

-----------------------------------------------------------------------------
(* The engine. *)

\* Faulty variant: a weight that is not positive takes the queue out.
ExpandPositive(queues) ==
  FlattenSeq([i \in DOMAIN queues |-> [k \in 1..queues[i].weight |-> queues[i].name]])

\* Each queue as often as it weighs.
Expand(queues) ==
  FlattenSeq([i \in DOMAIN queues |->
               [k \in 1..AtLeastOne(queues[i].weight) |-> queues[i].name]])

\* NewProcessor's list.
PollList(queues) == IF queues = <<>> THEN <<"default">> ELSE Expand(queues)

\* The queues that Health reports.
DedupQueueNames(queues) ==
  LET names[n \in 0..Len(queues)] ==
        IF n = 0 THEN <<>>
        ELSE IF Contains(names[n - 1], queues[n].name) THEN names[n - 1]
        ELSE Append(names[n - 1], queues[n].name)
  IN names[Len(queues)]

\* newEngine, which does not fail, and the client; QuickStart's becomes the global one.
NewEngine(e) ==
  LET queues == PollList(call[e].config.queues) IN
  /\ call[e].pc = "engine"
  /\ call' = [call EXCEPT ![e].pc = "built", ![e].queues = queues]
  /\ polls' = [polls EXCEPT ![e] = [q \in ToSet(queues) |-> 0]]
  /\ global' = IF call[e].request.via = "QuickStart" THEN e ELSE global
  /\ UNCHANGED <<dialled, closed, cursor>>

NextCursor(e) == (cursor[e] + 1) % Len(call[e].queues)

\* The fetcher of a started engine turns to the next queue.
Poll(e) ==
  LET q == call[e].queues[cursor[e] + 1]
      round == IF cursor[e] = 0 THEN [p \in DOMAIN polls[e] |-> 0] ELSE polls[e]
  IN
  /\ call[e].pc = "built"
  /\ cursor' = [cursor EXCEPT ![e] = NextCursor(e)]
  /\ polls' = [polls EXCEPT ![e] = [round EXCEPT ![q] = @ + 1]]
  /\ UNCHANGED <<call, dialled, closed, global>>

\* Stop closes the broker, also one that the application gave.
Stop(e) ==
  /\ call[e].pc = "built"
  /\ call' = [call EXCEPT ![e].pc = "stopped"]
  /\ dialled' = dialled \ {e}
  /\ closed' = (closed \/ call[e].broker = "custom")
  /\ UNCHANGED <<global, cursor, polls>>

Built(e) == call[e].pc \in {"built", "stopped"}

\* The application installs a client that it was given, of a running engine or of a
\* stopped one, or none.
SetGlobalClient(e) ==
  /\ e # NoEngine => Built(e)
  /\ global' = e
  /\ UNCHANGED <<call, dialled, closed, cursor, polls>>

Next ==
  \/ \E e \in Engines : \/ Call(e) \/ Open(e) \/ PingAnswers(e) \/ PingFails(e)
                        \/ NewEngine(e) \/ Poll(e) \/ Stop(e)
  \/ \E e \in Engines \cup {NoEngine} : SetGlobalClient(e)

Spec == Init /\ [][Next]_vars

-----------------------------------------------------------------------------
(* Properties. *)

\* The queues that a request stands for, and what each weighs.
Asked(r) == IF r.queues = <<>> THEN <<[name |-> "default", weight |-> 1]>> ELSE r.queues
Weight(q) == IF q.weight = NoWeight THEN 1 ELSE AtLeastOne(q.weight)

\* The polls of queue q that a request pays for in one round: one for every unit of
\* weight of every entry that names it.
Share(r, q) ==
  Cardinality(UNION {{i} \X (1..Weight(Asked(r)[i])) :
                       i \in {j \in DOMAIN Asked(r) : Asked(r)[j].name = q}})

\* After every full round of the fetcher each queue was polled exactly as often
\* as the application's weights say, whether they came as options or from YAML;
\* no queue starves.
WeightsRespected ==
  \A e \in Engines :
    LET r == call[e].request IN
    Built(e) /\ cursor[e] = 0 =>
      /\ {r.queues[i].name : i \in DOMAIN r.queues} \subseteq DOMAIN polls[e]
      /\ \/ \A q \in DOMAIN polls[e] : polls[e][q] = 0
         \/ \A q \in DOMAIN polls[e] : polls[e][q] = Share(r, q)

\* A Redis client is open exactly while its constructor waits for the first
\* ping or its engine has not stopped: a failed call leaves nothing behind.
ClientsOwned ==
  dialled = {e \in Engines : /\ call[e].broker = "redis"
                             /\ call[e].pc \in {"ping", "engine", "built"}}

\* The workers and the timeout, which counts whole seconds, that a call asked for.
SettingsHonoured(e) ==
  LET r == call[e].request  c == call[e].config IN
  Built(e) =>
    /\ c.concurrency \in 1..MaxConcurrency
    /\ r.concurrency \in 1..MaxConcurrency => c.concurrency = r.concurrency
    /\ IF r.timeout < 2 THEN c.timeout = DefaultTimeout
       ELSE \/ 2 * c.timeout <= r.timeout /\ r.timeout < 2 * (c.timeout + 1)
            \/ /\ r.via = "QuickStart" /\ r.timeout > 2 * MaxTimeoutSec
               /\ c.timeout = MaxTimeoutSec

HealthNamesQueues(e) ==
  LET c == call[e].config  names == DedupQueueNames(c.queues) IN
  Built(e) =>
    IF c.queues = <<>>
    THEN call[e].request.via = "QuickStart" /\ call[e].queues = <<"default">>
    ELSE ToSet(names) = ToSet(call[e].queues) /\ IsInjective(names)

\* What an engine runs with, for what it was asked. It has between 1 and
\* MaxConcurrency workers, and those it was asked for if that many are allowed. A
\* timeout of a second or more is cut to whole seconds, and to MaxTimeoutSec in a file
\* but not in an option; one of less than a second, also a positive one, is
\* replaced by DefaultTimeout. Health names every queue that the fetcher polls
\* once, except that it names none where a file lists none and "default" is polled.
RequestHonoured == \A e \in Engines : SettingsHonoured(e) /\ HealthNamesQueues(e)

\* A Redis client is connected while it is dialled, the application's own broker until
\* any engine over it closes it, and a test engine's until that engine closes it.
Connected(e) ==
  CASE call[e].broker = "redis" -> e \in dialled
    [] call[e].broker = "custom" -> ~closed
    [] call[e].broker = "memory" -> call[e].pc # "stopped"

\* The global client, whether QuickStart or the application installed it, is of an
\* engine that was built, and its broker is connected until that engine stops: neither
\* a constructor that fails nor the Stop of another engine takes it away, unless
\* that engine was given the same custom broker.
GlobalClientServes ==
  global # NoEngine =>
    /\ Built(global)
    /\ call[global].pc = "built" /\ ~Connected(global) =>
         \E e \in Engines : /\ call[e].pc = "stopped"
                            /\ {call[e].broker, call[global].broker} = {"custom"}
=============================================================================
