------------------------ MODULE ConfigurationProofs ------------------------
(***************************************************************************)
(* Constructors that run at the same time: no Redis client is leaked, the  *)
(* global client keeps its connection, the settings an engine runs with    *)
(* are those that were asked for, and its fetcher polls every queue as     *)
(* often as the weights say.                                               *)
(*                                                                         *)
(* None of it is inductive alone. ClientsOwned needs that only a call on   *)
(* its way to Redis dials; GlobalClientServes who may have closed a custom *)
(* broker; the settings that a call past its first step                    *)
(* carries the configuration computed there to the end; and the weights    *)
(* that the counts agree with the places passed at every cursor. What the  *)
(* loops behind the poll list and Health's names compute is proved by      *)
(* induction over their rounds, with a set in place of the predicate.      *)
(***************************************************************************)
EXTENDS Configuration, TLAPS, WellFoundedInduction, FiniteSetTheorems, SequenceTheorems

\* A call is a record with these fields.
Shaped(c) ==
  c \in [pc : {c.pc}, request : {c.request}, config : {c.config}, broker : {c.broker},
         tls : {c.tls}, queues : {c.queues}]

Shape == call = [e \in Engines |-> call[e]] /\ \A e \in Engines : Shaped(call[e])

Past(c) == c.pc \in {"open", "ping", "engine", "built", "stopped"}

\* A call that has not failed has a broker; a custom one is only closed by an engine
\* that has it.
BrokerFits ==
  /\ \A e \in Engines :
       /\ call[e].pc \in {"open", "ping"} => call[e].broker = "redis"
       /\ Past(call[e]) => call[e].broker \in {"redis", "custom", "memory"}
  /\ closed => \E e \in Engines : call[e].pc = "stopped" /\ call[e].broker = "custom"

\* The global client came with an engine that was built.
GlobalBuilt == \A e \in Engines : global = e => Built(e)

GlobalKnown == global \in Engines \cup {NoEngine}

ClientsInv == Shape /\ BrokerFits /\ ClientsOwned /\ GlobalKnown /\ GlobalBuilt

\* The call that Goes leaves behind.
Record(r, config, pc, broker) ==
  [NoCall EXCEPT !.pc = pc, !.request = r, !.config = config, !.broker = broker]

\* Its fields.
LEMMA RecordFields ==
  ASSUME NEW r, NEW config, NEW pc, NEW broker
  PROVE  /\ Shaped(Record(r, config, pc, broker))
         /\ Record(r, config, pc, broker).pc = pc
         /\ Record(r, config, pc, broker).request = r
         /\ Record(r, config, pc, broker).config = config
         /\ Record(r, config, pc, broker).broker = broker
BY DEF Record, NoCall, Shaped

Becomes(e, c) == call' = [call EXCEPT ![e] = c]

\* A step of one call leaves the others alone.
LEMMA CallSteps ==
  ASSUME Shape, NEW e \in Engines, NEW c, Shaped(c), Becomes(e, c)
  PROVE  Shape' /\ call'[e] = c /\ \A f \in Engines : f # e => call'[f] = call[f]
BY DEF Shape, Becomes

\* The configuration that a request comes to.
ConfigOf(r) == IF r.via = "QuickStart" THEN LoadConfig(r) ELSE BuildConfig(r)

\* The first step of a constructor settles its configuration and its broker.
LEMMA CallStarts ==
  ASSUME Shape, NEW e \in Engines, Call(e)
  PROVE  /\ Shape' /\ call[e].pc = "idle"
         /\ \A f \in Engines : f # e => call'[f] = call[f]
         /\ call'[e].request \in Requests
         /\ \/ call'[e].pc = "failed"
            \/ /\ call'[e].pc = "open" /\ call'[e].broker = "redis"
               /\ call'[e].config = ConfigOf(call'[e].request)
            \/ /\ call'[e].pc = "engine" /\ call'[e].broker \in {"custom", "memory"}
               /\ call'[e].request.via # "QuickStart"
               /\ call'[e].config = ConfigOf(call'[e].request)
<1>1. PICK r \in Requests : New(e, r) \/ QuickStart(e, r) \/ NewTestEngine(e, r)
  BY DEF Call
<1>2. ASSUME NEW config, NEW pc, NEW broker, Goes(e, r, config, pc, broker)
      PROVE  /\ Shape' /\ \A f \in Engines : f # e => call'[f] = call[f]
             /\ call'[e].request = r /\ call'[e].config = config
             /\ call'[e].pc = pc /\ call'[e].broker = broker
  <2>. DEFINE c == Record(r, config, pc, broker)
  <2>1. Shaped(c) /\ c.pc = pc /\ c.request = r /\ c.config = config /\ c.broker = broker
    BY RecordFields
  <2>2. Becomes(e, c)
    BY <1>2 DEF Goes, Record, Becomes
  <2>. HIDE DEF c
  <2>. QED  BY <2>1, <2>2, CallSteps
<1>3. call[e].pc = "idle"
  BY DEF Call
<1>4. CASE Goes(e, r, NoConfig, "failed", "none")
  BY <1>2, <1>3, <1>4
<1>5. CASE Goes(e, r, ConfigOf(r), "open", "redis")
  BY <1>2, <1>3, <1>5
<1>6. CASE Goes(e, r, ConfigOf(r), "engine", "custom") /\ r.via # "QuickStart"
  BY <1>2, <1>3, <1>6
<1>7. CASE Goes(e, r, ConfigOf(r), "engine", "memory") /\ r.via # "QuickStart"
  BY <1>2, <1>3, <1>7
<1>8. ConfigOf(r) = IF r.via = "QuickStart" THEN LoadConfig(r) ELSE BuildConfig(r)
  BY DEF ConfigOf
<1>. QED  BY <1>1, <1>4, <1>5, <1>6, <1>7, <1>8 DEF New, QuickStart, NewTestEngine

\* What a later step keeps of a call.
Kept(e, pc) ==
  /\ \A f \in Engines : f # e => call'[f] = call[f]
  /\ call'[e].pc = pc
  /\ call'[e].request = call[e].request
  /\ call'[e].config = call[e].config
  /\ call'[e].broker = call[e].broker

\* A later step changes the program point, and newEngine the poll list.
LEMMA CallGoesOn ==
  ASSUME Shape, NEW e \in Engines, NEW pc,
         \/ call' = [call EXCEPT ![e].pc = pc]
         \/ \E queues : call' = [call EXCEPT ![e].pc = pc, ![e].queues = queues]
  PROVE  Shape' /\ Kept(e, pc) /\ call'[e].tls = call[e].tls
<1>1. Shaped(call[e])
  BY DEF Shape
<1>2. ASSUME NEW c, Shaped(c), Becomes(e, c), c.pc = pc, c.request = call[e].request,
             c.config = call[e].config, c.broker = call[e].broker, c.tls = call[e].tls
      PROVE  Shape' /\ Kept(e, pc) /\ call'[e].tls = call[e].tls
  BY <1>2, CallSteps DEF Kept
<1>3. CASE call' = [call EXCEPT ![e].pc = pc]
  <2>. DEFINE c == [call[e] EXCEPT !.pc = pc]
  <2>1. /\ Shaped(c) /\ c.pc = pc /\ c.tls = call[e].tls
        /\ c.request = call[e].request /\ c.config = call[e].config /\ c.broker = call[e].broker
    BY <1>1 DEF Shaped
  <2>2. Becomes(e, c)
    BY <1>3 DEF Becomes, Shape
  <2>. HIDE DEF c
  <2>. QED  BY <1>2, <2>1, <2>2
<1>4. ASSUME NEW queues, call' = [call EXCEPT ![e].pc = pc, ![e].queues = queues]
      PROVE  Shape' /\ Kept(e, pc) /\ call'[e].tls = call[e].tls
  <2>. DEFINE c == [call[e] EXCEPT !.pc = pc, !.queues = queues]
  <2>1. /\ Shaped(c) /\ c.pc = pc /\ c.tls = call[e].tls
        /\ c.request = call[e].request /\ c.config = call[e].config /\ c.broker = call[e].broker
    BY <1>1 DEF Shaped
  <2>2. Becomes(e, c)
    BY <1>4 DEF Becomes, Shape
  <2>. HIDE DEF c
  <2>. QED  BY <1>2, <2>1, <2>2
<1>. QED  BY <1>3, <1>4

\* Dialling also settles the encryption.
LEMMA CallDials ==
  ASSUME Shape, NEW e \in Engines, NEW tls, call' = [call EXCEPT ![e].pc = "ping", ![e].tls = tls]
  PROVE  Shape' /\ Kept(e, "ping") /\ call'[e].tls = tls
<1>. DEFINE c == [call[e] EXCEPT !.pc = "ping", !.tls = tls]
<1>1. Shaped(call[e])
  BY DEF Shape
<1>2. /\ Shaped(c) /\ c.pc = "ping" /\ c.tls = tls
      /\ c.request = call[e].request /\ c.config = call[e].config /\ c.broker = call[e].broker
  BY <1>1 DEF Shaped
<1>3. Becomes(e, c)
  BY DEF Becomes, Shape
<1>. HIDE DEF c
<1>. QED  BY <1>2, <1>3, CallSteps DEF Kept

-----------------------------------------------------------------------------
(* Clients. *)

\* Every step opens and closes the clients that it should.
LEMMA StepClients ==
  ASSUME ClientsInv, [Next]_vars
  PROVE  ClientsInv'
<1>1. Shape /\ BrokerFits /\ ClientsOwned /\ GlobalKnown /\ GlobalBuilt
  BY DEF ClientsInv
<1>2. CASE UNCHANGED vars
  BY <1>1, <1>2 DEF vars, ClientsInv, Shape, Shaped, BrokerFits, Past, ClientsOwned, GlobalKnown, GlobalBuilt, Built
<1>3. ASSUME NEW e \in Engines, Call(e)
      PROVE  ClientsInv'
  <2>1. /\ Shape' /\ call[e].pc = "idle"
        /\ \A f \in Engines : f # e => call'[f] = call[f]
        /\ \/ call'[e].pc = "failed"
           \/ call'[e].pc = "open" /\ call'[e].broker = "redis"
           \/ call'[e].pc = "engine" /\ call'[e].broker \in {"custom", "memory"}
        /\ UNCHANGED <<dialled, closed, global>>
    BY <1>1, <1>3, CallStarts DEF Call
  <2>2. BrokerFits'
    BY <1>1, <2>1 DEF BrokerFits, Past
  <2>3. ClientsOwned'
    BY <1>1, <2>1 DEF ClientsOwned
  <2>4. GlobalKnown' /\ GlobalBuilt'
    BY <1>1, <2>1 DEF GlobalKnown, GlobalBuilt, Built
  <2>. QED  BY <2>1, <2>2, <2>3, <2>4 DEF ClientsInv
<1>4. ASSUME NEW e \in Engines, Open(e)
      PROVE  ClientsInv'
  <2>. DEFINE r == call[e].request
  <2>1. CASE Fails(e) /\ dialled' = dialled
    <3>1. Shape' /\ Kept(e, "failed") /\ UNCHANGED <<closed, global>> /\ call[e].pc = "open"
      BY <1>1, <1>4, <2>1, CallGoesOn DEF Open, Fails
    <3>2. BrokerFits' /\ ClientsOwned' /\ GlobalKnown' /\ GlobalBuilt'
      BY <1>1, <2>1, <3>1 DEF Kept, BrokerFits, Past, ClientsOwned, GlobalKnown, GlobalBuilt, Built
    <3>. QED  BY <3>1, <3>2 DEF ClientsInv
  <2>2. CASE /\ dialled' = dialled \cup {e}
             /\ call' = [call EXCEPT ![e].pc = "ping", ![e].tls = UsesTLS(r)]
    <3>1. Shape' /\ Kept(e, "ping") /\ UNCHANGED <<closed, global>> /\ call[e].pc = "open"
      BY <1>1, <1>4, <2>2, CallDials DEF Open
    <3>2. BrokerFits'
      BY <1>1, <3>1 DEF Kept, BrokerFits, Past
    <3>3. call[e].broker = "redis"
      BY <1>1, <3>1 DEF BrokerFits
    <3>4. ClientsOwned'
      BY <1>1, <2>2, <3>1, <3>3 DEF Kept, ClientsOwned
    <3>5. GlobalKnown' /\ GlobalBuilt'
      BY <1>1, <3>1 DEF Kept, GlobalKnown, GlobalBuilt, Built
    <3>. QED  BY <3>1, <3>2, <3>4, <3>5 DEF ClientsInv
  <2>. QED  BY <1>4, <2>1, <2>2 DEF Open
<1>5. ASSUME NEW e \in Engines, PingAnswers(e)
      PROVE  ClientsInv'
  <2>1. Shape' /\ Kept(e, "engine") /\ UNCHANGED <<dialled, closed, global>> /\ call[e].pc = "ping"
    BY <1>1, <1>5, CallGoesOn DEF PingAnswers
  <2>2. BrokerFits' /\ ClientsOwned' /\ GlobalKnown' /\ GlobalBuilt'
    BY <1>1, <2>1 DEF Kept, BrokerFits, Past, ClientsOwned, GlobalKnown, GlobalBuilt, Built
  <2>. QED  BY <2>1, <2>2 DEF ClientsInv
<1>6. ASSUME NEW e \in Engines, PingFails(e)
      PROVE  ClientsInv'
  <2>1. /\ Shape' /\ Kept(e, "failed") /\ UNCHANGED <<closed, global>> /\ call[e].pc = "ping"
        /\ dialled' = dialled \ {e}
    BY <1>1, <1>6, CallGoesOn DEF PingFails, Fails
  <2>2. BrokerFits' /\ ClientsOwned' /\ GlobalKnown' /\ GlobalBuilt'
    BY <1>1, <2>1 DEF Kept, BrokerFits, Past, ClientsOwned, GlobalKnown, GlobalBuilt, Built
  <2>. QED  BY <2>1, <2>2 DEF ClientsInv
<1>7. ASSUME NEW e \in Engines, NewEngine(e)
      PROVE  ClientsInv'
  <2>1. /\ Shape' /\ Kept(e, "built") /\ UNCHANGED <<dialled, closed>> /\ call[e].pc = "engine"
        /\ global' = IF call[e].request.via = "QuickStart" THEN e ELSE global
    BY <1>1, <1>7, CallGoesOn DEF NewEngine
  <2>2. BrokerFits'
    BY <1>1, <2>1 DEF Kept, BrokerFits, Past
  <2>3. ClientsOwned'
    BY <1>1, <2>1 DEF Kept, ClientsOwned
  <2>4. GlobalKnown' /\ GlobalBuilt'
    BY <1>1, <2>1, <2>2, <2>3 DEF Kept, BrokerFits, Past, ClientsOwned, GlobalKnown, GlobalBuilt, Built
  <2>. QED  BY <2>1, <2>2, <2>3, <2>4 DEF ClientsInv
<1>8. ASSUME NEW e \in Engines, Poll(e)
      PROVE  ClientsInv'
  BY <1>1, <1>8 DEF Poll, ClientsInv, Shape, Shaped, BrokerFits, Past, ClientsOwned, GlobalKnown, GlobalBuilt, Built
<1>9. ASSUME NEW e \in Engines, Stop(e)
      PROVE  ClientsInv'
  <2>1. /\ Shape' /\ Kept(e, "stopped") /\ global' = global /\ call[e].pc = "built"
        /\ dialled' = dialled \ {e} /\ closed' = (closed \/ call[e].broker = "custom")
    BY <1>1, <1>9, CallGoesOn DEF Stop
  <2>2. BrokerFits' /\ ClientsOwned'
    BY <1>1, <2>1 DEF Kept, BrokerFits, Past, ClientsOwned
  <2>3. GlobalKnown' /\ GlobalBuilt'
    BY <1>1, <2>1 DEF Kept, ClientsOwned, GlobalKnown, GlobalBuilt, Built
  <2>. QED  BY <2>1, <2>2, <2>3 DEF ClientsInv
<1>10. ASSUME NEW e \in Engines \cup {NoEngine}, SetGlobalClient(e)
       PROVE  ClientsInv'
  <2>1. UNCHANGED <<call, dialled, closed>> /\ global' = e /\ (e # NoEngine => Built(e))
    BY <1>10 DEF SetGlobalClient
  <2>2. Shape' /\ BrokerFits' /\ ClientsOwned'
    BY <1>1, <2>1 DEF Shape, Shaped, BrokerFits, Past, ClientsOwned
  <2>3. GlobalKnown' /\ GlobalBuilt'
    BY <2>1, ConfigurationAssumption DEF GlobalKnown, GlobalBuilt, Built
  <2>. QED  BY <2>2, <2>3 DEF ClientsInv
<1>. QED  BY <1>2, <1>3, <1>4, <1>5, <1>6, <1>7, <1>8, <1>9, <1>10 DEF Next

\* In the beginning nothing is dialled.
LEMMA InitClients == Init => ClientsInv
<1>. SUFFICES ASSUME Init PROVE ClientsInv
  OBVIOUS
<1>1. /\ call = [e \in Engines |-> NoCall] /\ dialled = {} /\ closed = FALSE /\ global = NoEngine
      /\ NoCall.pc = "idle" /\ Shaped(NoCall)
  BY DEF Init, NoCall, Shaped
<1>2. Shape
  BY <1>1 DEF Shape
<1>3. BrokerFits /\ ClientsOwned /\ GlobalKnown /\ GlobalBuilt
  BY <1>1, ConfigurationAssumption DEF BrokerFits, Past, ClientsOwned, GlobalKnown, GlobalBuilt
<1>. QED  BY <1>2, <1>3 DEF ClientsInv

\* Whatever requests are made and however their calls interleave, a Redis client is
\* open exactly while its constructor pings or its engine has not stopped.
THEOREM NoClientLeaks == Spec => []ClientsOwned
<1>1. ClientsInv /\ [Next]_vars => ClientsInv'
  BY StepClients
<1>2. ClientsInv => ClientsOwned
  BY DEF ClientsInv
<1>. QED  BY <1>1, <1>2, InitClients, PTL DEF Spec

\* The global client, of QuickStart or of SetGlobalClient, is one of an engine that was
\* built, and its broker stays connected until that engine stops, or one that shares its
\* custom broker.
THEOREM GlobalClientStaysConnected == Spec => []GlobalClientServes
<1>1. ClientsInv /\ [Next]_vars => ClientsInv'
  BY StepClients
<1>2. ClientsInv => GlobalClientServes
  <2>. SUFFICES ASSUME ClientsInv, NEW e \in Engines, global = e
                PROVE  /\ Built(e)
                       /\ call[e].pc = "built" /\ ~Connected(e) =>
                            \E f \in Engines : /\ call[f].pc = "stopped"
                                               /\ {call[f].broker, call[e].broker} = {"custom"}
    BY DEF GlobalClientServes, ClientsInv, GlobalKnown
  <2>1. Built(e)
    BY DEF ClientsInv, GlobalBuilt
  <2>2. ASSUME call[e].pc = "built", ~Connected(e)
        PROVE  \E f \in Engines : /\ call[f].pc = "stopped"
                                  /\ {call[f].broker, call[e].broker} = {"custom"}
    <3>1. call[e].broker \in {"redis", "custom", "memory"}
      BY <2>2 DEF ClientsInv, BrokerFits, Past
    <3>2. call[e].broker = "redis" => e \in dialled
      BY <2>2 DEF ClientsInv, ClientsOwned
    <3>3. call[e].broker = "custom" /\ closed
      BY <2>2, <3>1, <3>2 DEF Connected
    <3>4. PICK f \in Engines : call[f].pc = "stopped" /\ call[f].broker = "custom"
      BY <3>3 DEF ClientsInv, BrokerFits
    <3>. QED  BY <3>3, <3>4
  <2>. QED  BY <2>1, <2>2
<1>. QED  BY <1>1, <1>2, InitClients, PTL DEF Spec

-----------------------------------------------------------------------------
(* Settings. *)

\* The numbers of a configuration, for what was asked.
Limits(r, c) ==
  /\ c.concurrency \in 1..MaxConcurrency
  /\ r.concurrency \in 1..MaxConcurrency => c.concurrency = r.concurrency
  /\ IF r.timeout < 2 THEN c.timeout = DefaultTimeout
     ELSE \/ 2 * c.timeout <= r.timeout /\ r.timeout < 2 * (c.timeout + 1)
          \/ /\ r.via = "QuickStart" /\ r.timeout > 2 * MaxTimeoutSec
             /\ c.timeout = MaxTimeoutSec

NumbersKept ==
  \A e \in Engines : Past(call[e]) => Limits(call[e].request, call[e].config)

SettingsInv == ClientsInv /\ NumbersKept

\* Halving rounds down, and by less than a second.
LEMMA SecondsRoundDown ==
  ASSUME NEW halves \in Int
  PROVE  /\ Seconds(halves) \in Int
         /\ 2 * Seconds(halves) <= halves /\ halves < 2 * (Seconds(halves) + 1)
         /\ halves >= 2 <=> Seconds(halves) >= 1
BY DEF Seconds

\* Options and file come to numbers within the limits.
LEMMA ConfigWithinLimits ==
  ASSUME NEW r \in Requests
  PROVE  Limits(r, ConfigOf(r))
<1>1. r.concurrency \in Int /\ r.timeout \in Int
  BY ConfigurationAssumption DEF Request
<1>2. /\ DefaultConcurrency \in Int /\ MaxConcurrency \in Int
      /\ DefaultConcurrency >= 1 /\ DefaultConcurrency <= MaxConcurrency
      /\ DefaultTimeout \in Int /\ MaxTimeoutSec \in Int
      /\ DefaultTimeout >= 1 /\ DefaultTimeout <= MaxTimeoutSec
  BY ConfigurationAssumption
<1>3. /\ Concurrency(r.concurrency) \in 1..MaxConcurrency
      /\ r.concurrency \in 1..MaxConcurrency => Concurrency(r.concurrency) = r.concurrency
  BY <1>1, <1>2 DEF Concurrency
<1>. DEFINE s == Timeout(Seconds(r.timeout))
<1>4. /\ s \in Int
      /\ r.timeout < 2 => s = DefaultTimeout
      /\ r.timeout >= 2 => 2 * s <= r.timeout /\ r.timeout < 2 * (s + 1)
  <2>1. PICK h : h = Seconds(r.timeout)
    OBVIOUS
  <2>2. /\ h \in Int /\ 2 * h <= r.timeout /\ r.timeout < 2 * (h + 1)
        /\ r.timeout >= 2 <=> h >= 1
    BY <1>1, <2>1, SecondsRoundDown
  <2>3. s = IF h <= 0 THEN DefaultTimeout ELSE h
    BY <2>1 DEF Timeout
  <2>. HIDE DEF s
  <2>. QED  BY <1>1, <1>2, <2>2, <2>3
<1>5. /\ BuildConfig(r).concurrency = Concurrency(r.concurrency) /\ BuildConfig(r).timeout = s
      /\ LoadConfig(r).concurrency = Concurrency(r.concurrency)
      /\ LoadConfig(r).timeout = IF s > MaxTimeoutSec THEN MaxTimeoutSec ELSE s
  BY DEF BuildConfig, LoadConfig
<1>. HIDE DEF s
<1>6. CASE r.via = "QuickStart"
  <2>1. ConfigOf(r) = LoadConfig(r)
    BY <1>6 DEF ConfigOf
  <2>2. CASE s > MaxTimeoutSec
    <3>1. LoadConfig(r).timeout = MaxTimeoutSec /\ r.timeout >= 2 /\ r.timeout > 2 * MaxTimeoutSec
      BY <1>1, <1>2, <1>4, <1>5, <2>2
    <3>. QED  BY <1>1, <1>3, <1>5, <1>6, <2>1, <3>1 DEF Limits
  <2>3. CASE ~(s > MaxTimeoutSec)
    BY <1>1, <1>3, <1>4, <1>5, <2>1, <2>3 DEF Limits
  <2>. QED  BY <2>2, <2>3
<1>7. CASE r.via # "QuickStart"
  BY <1>1, <1>3, <1>4, <1>5, <1>7 DEF ConfigOf, Limits
<1>. QED  BY <1>6, <1>7

\* Every step keeps the numbers of every call.
LEMMA StepSettings ==
  ASSUME SettingsInv, [Next]_vars
  PROVE  SettingsInv'
<1>1. Shape /\ NumbersKept /\ ClientsInv
  BY DEF SettingsInv, ClientsInv
<1>2. ClientsInv'
  BY <1>1, StepClients
<1>3. ASSUME UNCHANGED call
      PROVE  NumbersKept'
  BY <1>1, <1>3 DEF NumbersKept
<1>4. ASSUME NEW e \in Engines, Call(e)
      PROVE  NumbersKept'
  <2>1. /\ \A f \in Engines : f # e => call'[f] = call[f]
        /\ call[e].pc = "idle" /\ call'[e].request \in Requests
        /\ \/ ~ Past(call'[e])
           \/ call'[e].config = ConfigOf(call'[e].request)
    BY <1>1, <1>4, CallStarts DEF Call, Past
  <2>2. Past(call'[e]) => Limits(call'[e].request, call'[e].config)
    BY <2>1, ConfigWithinLimits
  <2>. QED  BY <1>1, <2>1, <2>2 DEF NumbersKept
<1>5. ASSUME NEW e \in Engines, NEW pc, Kept(e, pc), Past(call[e])
      PROVE  NumbersKept'
  BY <1>1, <1>5 DEF NumbersKept, Kept
<1>6. ASSUME NEW e \in Engines, Open(e)
      PROVE  NumbersKept'
  <2>. DEFINE r == call[e].request
  <2>1. Past(call[e])
    BY <1>6 DEF Open, Past
  <2>2. CASE Fails(e)
    BY <1>1, <1>5, <2>1, <2>2, CallGoesOn DEF Fails
  <2>3. CASE call' = [call EXCEPT ![e].pc = "ping", ![e].tls = UsesTLS(r)]
    <3>1. Kept(e, "ping")
      BY <1>1, <2>3, CallDials
    <3>. QED  BY <1>5, <2>1, <3>1
  <2>. QED  BY <1>6, <2>2, <2>3 DEF Open
<1>7. ASSUME NEW e \in Engines, PingAnswers(e)
      PROVE  NumbersKept'
  <2>1. Past(call[e]) /\ call' = [call EXCEPT ![e].pc = "engine"]
    BY <1>7 DEF PingAnswers, Past
  <2>. QED  BY <1>1, <1>5, <2>1, CallGoesOn
<1>8. ASSUME NEW e \in Engines, PingFails(e)
      PROVE  NumbersKept'
  <2>1. Past(call[e]) /\ call' = [call EXCEPT ![e].pc = "failed"]
    BY <1>8 DEF PingFails, Fails, Past
  <2>. QED  BY <1>1, <1>5, <2>1, CallGoesOn
<1>9. ASSUME NEW e \in Engines, NewEngine(e)
      PROVE  NumbersKept'
  <2>1. /\ Past(call[e])
        /\ \E queues : call' = [call EXCEPT ![e].pc = "built", ![e].queues = queues]
    BY <1>9 DEF NewEngine, Past
  <2>. QED  BY <1>1, <1>5, <2>1, CallGoesOn
<1>10. ASSUME NEW e \in Engines, Stop(e)
       PROVE  NumbersKept'
  <2>1. Past(call[e]) /\ call' = [call EXCEPT ![e].pc = "stopped"]
    BY <1>10 DEF Stop, Past
  <2>. QED  BY <1>1, <1>5, <2>1, CallGoesOn
<1>11. ASSUME \/ \E e \in Engines : Poll(e)
              \/ \E e \in Engines \cup {NoEngine} : SetGlobalClient(e)
              \/ UNCHANGED vars
       PROVE  NumbersKept'
  BY <1>3, <1>11 DEF Poll, SetGlobalClient, vars
<1>. QED  BY <1>2, <1>4, <1>6, <1>7, <1>8, <1>9, <1>10, <1>11 DEF Next, SettingsInv

\* An engine runs with the workers and the timeout that follow from what its call asked
\* for, whichever of buildConfig and Load computed them: as many workers as asked for,
\* within the limits; the whole seconds of the timeout, the default instead of less
\* than one, and no more than a day if it came from a file.
THEOREM SettingsAreHonoured == Spec => [](\A e \in Engines : SettingsHonoured(e))
<1>1. Init => SettingsInv
  <2>. SUFFICES ASSUME Init PROVE NumbersKept
    BY InitClients DEF SettingsInv
  <2>1. call = [e \in Engines |-> NoCall] /\ NoCall.pc = "idle"
    BY DEF Init, NoCall
  <2>. QED  BY <2>1 DEF NumbersKept, Past
<1>2. SettingsInv /\ [Next]_vars => SettingsInv'
  BY StepSettings
<1>3. SettingsInv => \A e \in Engines : SettingsHonoured(e)
  <2>. SUFFICES ASSUME SettingsInv, NEW e \in Engines PROVE SettingsHonoured(e)
    OBVIOUS
  <2>1. Built(e) => Limits(call[e].request, call[e].config)
    BY DEF SettingsInv, NumbersKept, Past, Built
  <2>. QED  BY <2>1 DEF SettingsHonoured, Limits
<1>. QED  BY <1>1, <1>2, <1>3, PTL DEF Spec

-----------------------------------------------------------------------------
(* Lists that a loop builds.  What such a loop computes is a fact of       *)
(* induction over its rounds, with a set in place of the predicate.        *)

\* A set of numbers that is not empty has a least element.
LEMMA LeastNumber ==
  ASSUME NEW T \in SUBSET Nat, T # {}
  PROVE  \E m \in T : \A n \in T : m <= n
<1>. DEFINE R == OpToRel(<, Nat)
<1>1. IsWellFoundedOn(R, Nat)
  BY NatLessThanWellFounded
<1>2. \A x, y \in Nat : x < y => <<x, y>> \in R
  BY DEF OpToRel
<1>. HIDE DEF R
<1>3. PICK m \in T : \A n \in T : <<n, m>> \notin R
  BY <1>1, WFMin
<1>4. \A n \in T : ~(n < m)
  BY <1>2, <1>3
<1>5. m \in Nat /\ \A n \in T : n \in Nat
  OBVIOUS
<1>6. \A n \in T : m <= n
  BY <1>4, <1>5
<1>. QED  BY <1>6

\* Induction up to a number, with a set for the predicate.
LEMMA UpToInduction ==
  ASSUME NEW k \in Nat, NEW T, 0 \in T, \A n \in 0..(k - 1) : n \in T => n + 1 \in T
  PROVE  \A n \in 0..k : n \in T
<1>. SUFFICES ASSUME (0..k) \ T # {} PROVE FALSE
  OBVIOUS
<1>. DEFINE D == (0..k) \ T
<1>0. D \in SUBSET Nat /\ D # {}
  OBVIOUS
<1>1. PICK m \in D : \A n \in D : m <= n
  <2>. HIDE DEF D
  <2>. QED  BY <1>0, LeastNumber
<1>2. m \in 1..k
  BY <1>1
<1>3. m - 1 \in 0..(k - 1) /\ m - 1 \in 0..k
  BY <1>2
<1>4. m - 1 \in T
  BY <1>1, <1>2, <1>3
<1>5. (m - 1) + 1 \in T
  BY <1>3, <1>4
<1>. QED  BY <1>1, <1>2, <1>5

\* Function f starts with b and goes on with G.
Solves(f, S, b, k, G) ==
  f \in [0..k -> S] /\ f[0] = b /\ \A n \in 1..k : f[n] = G[<<n, f[n - 1]>>]

\* A recursion over 0..k has a solution.
LEMMA RecursionSolved ==
  ASSUME NEW S, NEW b \in S, NEW k \in Nat, NEW G \in [(1..k) \X S -> S]
  PROVE  \E f : Solves(f, S, b, k, G)
<1>. DEFINE Sol(n) == {f \in [0..n -> S] : f[0] = b /\ \A i \in 1..n : f[i] = G[<<i, f[i - 1]>>]}
            T == {n \in 0..k : Sol(n) # {}}
<1>1. 0 \in T
  <2>1. [i \in 0..0 |-> b] \in Sol(0)
    OBVIOUS
  <2>. HIDE DEF Sol
  <2>. QED  BY <2>1
<1>2. ASSUME NEW n \in 0..(k - 1), n \in T
      PROVE  n + 1 \in T
  <2>1. PICK f \in [0..n -> S] : f[0] = b /\ \A i \in 1..n : f[i] = G[<<i, f[i - 1]>>]
    BY <1>2
  <2>. DEFINE x == G[<<n + 1, f[n]>>]
              g == [i \in 0..(n + 1) |-> IF i = n + 1 THEN x ELSE f[i]]
  <2>2. n \in Nat /\ n + 1 \in 1..k /\ n \in 0..n /\ n + 1 \in 0..k
    BY <1>2
  <2>3. x \in S
    BY <2>1, <2>2
  <2>. HIDE DEF x
  <2>4. g \in [0..(n + 1) -> S]
    BY <2>1, <2>2, <2>3
  <2>5. g[0] = b
    BY <2>1, <2>2
  <2>6. ASSUME NEW i \in 1..(n + 1) PROVE g[i] = G[<<i, g[i - 1]>>]
    <3>1. CASE i = n + 1
      <4>1. i - 1 = n /\ g[i] = x /\ g[n] = f[n]
        BY <2>2, <3>1
      <4>. QED  BY <3>1, <4>1 DEF x
    <3>2. CASE i # n + 1
      <4>1. i \in 1..n /\ g[i] = f[i] /\ g[i - 1] = f[i - 1]
        BY <2>2, <3>2
      <4>. QED  BY <2>1, <4>1
    <3>. QED  BY <3>1, <3>2
  <2>7. g \in Sol(n + 1)
    BY <2>4, <2>5, <2>6
  <2>. QED  BY <2>2, <2>7
<1>3. k \in T
  <2>. HIDE DEF T
  <2>1. \A n \in 0..k : n \in T
    BY <1>1, <1>2, UpToInduction
  <2>. QED  BY <2>1
<1>. QED  BY <1>3 DEF Solves

\* Functions f and h take the same steps.
InStep(f, h, k) == f[0] = h[0] /\ \A n \in 1..k : f[n - 1] = h[n - 1] => f[n] = h[n]

\* Two functions that take the same steps are the same.
LEMMA RecursionUnique ==
  ASSUME NEW k \in Nat, NEW f, NEW h, InStep(f, h, k)
  PROVE  \A n \in 0..k : f[n] = h[n]
<1>. DEFINE U == {n \in 0..k : f[n] = h[n]}
<1>1. 0 \in U
  BY DEF InStep
<1>2. ASSUME NEW n \in 0..(k - 1), n \in U PROVE n + 1 \in U
  <2>1. n + 1 \in 1..k /\ n + 1 \in 0..k /\ (n + 1) - 1 = n
    OBVIOUS
  <2>. QED  BY <1>2, <2>1 DEF InStep
<1>. HIDE DEF U
<1>3. \A n \in 0..k : n \in U
  BY <1>1, <1>2, UpToInduction
<1>. QED  BY <1>3 DEF U

\* Function f joins the rows one after the other.
Joins(f, rows, S) ==
  /\ f \in [0..Len(rows) -> Seq(S)]
  /\ f[0] = <<>> /\ FlattenSeq(rows) = f[Len(rows)]
  /\ \A n \in 1..Len(rows) : f[n] = f[n - 1] \o rows[n]

\* FlattenSeq joins one row after the other.
LEMMA FlattenJoins ==
  ASSUME NEW S, NEW rows \in Seq(Seq(S)), Len(rows) # 0
  PROVE  \E f : Joins(f, rows, S)
<1>. DEFINE k == Len(rows)
            G == [x \in (1..k) \X Seq(S) |-> x[2] \o rows[x[1]]]
<1>1. k \in Nat /\ k >= 1 /\ \A n \in 1..k : rows[n] \in Seq(S)
  OBVIOUS
<1>2. FlattenSeq(rows) = LET flatten[i \in 1..k] ==
                               IF i = 1 THEN rows[i] ELSE flatten[i - 1] \o rows[i]
                         IN flatten[k]
  BY <1>1 DEF FlattenSeq
<1>3. G \in [(1..k) \X Seq(S) -> Seq(S)]
  BY <1>1
<1>4. \A n \in 1..k, s \in Seq(S) : G[<<n, s>>] = s \o rows[n]
  OBVIOUS
<1>. HIDE DEF k, G
<1>5. PICK f \in [0..k -> Seq(S)] : f[0] = <<>> /\ \A n \in 1..k : f[n] = G[<<n, f[n - 1]>>]
  <2>1. PICK Q : Q = Seq(S)
    OBVIOUS
  <2>2. <<>> \in Q
    BY <2>1
  <2>3. G \in [(1..k) \X Q -> Q]
    BY <1>3, <2>1
  <2>4. k \in Nat
    BY <1>1
  <2>5. \E f : Solves(f, Q, <<>>, k, G)
    BY <2>2, <2>3, <2>4, RecursionSolved
  <2>. QED  BY <2>1, <2>5 DEF Solves
<1>6. \A n \in 1..k : f[n] = f[n - 1] \o rows[n]
  <2>1. \A n \in 1..k : f[n - 1] \in Seq(S)
    BY <1>1, <1>5
  <2>. QED  BY <1>4, <1>5, <2>1
<1>. DEFINE Fix(h) == h = [i \in 1..k |-> IF i = 1 THEN rows[i] ELSE h[i - 1] \o rows[i]]
            F == CHOOSE h : Fix(h)
            g == [i \in 1..k |-> f[i]]
<1>. HIDE DEF Fix
<1>11. f[1] = rows[1]
  <2>1. 1 \in 1..k /\ 1 - 1 = 0 /\ rows[1] \in Seq(S)
    BY <1>1
  <2>2. f[1] = f[1 - 1] \o rows[1]
    BY <1>6, <2>1
  <2>3. f[1] = <<>> \o rows[1]
    BY <1>5, <2>1, <2>2
  <2>. QED  BY <2>1, <2>3, ConcatEmptySeq
<1>. USE DEF Fix
<1>7. Fix(g)
  <2>1. f[1] = rows[1]
    BY <1>11
  <2>2. \A i \in 1..k : i # 1 => i - 1 \in 1..k
    BY <1>1
  <2>. QED  BY <1>6, <2>1, <2>2
<1>8. Fix(F)
  <2>. HIDE DEF g
  <2>. QED  BY <1>7
<1>9. FlattenSeq(rows) = F[k]
  BY <1>2
<1>. HIDE DEF F
<1>10. F[k] = f[k]
  <2>. DEFINE h == [n \in 0..k |-> IF n = 0 THEN <<>> ELSE F[n]]
  <2>1. h[0] = f[0]
    BY <1>1, <1>5
  <2>2. ASSUME NEW n \in 1..k, h[n - 1] = f[n - 1] PROVE h[n] = f[n]
    <3>1. h[n] = F[n] /\ n \in Nat
      BY <1>1
    <3>2. CASE n = 1
      BY <1>1, <1>11, <1>8, <3>1, <3>2
    <3>3. CASE n # 1
      <4>1. n - 1 \in 1..k /\ n - 1 \in 0..k /\ n - 1 # 0
        BY <1>1, <3>3
      <4>2. h[n - 1] = F[n - 1]
        BY <4>1
      <4>3. F[n] = F[n - 1] \o rows[n]
        BY <1>8, <3>3
      <4>. QED  BY <1>6, <2>2, <3>1, <4>2, <4>3
    <3>. QED  BY <3>2, <3>3
  <2>. HIDE DEF h
  <2>3. \A n \in 0..k : h[n] = f[n]
    <3>1. k \in Nat
      BY <1>1
    <3>2. InStep(h, f, k)
      BY <2>1, <2>2 DEF InStep
    <3>. QED  BY <3>1, <3>2, RecursionUnique
  <2>4. h[k] = F[k] /\ k \in 0..k
    BY <1>1 DEF h
  <2>. QED  BY <2>3, <2>4
<1>. QED  BY <1>5, <1>6, <1>9, <1>10 DEF k, Joins

-----------------------------------------------------------------------------
(* The poll list. *)

Positions(list, q) == {p \in DOMAIN list : list[p] = q}

\* The rows of names that Expand joins, and the units of weight behind the first n.
Rows(name, w, k) == [i \in 1..k |-> [j \in 1..w[i] |-> name[i]]]
Units(name, w, n, q) == UNION {{i} \X (1..w[i]) : i \in {j \in 1..n : name[j] = q}}

\* Intervals are finite.
LEMMA IntervalSize ==
  ASSUME NEW a \in Nat, NEW m \in Nat
  PROVE  IsFiniteSet((a + 1)..(a + m)) /\ Cardinality((a + 1)..(a + m)) = m
<1>1. a + 1 \in Int /\ a + m \in Int
  OBVIOUS
<1>2. /\ IsFiniteSet((a + 1)..(a + m))
      /\ Cardinality((a + 1)..(a + m)) = IF a + 1 > a + m THEN 0 ELSE (a + m) - (a + 1) + 1
  BY ONLY <1>1, FS_Interval
<1>3. (IF a + 1 > a + m THEN 0 ELSE (a + m) - (a + 1) + 1) = m
  OBVIOUS
<1>. QED  BY <1>2, <1>3

\* The positions of a name in a list are finitely many.
LEMMA PositionsFinite ==
  ASSUME NEW S, NEW list \in Seq(S), NEW q
  PROVE  IsFiniteSet(Positions(list, q)) /\ Cardinality(Positions(list, q)) \in Nat
<1>1. Len(list) \in Nat /\ DOMAIN list = 1..Len(list)
  OBVIOUS
<1>2. PICK k \in Nat : k = Len(list)
  BY <1>1
<1>3. IsFiniteSet((0 + 1)..(0 + k))
  BY IntervalSize
<1>4. (0 + 1)..(0 + k) = 1..k
  OBVIOUS
<1>5. Positions(list, q) \subseteq 1..k
  BY <1>1, <1>2 DEF Positions
<1>. QED  BY <1>3, <1>4, <1>5, FS_Subset, FS_CardinalityType

\* A union of disjoint finite sets.
LEMMA SizesAdd ==
  ASSUME NEW A, NEW B, IsFiniteSet(A), IsFiniteSet(B), A \cap B = {}
  PROVE  IsFiniteSet(A \cup B) /\ Cardinality(A \cup B) = Cardinality(A) + Cardinality(B)
<1>1. /\ IsFiniteSet(A \cup B)
      /\ Cardinality(A \cup B) = Cardinality(A) + Cardinality(B) - Cardinality(A \cap B)
  BY FS_Union
<1>2. Cardinality(A \cap B) = 0
  BY FS_EmptySet
<1>3. Cardinality(A) \in Nat /\ Cardinality(B) \in Nat
  BY FS_CardinalityType
<1>. QED  BY ONLY <1>1, <1>2, <1>3

\* What becomes of a count n of the name q when m times x is added.
With(n, x, q, m) == IF x = q THEN n + m ELSE n

Plus(list, x, m) == list \o [j \in 1..m |-> x]

\* Another row is joined: m times the name x.
LEMMA RowAdded ==
  ASSUME NEW S, NEW a \in Seq(S), NEW x \in S, NEW m \in Nat, m # 0, NEW b,
         b = Plus(a, x, m), NEW q
  PROVE  /\ b \in Seq(S)
         /\ Cardinality(Positions(b, q)) = With(Cardinality(Positions(a, q)), x, q, m)
         /\ (q \in ToSet(b)) <=> (q \in ToSet(a) \/ q = x)
<1>. DEFINE row == [j \in 1..m |-> x]
<1>1. row \in Seq(S) /\ Len(row) = m /\ \A j \in 1..m : row[j] = x
  OBVIOUS
<1>. HIDE DEF row
<1>2. b = a \o row
  BY DEF row, Plus
<1>3. PICK l \in Nat : l = Len(a)
  OBVIOUS
<1>4. /\ b \in Seq(S) /\ Len(b) = l + m /\ DOMAIN b = 1..(l + m) /\ DOMAIN a = 1..l
      /\ \A p \in 1..l : b[p] = a[p]
      /\ \A p \in (l + 1)..(l + m) : b[p] = x
  <2>1. b \in Seq(S) /\ Len(b) = l + m /\ DOMAIN b = 1..(l + m) /\ DOMAIN a = 1..l
    <3>1. a \o row \in Seq(S) /\ Len(a \o row) = Len(a) + Len(row)
      BY <1>1, ConcatProperties
    <3>2. b \in Seq(S) /\ Len(b) = l + m
      BY <1>1, <1>2, <1>3, <3>1
    <3>. QED  BY <1>3, <3>2
  <2>2. \A p \in 1..(l + m) : b[p] = IF p <= l THEN a[p] ELSE row[p - l]
    BY <1>1, <1>2, <1>3
  <2>3. \A p \in 1..l : p \in 1..(l + m) /\ p <= l
    OBVIOUS
  <2>4. \A p \in (l + 1)..(l + m) : p \in 1..(l + m) /\ ~(p <= l) /\ p - l \in 1..m
    OBVIOUS
  <2>. QED  BY <1>1, <2>1, <2>2, <2>3, <2>4
<1>5. \A p : p \in 1..(l + m) <=> (p \in 1..l \/ p \in (l + 1)..(l + m))
  OBVIOUS
<1>6. (1..l) \cap ((l + 1)..(l + m)) = {}
  OBVIOUS
<1>7. IsFiniteSet((l + 1)..(l + m)) /\ Cardinality((l + 1)..(l + m)) = m
  BY IntervalSize
<1>8. Cardinality(Positions(b, q)) = With(Cardinality(Positions(a, q)), x, q, m)
  <2>1. IsFiniteSet(Positions(a, q)) /\ Cardinality(Positions(a, q)) \in Nat /\ Positions(a, q) \subseteq 1..l
    BY <1>4, PositionsFinite DEF Positions
  <2>2. CASE x = q
    <3>1. Positions(b, q) = Positions(a, q) \cup ((l + 1)..(l + m))
      BY <1>4, <1>5, <2>2 DEF Positions
    <3>2. Positions(a, q) \cap ((l + 1)..(l + m)) = {}
      BY <1>6, <2>1
    <3>3. Cardinality(Positions(b, q)) = Cardinality(Positions(a, q)) + m
      BY <1>7, <2>1, <3>1, <3>2, SizesAdd
    <3>. QED  BY <2>2, <3>3 DEF With
  <2>3. CASE x # q
    <3>1. Positions(b, q) = Positions(a, q)
      BY <1>4, <1>5, <2>3 DEF Positions
    <3>. QED  BY <2>1, <2>3, <3>1 DEF With
  <2>. QED  BY <2>2, <2>3
<1>9. (q \in ToSet(b)) <=> (q \in ToSet(a) \/ q = x)
  <2>1. l + 1 \in (l + 1)..(l + m)
    OBVIOUS
  <2>2. \A y : (\E p \in DOMAIN b : b[p] = y) <=> ((\E p \in DOMAIN a : a[p] = y) \/ y = x)
    BY <1>4, <1>5, <2>1
  <2>. QED  BY ONLY <2>2 DEF ToSet
<1>. QED  BY <1>4, <1>8, <1>9

\* The units of one more entry.
LEMMA UnitsAdded ==
  ASSUME NEW name, NEW w, NEW n \in Nat, w[n + 1] \in Nat, NEW q, IsFiniteSet(Units(name, w, n, q))
  PROVE  /\ IsFiniteSet(Units(name, w, n + 1, q))
         /\ Cardinality(Units(name, w, n + 1, q)) =
              With(Cardinality(Units(name, w, n, q)), name[n + 1], q, w[n + 1])
<1>. DEFINE U == Units(name, w, n, q)
            V == {n + 1} \X (1..w[n + 1])
<1>1. n \in Nat /\ w[n + 1] \in Nat
  OBVIOUS
<1>2. \A i : i \in 1..(n + 1) <=> (i \in 1..n \/ i = n + 1)
  BY <1>1
<1>3. n + 1 \notin 1..n
  BY <1>1
<1>4. CASE name[n + 1] = q
  <2>1. {j \in 1..(n + 1) : name[j] = q} = {j \in 1..n : name[j] = q} \cup {n + 1}
    BY <1>2, <1>4
  <2>2. Units(name, w, n + 1, q) = U \cup V
    BY <2>1 DEF Units
  <2>3. U \cap V = {}
    BY <1>3 DEF Units
  <2>4. IsFiniteSet(V) /\ Cardinality(V) = w[n + 1]
    <3>1. PICK m \in Nat : m = w[n + 1]
      BY <1>1
    <3>2. IsFiniteSet((0 + 1)..(0 + m)) /\ Cardinality((0 + 1)..(0 + m)) = m
      BY IntervalSize
    <3>3. (0 + 1)..(0 + m) = 1..m
      OBVIOUS
    <3>4. IsFiniteSet({n + 1}) /\ Cardinality({n + 1}) = 1
      BY FS_Singleton
    <3>5. IsFiniteSet({n + 1} \X (1..m)) /\ Cardinality({n + 1} \X (1..m)) = 1 * m
      <4>1. PICK A : A = {n + 1}
        OBVIOUS
      <4>2. PICK B : B = 1..m
        OBVIOUS
      <4>3. IsFiniteSet(A) /\ IsFiniteSet(B) /\ Cardinality(A) = 1 /\ Cardinality(B) = m
        BY <3>2, <3>3, <3>4, <4>1, <4>2
      <4>4. IsFiniteSet(A \X B) /\ Cardinality(A \X B) = Cardinality(A) * Cardinality(B)
        BY ONLY <4>3, FS_Product
      <4>. QED  BY <4>1, <4>2, <4>3, <4>4
    <3>. QED  BY <3>1, <3>5
  <2>. HIDE DEF U, V
  <2>5. IsFiniteSet(U)
    BY DEF U
  <2>6. IsFiniteSet(U \cup V) /\ Cardinality(U \cup V) = Cardinality(U) + Cardinality(V)
    BY <2>3, <2>4, <2>5, SizesAdd
  <2>. QED  BY <1>4, <2>2, <2>4, <2>6 DEF U, With
<1>5. CASE name[n + 1] # q
  <2>1. {j \in 1..(n + 1) : name[j] = q} = {j \in 1..n : name[j] = q}
    BY <1>2, <1>5
  <2>2. Units(name, w, n + 1, q) = Units(name, w, n, q)
    BY <2>1 DEF Units
  <2>3. Cardinality(Units(name, w, n, q)) \in Nat
    BY FS_CardinalityType
  <2>. QED  BY <1>5, <2>2, <2>3 DEF With
<1>. QED  BY <1>4, <1>5

\* k names of S with their weights, and the list in which each has its weight.
Entries(S, k, name, w) == k \in Nat \ {0} /\ name \in [1..k -> S] /\ w \in [1..k -> Nat \ {0}]
Weighed(S, k, name, w, list) ==
  /\ list \in Seq(S) /\ Len(list) # 0
  /\ ToSet(list) = {name[i] : i \in 1..k}
  /\ \A q : Cardinality(Positions(list, q)) = Cardinality(Units(name, w, k, q))

\* In the joined rows every name is as often as it weighs, over all its entries.
LEMMA RowsWeigh ==
  ASSUME NEW S, NEW k, NEW name, NEW w, NEW list, Entries(S, k, name, w),
         list = FlattenSeq(Rows(name, w, k))
  PROVE  Weighed(S, k, name, w, list)
<1>. SUFFICES /\ list \in Seq(S) /\ Len(list) # 0
              /\ ToSet(list) = {name[i] : i \in 1..k}
              /\ \A q : Cardinality(Positions(list, q)) = Cardinality(Units(name, w, k, q))
  BY DEF Weighed
<1>0. k \in Nat \ {0} /\ name \in [1..k -> S] /\ w \in [1..k -> Nat \ {0}]
  BY DEF Entries
<1>. USE <1>0
<1>. DEFINE rows == Rows(name, w, k)
<1>1. \A i \in 1..k : name[i] \in S /\ w[i] \in Nat /\ w[i] # 0
  OBVIOUS
<1>2. /\ rows \in Seq(Seq(S)) /\ Len(rows) = k
      /\ \A i \in 1..k : rows[i] = [j \in 1..w[i] |-> name[i]]
  <2>1. ASSUME NEW i \in 1..k PROVE [j \in 1..w[i] |-> name[i]] \in Seq(S)
    <3>1. PICK m \in Nat : m = w[i]
      BY <1>1
    <3>2. PICK x \in S : x = name[i]
      BY <1>1
    <3>3. [j \in 1..m |-> x] \in Seq(S)
      BY ONLY m \in Nat, x \in S
    <3>. QED  BY ONLY <3>1, <3>2, <3>3
  <2>. QED  BY <2>1 DEF Rows
<1>. HIDE DEF rows
<1>3. PICK f \in [0..k -> Seq(S)] :
        /\ f[0] = <<>> /\ list = f[k]
        /\ \A n \in 1..k : f[n] = f[n - 1] \o rows[n]
  <2>1. rows \in Seq(Seq(S)) /\ Len(rows) # 0
    BY <1>2
  <2>2. PICK f : Joins(f, rows, S)
    BY <2>1, FlattenJoins
  <2>3. list = FlattenSeq(rows)
    BY DEF rows
  <2>. QED  BY <1>2, <2>2, <2>3 DEF Joins
<1>. DEFINE Right(n) == /\ ToSet(f[n]) = {name[i] : i \in 1..n}
                        /\ \A q : /\ IsFiniteSet(Units(name, w, n, q))
                                  /\ Cardinality(Positions(f[n], q)) = Cardinality(Units(name, w, n, q))
            T == {n \in 0..k : Right(n)}
<1>4. 0 \in T
  <2>1. 1..0 = {} /\ DOMAIN f[0] = {}
    BY <1>3
  <2>2. ToSet(f[0]) = {name[i] : i \in 1..0}
    BY <2>1 DEF ToSet
  <2>3. \A q : Positions(f[0], q) = {} /\ Units(name, w, 0, q) = {}
    BY <2>1 DEF Positions, Units
  <2>4. IsFiniteSet({})
    BY FS_EmptySet
  <2>. QED  BY <2>2, <2>3, <2>4
<1>5. ASSUME NEW n \in 0..(k - 1), n \in T PROVE n + 1 \in T
  <2>1. n \in Nat /\ n + 1 \in 1..k /\ (n + 1) - 1 = n /\ n \in 0..k /\ n + 1 \in 0..k
    OBVIOUS
  <2>2. PICK x \in S : x = name[n + 1]
    BY <1>1, <2>1
  <2>3. PICK m \in Nat : m = w[n + 1] /\ m # 0
    BY <1>1, <2>1
  <2>4. f[n + 1] = f[n] \o [j \in 1..m |-> x] /\ f[n] \in Seq(S)
    BY <1>2, <1>3, <2>1, <2>2, <2>3
  <2>5. /\ ToSet(f[n + 1]) = ToSet(f[n]) \cup {x}
        /\ \A q : Cardinality(Positions(f[n + 1], q)) =
                    With(Cardinality(Positions(f[n], q)), x, q, m)
    <3>1. PICK a \in Seq(S) : a = f[n]
      BY <2>4
    <3>2. PICK b : b = f[n + 1]
      OBVIOUS
    <3>3. b = Plus(a, x, m)
      BY <2>4, <3>1, <3>2 DEF Plus
    <3>4. /\ \A q : Cardinality(Positions(b, q)) = With(Cardinality(Positions(a, q)), x, q, m)
          /\ ToSet(b) = ToSet(a) \cup {x}
      <4>1. a \in Seq(S) /\ x \in S /\ m \in Nat /\ m # 0
        BY <2>2, <2>3, <3>1
      <4>2. ASSUME NEW q
            PROVE  /\ Cardinality(Positions(b, q)) = With(Cardinality(Positions(a, q)), x, q, m)
                   /\ (q \in ToSet(b)) <=> (q \in ToSet(a) \/ q = x)
        <5>1. Cardinality(Positions(b, q)) = With(Cardinality(Positions(a, q)), x, q, m)
          BY ONLY <3>3, <4>1, RowAdded
        <5>2. q \in ToSet(b) => (q \in ToSet(a) \/ q = x)
          BY ONLY <3>3, <4>1, RowAdded
        <5>3. q \in ToSet(a) => q \in ToSet(b)
          BY ONLY <3>3, <4>1, RowAdded
        <5>4. q = x => q \in ToSet(b)
          BY ONLY <3>3, <4>1, RowAdded
        <5>. QED  BY <5>1, <5>2, <5>3, <5>4
      <4>3. ToSet(b) = ToSet(a) \cup {x}
        BY <4>2
      <4>. QED  BY <4>2, <4>3
    <3>. QED  BY <3>1, <3>2, <3>4
  <2>6. \A i : i \in 1..(n + 1) <=> (i \in 1..n \/ i = n + 1)
    BY <2>1
  <2>7. ToSet(f[n + 1]) = {name[i] : i \in 1..(n + 1)}
    BY <1>5, <2>2, <2>5, <2>6
  <2>8. ASSUME NEW q
        PROVE  /\ IsFiniteSet(Units(name, w, n + 1, q))
               /\ Cardinality(Positions(f[n + 1], q)) = Cardinality(Units(name, w, n + 1, q))
    <3>1. /\ IsFiniteSet(Units(name, w, n, q))
          /\ Cardinality(Positions(f[n], q)) = Cardinality(Units(name, w, n, q))
      BY <1>5
    <3>2. /\ IsFiniteSet(Units(name, w, n + 1, q))
          /\ Cardinality(Units(name, w, n + 1, q)) =
               With(Cardinality(Units(name, w, n, q)), name[n + 1], q, w[n + 1])
      <4>1. n \in Nat /\ w[n + 1] \in Nat
        BY <2>1, <2>3
      <4>. QED  BY ONLY <3>1, <4>1, UnitsAdded
    <3>3. Cardinality(Positions(f[n + 1], q)) =
            With(Cardinality(Positions(f[n], q)), x, q, m)
      BY <2>5
    <3>. QED  BY <2>2, <2>3, <3>1, <3>2, <3>3
  <2>. QED  BY <2>1, <2>7, <2>8
<1>6. Right(k)
  <2>. HIDE DEF T
  <2>1. k \in Nat /\ k \in 0..k
    OBVIOUS
  <2>2. \A n \in 0..k : n \in T
    BY <1>4, <1>5, <2>1, UpToInduction
  <2>. QED  BY <2>1, <2>2 DEF T
<1>7. list \in Seq(S)
  BY <1>3
<1>8. Len(list) # 0
  <2>1. name[1] \in ToSet(list)
    <3>1. 1 \in 1..k
      OBVIOUS
    <3>. QED  BY <1>3, <1>6, <3>1
  <2>. QED  BY <1>7, <2>1 DEF ToSet
<1>. QED  BY <1>3, <1>6, <1>7, <1>8

\* k entries with these names, and the list that has each of them once.
Named(S, k, name, queues) ==
  Len(queues) = k /\ name \in [1..k -> S] /\ \A i \in 1..k : queues[i].name = name[i]
NamedOnce(k, name, names) == ToSet(names) = {name[i] : i \in 1..k} /\ IsInjective(names)

\* Health's names: every name once.
LEMMA NamesOnce ==
  ASSUME NEW S, NEW queues, NEW k \in Nat, NEW name, NEW names, Named(S, k, name, queues),
         names = DedupQueueNames(queues)
  PROVE  NamedOnce(k, name, names)
<1>. SUFFICES ToSet(names) = {name[i] : i \in 1..k} /\ IsInjective(names)
  BY DEF NamedOnce
<1>0. Len(queues) = k /\ name \in [1..k -> S] /\ \A i \in 1..k : queues[i].name = name[i]
  BY DEF Named
<1>. USE <1>0
<1>. DEFINE Add(s, x) == IF Contains(s, x) THEN s ELSE Append(s, x)
            G == [p \in (1..k) \X Seq(S) |-> Add(p[2], name[p[1]])]
<1>1. \A s \in Seq(S), x \in S : Add(s, x) \in Seq(S)
  BY DEF Contains
<1>2. G \in [(1..k) \X Seq(S) -> Seq(S)]
  <2>. HIDE DEF Add
  <2>. QED  BY <1>1
<1>3. \A n \in 1..k, s \in Seq(S) : G[<<n, s>>] = Add(s, name[n])
  <2>. HIDE DEF Add
  <2>. QED  OBVIOUS
<1>. HIDE DEF G
<1>4. PICK f : f \in [0..k -> Seq(S)] /\ f[0] = <<>> /\ \A n \in 1..k : f[n] = Add(f[n - 1], name[n])
  <2>1. PICK Q : Q = Seq(S)
    OBVIOUS
  <2>2. <<>> \in Q
    BY <2>1
  <2>3. G \in [(1..k) \X Q -> Q]
    BY <1>2, <2>1
  <2>4. PICK f : Solves(f, Q, <<>>, k, G)
    BY <2>2, <2>3, RecursionSolved
  <2>5. f \in [0..k -> Seq(S)] /\ f[0] = <<>> /\ \A n \in 1..k : f[n] = G[<<n, f[n - 1]>>]
    BY <2>1, <2>4 DEF Solves
  <2>6. \A n \in 1..k : f[n - 1] \in Seq(S)
    BY <2>5
  <2>. HIDE DEF Add
  <2>7. \A n \in 1..k : f[n] = Add(f[n - 1], name[n])
    BY ONLY <1>3, <2>5, <2>6
  <2>. QED  BY ONLY <2>5, <2>7
<1>. DEFINE Fix(h) == h = [n \in 0..k |-> IF n = 0 THEN <<>>
                            ELSE IF Contains(h[n - 1], queues[n].name) THEN h[n - 1]
                            ELSE Append(h[n - 1], queues[n].name)]
            F == CHOOSE h : Fix(h)
<1>5. Fix(f)
  <2>1. f = [n \in 0..k |-> f[n]]
    BY <1>4
  <2>2. \A n \in 0..k : n = 0 \/ n \in 1..k
    OBVIOUS
  <2>. QED  BY <1>4, <2>1, <2>2
<1>6. Fix(F)
  BY <1>5
<1>7. names = F[k]
  BY DEF DedupQueueNames
<1>. HIDE DEF F
<1>8. names = f[k]
  <2>1. InStep(F, f, k)
    <3>1. F[0] = f[0]
      BY <1>4, <1>6
    <3>2. ASSUME NEW n \in 1..k, F[n - 1] = f[n - 1] PROVE F[n] = f[n]
      <4>1. n \in 0..k /\ n # 0
        OBVIOUS
      <4>. QED  BY <1>4, <1>6, <3>2, <4>1
    <3>. QED  BY <3>1, <3>2 DEF InStep
  <2>2. F[k] = f[k]
    <3>1. \A n \in 0..k : F[n] = f[n]
      BY <2>1, RecursionUnique
    <3>. QED  BY <3>1
  <2>. QED  BY <1>7, <2>2
<1>. DEFINE T == {n \in 0..k : ToSet(f[n]) = {name[i] : i \in 1..n} /\ IsInjective(f[n])}
<1>9. 0 \in T
  BY <1>4 DEF ToSet, IsInjective
<1>10. ASSUME NEW n \in 0..(k - 1), n \in T PROVE n + 1 \in T
  <2>1. n \in Nat /\ n + 1 \in 1..k /\ (n + 1) - 1 = n /\ n + 1 \in 0..k
    OBVIOUS
  <2>2. PICK x \in S : x = name[n + 1]
    BY <2>1
  <2>3. f[n + 1] = Add(f[n], x) /\ f[n] \in Seq(S)
    <3>1. f[n + 1] = Add(f[(n + 1) - 1], name[n + 1])
      BY <1>4, <2>1
    <3>. QED  BY <1>4, <2>1, <2>2, <3>1
  <2>4. \A i : i \in 1..(n + 1) <=> (i \in 1..n \/ i = n + 1)
    BY <2>1
  <2>5. ASSUME NEW s \in Seq(S), IsInjective(s)
        PROVE  ToSet(Add(s, x)) = ToSet(s) \cup {x} /\ IsInjective(Add(s, x))
    <3>1. DOMAIN s = 1..Len(s)
      OBVIOUS
    <3>2. CASE Contains(s, x)
      BY <2>5, <3>1, <3>2 DEF Contains, ToSet
    <3>3. CASE ~Contains(s, x)
      <4>1. PICK t : t = Append(s, x)
        OBVIOUS
      <4>2. PICK l \in Nat : l = Len(s)
        OBVIOUS
      <4>3. DOMAIN t = 1..(l + 1) /\ t[l + 1] = x /\ \A i \in 1..l : t[i] = s[i] /\ s[i] # x
        BY <3>3, <4>1, <4>2 DEF Contains
      <4>4. \A i : i \in 1..(l + 1) <=> (i \in 1..l \/ i = l + 1)
        OBVIOUS
      <4>5. ToSet(t) = ToSet(s) \cup {x}
        BY <3>1, <4>2, <4>3, <4>4 DEF ToSet
      <4>6. IsInjective(t)
        BY <2>5, <3>1, <4>2, <4>3, <4>4 DEF IsInjective
      <4>. QED  BY <3>3, <4>1, <4>5, <4>6
    <3>. QED  BY <3>2, <3>3
  <2>. HIDE DEF Add
  <2>6. ToSet(f[n + 1]) = ToSet(f[n]) \cup {x} /\ IsInjective(f[n + 1])
    BY <1>10, <2>3, <2>5
  <2>7. ToSet(f[n + 1]) = {name[i] : i \in 1..(n + 1)}
    BY <1>10, <2>2, <2>4, <2>6
  <2>. QED  BY <2>1, <2>6, <2>7
<1>11. k \in T
  <2>. HIDE DEF T
  <2>1. \A n \in 0..k : n \in T
    BY <1>9, <1>10, UpToInduction
  <2>. QED  BY <2>1
<1>. QED  BY <1>8, <1>11

-----------------------------------------------------------------------------
(* Queues. *)

\* The poll list that a request should lead to.
ListRight(r, list) ==
  /\ list \in Seq(ToSet(list)) /\ Len(list) # 0
  /\ {r.queues[i].name : i \in DOMAIN r.queues} \subseteq ToSet(list)
  /\ \A q : Cardinality(Positions(list, q)) = Share(r, q)

\* The names that Health should report for it.
NamesRight(r, queues, list) ==
  IF queues = <<>> THEN r.via = "QuickStart" /\ list = <<"default">>
  ELSE ToSet(DedupQueueNames(queues)) = ToSet(list) /\ IsInjective(DedupQueueNames(queues))

\* A weight is at least one, and once is enough.
LEMMA WeightsPositive ==
  ASSUME NEW w \in Int
  PROVE  /\ AtLeastOne(w) \in Nat \ {0}
         /\ AtLeastOne(AtLeastOne(w)) = AtLeastOne(w)
BY DEF AtLeastOne

\* What a request asks for, as names and weights.
LEMMA AskedIs ==
  ASSUME NEW r \in Requests, NEW k, k = Len(Asked(r))
  PROVE  /\ k \in Nat \ {0} /\ DOMAIN Asked(r) = 1..k
         /\ \A i \in 1..k : Weight(Asked(r)[i]) \in Nat \ {0}
         /\ r.queues # <<>> => /\ Asked(r) = r.queues
                               /\ \A i \in 1..k : r.queues[i].weight \in Int \cup {NoWeight}
<1>1. r.queues \in Seq(QueueOption) /\ NoWeight \notin Int
  BY ConfigurationAssumption DEF Request
<1>2. \A x \in QueueOption : x.weight \in Int \cup {NoWeight}
  BY DEF QueueOption
<1>3. \A x : x.weight \in Int \cup {NoWeight} => Weight(x) \in Nat \ {0}
  BY <1>1, WeightsPositive DEF Weight
<1>4. CASE r.queues = <<>>
  <2>1. Asked(r) = <<[name |-> "default", weight |-> 1]>>
    BY <1>4 DEF Asked
  <2>2. k = 1 /\ DOMAIN Asked(r) = 1..1 /\ Asked(r)[1] = [name |-> "default", weight |-> 1]
    BY <2>1
  <2>3. Asked(r)[1].name = "default" /\ Asked(r)[1].weight = 1
    BY <2>2
  <2>4. Weight(Asked(r)[1]) \in Nat \ {0}
    <3>1. 1 \in Int \cup {NoWeight}
      OBVIOUS
    <3>. QED  BY ONLY <1>3, <2>3, <3>1
  <2>. QED  BY <1>4, <2>2, <2>4
<1>5. CASE r.queues # <<>>
  <2>1. Asked(r) = r.queues
    BY <1>5 DEF Asked
  <2>2. k \in Nat \ {0} /\ DOMAIN r.queues = 1..k /\ \A i \in 1..k : r.queues[i] \in QueueOption
    BY <1>1, <1>5, <2>1
  <2>. QED  BY <1>2, <1>3, <2>1, <2>2
<1>. QED  BY <1>4, <1>5

\* A list of entries with these names and weights is expanded and named as it should.
LEMMA EntriesRight ==
  ASSUME NEW r \in Requests, NEW queues, NEW k, k = Len(Asked(r)),
         DOMAIN queues = 1..k, Len(queues) = k,
         \A i \in 1..k : /\ queues[i].name = Asked(r)[i].name
                         /\ AtLeastOne(queues[i].weight) = Weight(Asked(r)[i])
  PROVE  /\ ListRight(r, PollList(queues)) /\ NamesRight(r, queues, PollList(queues))
         /\ queues # <<>>
<1>. DEFINE name == [i \in 1..k |-> Asked(r)[i].name]
            w == [i \in 1..k |-> Weight(Asked(r)[i])]
<1>1. /\ k \in Nat \ {0} /\ DOMAIN Asked(r) = 1..k
      /\ \A i \in 1..k : Weight(Asked(r)[i]) \in Nat \ {0}
      /\ r.queues # <<>> => Asked(r) = r.queues
  BY AskedIs
<1>2. name \in [1..k -> {name[i] : i \in 1..k}] /\ w \in [1..k -> Nat \ {0}]
  BY <1>1
<1>3. \A i \in 1..k : queues[i].name = name[i] /\ AtLeastOne(queues[i].weight) = w[i]
  OBVIOUS
<1>4. \A q : Share(r, q) = Cardinality(Units(name, w, k, q))
  <2>. SUFFICES ASSUME NEW q
                PROVE  UNION {{i} \X (1..Weight(Asked(r)[i])) :
                                i \in {j \in DOMAIN Asked(r) : Asked(r)[j].name = q}}
                         = Units(name, w, k, q)
    BY DEF Share
  <2>1. {j \in DOMAIN Asked(r) : Asked(r)[j].name = q} = {j \in 1..k : name[j] = q}
    BY <1>1
  <2>2. \A i \in 1..k : w[i] = Weight(Asked(r)[i])
    OBVIOUS
  <2>. HIDE DEF name, w
  <2>. QED  BY <2>1, <2>2 DEF Units
<1>5. {r.queues[i].name : i \in DOMAIN r.queues} \subseteq {name[i] : i \in 1..k}
  <2>1. CASE r.queues = <<>>
    BY <2>1
  <2>2. CASE r.queues # <<>>
    BY <1>1, <2>2
  <2>. QED  BY <2>1, <2>2
<1>. HIDE DEF name, w
<1>6. queues # <<>>
  BY <1>1
<1>. DEFINE list == PollList(queues)
<1>7. list = FlattenSeq(Rows(name, w, k))
  <2>1. list = FlattenSeq([i \in 1..k |-> [j \in 1..AtLeastOne(queues[i].weight) |-> queues[i].name]])
    BY <1>6 DEF PollList, Expand
  <2>2. [i \in 1..k |-> [j \in 1..AtLeastOne(queues[i].weight) |-> queues[i].name]] = Rows(name, w, k)
    BY <1>3 DEF Rows
  <2>. QED  BY <2>1, <2>2
<1>. HIDE DEF list
<1>8. Weighed({name[i] : i \in 1..k}, k, name, w, list)
  <2>1. PICK S : S = {name[i] : i \in 1..k}
    OBVIOUS
  <2>2. Entries(S, k, name, w)
    BY <1>1, <1>2, <2>1 DEF Entries
  <2>3. Weighed(S, k, name, w, list)
    BY <1>7, <2>2, RowsWeigh
  <2>. QED  BY <2>1, <2>3
<1>9. ListRight(r, list)
  BY <1>4, <1>5, <1>8 DEF ListRight, Weighed
<1>10. PICK names : names = DedupQueueNames(queues)
  OBVIOUS
<1>11. NamedOnce(k, name, names)
  <2>1. PICK S : S = {name[i] : i \in 1..k}
    OBVIOUS
  <2>2. k \in Nat /\ Named(S, k, name, queues)
    BY <1>1, <1>2, <1>3, <2>1 DEF Named
  <2>. QED  BY <1>10, <2>2, NamesOnce
<1>13. queues # <<>>
  <2>1. Len(<<>>) = 0
    OBVIOUS
  <2>. QED  BY <1>1, <2>1
<1>12. NamesRight(r, queues, list)
  BY <1>8, <1>10, <1>11, <1>13 DEF NamesRight, NamedOnce, Weighed
<1>. QED  BY <1>9, <1>12, <1>13 DEF list

\* Whether they come as options or from a file, the queues of a request are polled as
\* it says, and Health names them.
LEMMA QueuesRight ==
  ASSUME NEW r \in Requests, NEW queues, queues = ConfigOf(r).queues
  PROVE  ListRight(r, PollList(queues)) /\ NamesRight(r, queues, PollList(queues))
<1>1. PICK k : k = Len(Asked(r))
  OBVIOUS
<1>2. /\ k \in Nat \ {0} /\ DOMAIN Asked(r) = 1..k
      /\ r.queues # <<>> => /\ Asked(r) = r.queues
                            /\ \A i \in 1..k : r.queues[i].weight \in Int \cup {NoWeight}
  BY <1>1, AskedIs
<1>3. NoWeight \notin Int /\ r.queues \in Seq(QueueOption)
  BY ConfigurationAssumption DEF Request
<1>4. r.queues = <<>> => k = 1 /\ Asked(r)[1].name = "default" /\ Weight(Asked(r)[1]) = 1
  <2>. SUFFICES ASSUME r.queues = <<>>
                PROVE  k = 1 /\ Asked(r)[1].name = "default" /\ Weight(Asked(r)[1]) = 1
    OBVIOUS
  <2>1. Asked(r) = <<[name |-> "default", weight |-> 1]>>
    BY DEF Asked
  <2>2. k = 1 /\ Asked(r)[1] = [name |-> "default", weight |-> 1]
    BY <1>1, <2>1
  <2>3. AtLeastOne(1) = 1 /\ NoWeight # 1
    BY <1>3 DEF AtLeastOne
  <2>. QED  BY <2>2, <2>3 DEF Weight
<1>5. CASE r.via # "QuickStart" /\ r.queues = <<>>
  <2>1. queues = <<[name |-> "default", weight |-> 1]>>
    BY <1>5 DEF ConfigOf, BuildConfig, OptionQueues
  <2>2. /\ DOMAIN queues = 1..1 /\ Len(queues) = 1
        /\ queues[1].name = "default" /\ queues[1].weight = 1
    BY <2>1
  <2>3. AtLeastOne(1) = 1
    BY DEF AtLeastOne
  <2>4. \A i \in 1..k : /\ queues[i].name = Asked(r)[i].name
                        /\ AtLeastOne(queues[i].weight) = Weight(Asked(r)[i])
    BY <1>4, <1>5, <2>2, <2>3
  <2>. QED  BY <1>1, <1>4, <1>5, <2>2, <2>4, EntriesRight
<1>6. CASE r.via # "QuickStart" /\ r.queues # <<>>
  <2>1. \A i \in 1..k : r.queues[i].weight \in Int
    <3>1. \A i \in 1..k : r.queues[i] \in QueueOption /\ r.queues[i].form = "option"
      BY <1>2, <1>3, <1>6, ConfigurationAssumption
    <3>2. \A x \in QueueOption : x.form = "option" => x.weight \in Int
      BY DEF QueueOption
    <3>. QED  BY <3>1, <3>2
  <2>2. DOMAIN r.queues = 1..k
    BY <1>2, <1>6
  <2>3. queues = [i \in 1..k |-> [name |-> r.queues[i].name, weight |-> AtLeastOne(r.queues[i].weight)]]
    BY <1>6, <2>2 DEF ConfigOf, BuildConfig, OptionQueues
  <2>4. /\ DOMAIN queues = 1..k /\ Len(queues) = k
        /\ \A i \in 1..k : /\ queues[i].name = r.queues[i].name
                           /\ queues[i].weight = AtLeastOne(r.queues[i].weight)
    BY <1>2, <2>3
  <2>5. \A i \in 1..k : Weight(r.queues[i]) = AtLeastOne(r.queues[i].weight)
    BY <1>3, <2>1 DEF Weight
  <2>6. \A i \in 1..k : AtLeastOne(AtLeastOne(r.queues[i].weight)) = AtLeastOne(r.queues[i].weight)
    BY <2>1, WeightsPositive
  <2>7. \A i \in 1..k : /\ queues[i].name = Asked(r)[i].name
                        /\ AtLeastOne(queues[i].weight) = Weight(Asked(r)[i])
    BY <1>2, <1>6, <2>4, <2>5, <2>6
  <2>. QED  BY <1>1, <2>4, <2>7, EntriesRight
<1>7. CASE r.via = "QuickStart" /\ r.queues # <<>>
  <2>1. DOMAIN r.queues = 1..k
    BY <1>2, <1>7
  <2>2. queues = [i \in 1..k |-> UnmarshalYAML(r.queues[i])]
    BY <1>7, <2>1 DEF ConfigOf, LoadConfig
  <2>3. DOMAIN queues = 1..k /\ Len(queues) = k /\ \A i \in 1..k : queues[i] = UnmarshalYAML(r.queues[i])
    BY <1>2, <2>2
  <2>4. ASSUME NEW x, x.weight \in Int \cup {NoWeight}
        PROVE  UnmarshalYAML(x).name = x.name /\ AtLeastOne(UnmarshalYAML(x).weight) = Weight(x)
    <3>1. AtLeastOne(1) = 1 /\ AtLeastOne(0) = 1
      BY DEF AtLeastOne
    <3>2. /\ UnmarshalYAML(x).name = x.name
          /\ UnmarshalYAML(x).weight = IF x.weight = NoWeight \/ (x.form = "map" /\ x.weight = 0)
                                       THEN 1 ELSE x.weight
      BY DEF UnmarshalYAML
    <3>. QED  BY <1>3, <2>4, <3>1, <3>2 DEF Weight
  <2>5. \A i \in 1..k : /\ queues[i].name = Asked(r)[i].name
                        /\ AtLeastOne(queues[i].weight) = Weight(Asked(r)[i])
    BY <1>2, <1>7, <2>3, <2>4
  <2>. QED  BY <1>1, <2>3, <2>5, EntriesRight
<1>8. CASE r.via = "QuickStart" /\ r.queues = <<>>
  <2>1. queues = <<>>
    <3>1. queues = [i \in DOMAIN r.queues |-> UnmarshalYAML(r.queues[i])]
      BY <1>8 DEF ConfigOf, LoadConfig
    <3>. QED  BY <1>8, <3>1
  <2>2. PICK asked : asked = <<[name |-> "default", weight |-> 1]>>
    OBVIOUS
  <2>3. DOMAIN asked = 1..1 /\ Len(asked) = 1 /\ asked[1].name = "default" /\ asked[1].weight = 1
    BY <2>2
  <2>4. AtLeastOne(1) = 1
    BY DEF AtLeastOne
  <2>5. ListRight(r, PollList(asked))
    <3>1. \A i \in 1..k : /\ asked[i].name = Asked(r)[i].name
                          /\ AtLeastOne(asked[i].weight) = Weight(Asked(r)[i])
      BY <1>4, <1>8, <2>3, <2>4
    <3>. QED  BY <1>1, <1>4, <1>8, <2>3, <3>1, EntriesRight
  <2>6. PollList(asked) = PollList(queues)
    <3>1. PICK d : d = "default"
      OBVIOUS
    <3>. DEFINE row == [j \in 1..1 |-> d]
                rows == [i \in 1..1 |-> row]
    <3>2. asked # <<>>
      BY <2>2
    <3>3. PollList(asked) = FlattenSeq(rows)
      BY <2>3, <2>4, <3>1, <3>2 DEF PollList, Expand
    <3>4. row \in Seq({d}) /\ row = <<d>>
      OBVIOUS
    <3>. HIDE DEF row
    <3>5. rows \in Seq(Seq({d})) /\ Len(rows) = 1 /\ rows[1] = row
      BY <3>4
    <3>. HIDE DEF rows
    <3>6. PICK f : Joins(f, rows, {d})
      <4>1. PICK S : S = {d}
        OBVIOUS
      <4>2. rows \in Seq(Seq(S)) /\ Len(rows) # 0
        BY <3>5, <4>1
      <4>3. \E f : Joins(f, rows, S)
        BY ONLY <4>2, FlattenJoins
      <4>. QED  BY <4>1, <4>3
    <3>7. f[0] = <<>> /\ FlattenSeq(rows) = f[1] /\ f[1] = f[1 - 1] \o rows[1]
      <4>1. 1 \in 1..1
        OBVIOUS
      <4>. QED  BY <3>5, <3>6, <4>1 DEF Joins
    <3>8. FlattenSeq(rows) = <<>> \o row
      <4>1. 1 - 1 = 0
        OBVIOUS
      <4>. QED  BY ONLY <3>5, <3>7, <4>1
    <3>9. <<>> \o row = row
      BY <3>4, ConcatEmptySeq
    <3>10. PollList(queues) = <<"default">>
      BY <2>1 DEF PollList
    <3>. QED  BY ONLY <3>1, <3>3, <3>4, <3>8, <3>9, <3>10
  <2>7. PollList(queues) = <<"default">>
    BY <2>1 DEF PollList
  <2>. QED  BY <1>8, <2>1, <2>5, <2>6, <2>7 DEF NamesRight
<1>. QED  BY <1>5, <1>6, <1>7, <1>8

-----------------------------------------------------------------------------
(* Rounds. *)

\* How often queue q stands in the first c places of a poll list.
Polled(list, c, q) == Cardinality({p \in 1..c : list[p] = q})

\* The counts of a fetcher with its cursor at c: of the round so far or, at the
\* start of a round, none or those of a full round.
RoundRight(list, c, n) ==
  /\ c \in 0..(Len(list) - 1)
  /\ n \in [ToSet(list) -> Nat]
  /\ c # 0 => \A q \in ToSet(list) : n[q] = Polled(list, c, q)
  /\ c = 0 => \/ \A q \in ToSet(list) : n[q] = 0
              \/ \A q \in ToSet(list) : n[q] = Cardinality(Positions(list, q))

\* One more place of the list is passed.
LEMMA PolledNext ==
  ASSUME NEW list, NEW c \in Nat, NEW q
  PROVE  /\ Polled(list, c, q) \in Nat
         /\ Polled(list, c + 1, q) = With(Polled(list, c, q), list[c + 1], q, 1)
<1>. DEFINE P(n) == {p \in 1..n : list[p] = q}
<1>1. IsFiniteSet(1..c)
  <2>1. IsFiniteSet((0 + 1)..(0 + c))
    BY IntervalSize
  <2>2. (0 + 1)..(0 + c) = 1..c
    OBVIOUS
  <2>. QED  BY ONLY <2>1, <2>2
<1>2. P(c) \subseteq 1..c
  OBVIOUS
<1>3. IsFiniteSet(P(c)) /\ Cardinality(P(c)) \in Nat
  <2>. HIDE DEF P
  <2>. QED  BY <1>1, <1>2, FS_Subset, FS_CardinalityType
<1>4. \A p : p \in 1..(c + 1) <=> (p \in 1..c \/ p = c + 1)
  OBVIOUS
<1>5. c + 1 \notin P(c)
  OBVIOUS
<1>6. CASE list[c + 1] = q
  <2>1. P(c + 1) = P(c) \cup {c + 1}
    BY <1>4, <1>6
  <2>. HIDE DEF P
  <2>2. Cardinality(P(c) \cup {c + 1}) = Cardinality(P(c)) + 1
    BY <1>3, <1>5, FS_AddElement
  <2>3. Cardinality(P(c + 1)) = With(Cardinality(P(c)), list[c + 1], q, 1)
    BY <1>6, <2>1, <2>2 DEF With
  <2>. QED  BY <1>3, <2>3 DEF P, Polled
<1>7. CASE list[c + 1] # q
  <2>1. P(c + 1) = P(c)
    BY <1>4, <1>7
  <2>. HIDE DEF P
  <2>2. Cardinality(P(c + 1)) = With(Cardinality(P(c)), list[c + 1], q, 1)
    BY <1>7, <2>1 DEF With
  <2>. QED  BY <1>3, <2>2 DEF P, Polled
<1>. QED  BY <1>6, <1>7

\* The cursor goes round.
LEMMA CursorGoesRound ==
  ASSUME NEW k \in Nat, NEW c \in 0..(k - 1)
  PROVE  (c + 1) % k = IF c + 1 = k THEN 0 ELSE c + 1
<1>1. k > 0 /\ c + 1 \in 1..k
  OBVIOUS
<1>2. CASE c + 1 = k
  BY <1>1, <1>2
<1>3. CASE c + 1 # k
  BY <1>1, <1>3
<1>. QED  BY <1>2, <1>3

\* A poll counts the queue at the cursor, in a new round from zero.
LEMMA RoundGoesOn ==
  ASSUME NEW S, NEW list \in Seq(S), NEW c, NEW n, RoundRight(list, c, n), NEW round, NEW m, NEW d,
         round = IF c = 0 THEN [p \in DOMAIN n |-> 0] ELSE n,
         m = [round EXCEPT ![list[c + 1]] = @ + 1], d = (c + 1) % Len(list)
  PROVE  RoundRight(list, d, m)
<1>1. PICK k \in Nat : k = Len(list)
  OBVIOUS
<1>2. c \in 0..(k - 1) /\ c \in Nat /\ c + 1 \in 1..k /\ DOMAIN list = 1..k
  BY <1>1 DEF RoundRight
<1>3. PICK x : x = list[c + 1]
  OBVIOUS
<1>4. x \in ToSet(list)
  BY <1>2, <1>3 DEF ToSet
<1>5. round \in [ToSet(list) -> Nat] /\ \A q \in ToSet(list) : round[q] = Polled(list, c, q)
  <2>1. n \in [ToSet(list) -> Nat]
    BY DEF RoundRight
  <2>2. CASE c = 0
    <3>1. round = [q \in ToSet(list) |-> 0]
      BY <2>1, <2>2
    <3>2. \A q : {p \in 1..c : list[p] = q} = {}
      BY <2>2
    <3>3. \A q : Polled(list, c, q) = 0
      BY <3>2, FS_EmptySet DEF Polled
    <3>. QED  BY <3>1, <3>3
  <2>3. CASE c # 0
    BY <2>1, <2>3 DEF RoundRight
  <2>. QED  BY <2>2, <2>3
<1>6. /\ m \in [ToSet(list) -> Nat]
      /\ \A q \in ToSet(list) : m[q] = IF x = q THEN round[q] + 1 ELSE round[q]
  BY <1>3, <1>4, <1>5
<1>7. \A q \in ToSet(list) : m[q] = Polled(list, c + 1, q)
  <2>. SUFFICES ASSUME NEW q \in ToSet(list) PROVE m[q] = Polled(list, c + 1, q)
    OBVIOUS
  <2>1. Polled(list, c + 1, q) = With(Polled(list, c, q), x, q, 1)
    BY <1>2, <1>3, PolledNext
  <2>2. round[q] = Polled(list, c, q) /\ m[q] = IF x = q THEN round[q] + 1 ELSE round[q]
    BY <1>5, <1>6
  <2>. QED  BY ONLY <2>1, <2>2 DEF With
<1>8. d = IF c + 1 = k THEN 0 ELSE c + 1
  BY <1>1, <1>2, CursorGoesRound
<1>9. CASE c + 1 = k
  <2>1. \A q : {p \in 1..(c + 1) : list[p] = q} = Positions(list, q)
    BY <1>2, <1>9 DEF Positions
  <2>2. \A q : Polled(list, c + 1, q) = Cardinality(Positions(list, q))
    BY <2>1 DEF Polled
  <2>3. \A q \in ToSet(list) : m[q] = Cardinality(Positions(list, q))
    BY <1>7, <2>2
  <2>4. d = 0 /\ 0 \in 0..(k - 1)
    BY <1>2, <1>8, <1>9
  <2>. QED  BY <1>1, <1>6, <2>3, <2>4 DEF RoundRight
<1>10. CASE c + 1 # k
  <2>1. d = c + 1 /\ d \in 0..(k - 1) /\ d # 0
    BY <1>2, <1>8, <1>10
  <2>. QED  BY <1>1, <1>6, <1>7, <2>1 DEF RoundRight
<1>. QED  BY <1>9, <1>10

ConfigKept ==
  \A e \in Engines :
    Past(call[e]) => call[e].request \in Requests /\ call[e].config = ConfigOf(call[e].request)

ListKept == \A e \in Engines : Built(e) => call[e].queues = PollList(call[e].config.queues)

RoundsKept ==
  /\ cursor = [e \in Engines |-> cursor[e]] /\ polls = [e \in Engines |-> polls[e]]
  /\ \A e \in Engines : IF Built(e) THEN RoundRight(call[e].queues, cursor[e], polls[e])
                        ELSE cursor[e] = 0

RoundInv == Shape /\ ConfigKept /\ ListKept /\ RoundsKept

\* The poll list of a call that was built, and the names Health has for it.
LEMMA BuiltRight ==
  ASSUME NEW c, c.request \in Requests, c.config = ConfigOf(c.request)
  PROVE  /\ ListRight(c.request, PollList(c.config.queues))
         /\ NamesRight(c.request, c.config.queues, PollList(c.config.queues))
<1>1. PICK r \in Requests : r = c.request
  OBVIOUS
<1>2. PICK queues : queues = ConfigOf(r).queues
  OBVIOUS
<1>3. ListRight(r, PollList(queues)) /\ NamesRight(r, queues, PollList(queues))
  BY <1>2, QueuesRight
<1>. QED  BY <1>1, <1>2, <1>3

\* A step that only moves the program point keeps the poll list; newEngine sets it.
LEMMA ListSteps ==
  ASSUME Shape, NEW e \in Engines, NEW pc, NEW queues
  PROVE  /\ call' = [call EXCEPT ![e].pc = pc] => call'[e].queues = call[e].queues
         /\ call' = [call EXCEPT ![e].pc = pc, ![e].queues = queues] => call'[e].queues = queues
<1>1. Shaped(call[e]) /\ e \in DOMAIN call
  BY DEF Shape
<1>. QED  BY <1>1 DEF Shaped

\* Every step keeps the configurations, the poll lists and the counts.
LEMMA StepRounds ==
  ASSUME RoundInv, [Next]_vars
  PROVE  RoundInv'
<1>1. Shape /\ ConfigKept /\ ListKept /\ RoundsKept
  BY DEF RoundInv
<1>2. ASSUME UNCHANGED <<call, cursor, polls>>
      PROVE  RoundInv'
  BY <1>1, <1>2 DEF RoundInv, Shape, Shaped, ConfigKept, Past, ListKept, RoundsKept, Built
<1>3. ASSUME NEW e \in Engines, Shape',
             \A f \in Engines : f # e => call'[f] = call[f],
             Past(call'[e]) => /\ call'[e].request \in Requests
                               /\ call'[e].config = ConfigOf(call'[e].request),
             call'[e].pc \notin {"built", "stopped"}, ~Built(e), UNCHANGED <<cursor, polls>>
      PROVE  RoundInv'
  <2>1. ConfigKept'
    BY <1>1, <1>3 DEF ConfigKept
  <2>2. ListKept'
    BY <1>1, <1>3 DEF ListKept, Built
  <2>3. RoundsKept'
    BY <1>1, <1>3 DEF RoundsKept, Built
  <2>. QED  BY <1>3, <2>1, <2>2, <2>3 DEF RoundInv
<1>4. ASSUME NEW e \in Engines, Call(e)
      PROVE  RoundInv'
  <2>1. /\ Shape' /\ call[e].pc = "idle"
        /\ \A f \in Engines : f # e => call'[f] = call[f]
        /\ call'[e].request \in Requests
        /\ call'[e].pc \in {"failed", "open", "engine"}
        /\ call'[e].pc # "failed" => call'[e].config = ConfigOf(call'[e].request)
        /\ UNCHANGED <<cursor, polls>>
    BY <1>1, <1>4, CallStarts DEF Call
  <2>2. ~Built(e) /\ call'[e].pc \notin {"built", "stopped"}
    BY <2>1 DEF Built
  <2>3. Past(call'[e]) => call'[e].pc # "failed"
    BY DEF Past
  <2>. QED  BY <1>3, <2>1, <2>2, <2>3
<1>5. ASSUME NEW e \in Engines, NEW pc, Shape', Kept(e, pc), pc \in {"ping", "engine", "failed"},
             call[e].pc \in {"open", "ping"}, UNCHANGED <<cursor, polls>>
      PROVE  RoundInv'
  <2>1. Past(call[e]) /\ ~Built(e)
    BY <1>5 DEF Past, Built
  <2>2. /\ call'[e].request \in Requests /\ call'[e].config = ConfigOf(call'[e].request)
        /\ call'[e].pc \notin {"built", "stopped"}
        /\ \A f \in Engines : f # e => call'[f] = call[f]
    BY <1>1, <1>5, <2>1 DEF Kept, ConfigKept
  <2>. QED  BY <1>3, <1>5, <2>1, <2>2
<1>6. ASSUME NEW e \in Engines, Open(e)
      PROVE  RoundInv'
  <2>. DEFINE r == call[e].request
  <2>1. call[e].pc = "open" /\ UNCHANGED <<cursor, polls>>
    BY <1>6 DEF Open
  <2>2. CASE Fails(e)
    BY <1>1, <1>5, <2>1, <2>2, CallGoesOn DEF Fails
  <2>3. CASE call' = [call EXCEPT ![e].pc = "ping", ![e].tls = UsesTLS(r)]
    <3>1. Shape' /\ Kept(e, "ping")
      BY <1>1, <2>3, CallDials
    <3>. QED  BY <1>5, <2>1, <3>1
  <2>. QED  BY <1>6, <2>2, <2>3 DEF Open
<1>7. ASSUME NEW e \in Engines, PingAnswers(e)
      PROVE  RoundInv'
  BY <1>1, <1>5, <1>7, CallGoesOn DEF PingAnswers
<1>8. ASSUME NEW e \in Engines, PingFails(e)
      PROVE  RoundInv'
  BY <1>1, <1>5, <1>8, CallGoesOn DEF PingFails, Fails
<1>9. ASSUME NEW e \in Engines, NewEngine(e)
      PROVE  RoundInv'
  <2>1. PICK list : list = PollList(call[e].config.queues)
    OBVIOUS
  <2>2. /\ call[e].pc = "engine" /\ cursor' = cursor
        /\ call' = [call EXCEPT ![e].pc = "built", ![e].queues = list]
        /\ polls' = [polls EXCEPT ![e] = [q \in ToSet(list) |-> 0]]
    BY <1>9, <2>1 DEF NewEngine
  <2>3. Shape' /\ Kept(e, "built")
    BY <1>1, <2>2, CallGoesOn
  <2>4. call'[e].queues = list
    BY <1>1, <2>2, ListSteps
  <2>5. Past(call[e]) /\ ~Built(e) /\ Built(e)'
    BY <2>2, <2>3 DEF Past, Built, Kept
  <2>6. call[e].request \in Requests /\ call[e].config = ConfigOf(call[e].request)
    BY <1>1, <2>5 DEF ConfigKept
  <2>7. ConfigKept'
    BY <1>1, <2>3, <2>6 DEF ConfigKept, Kept
  <2>8. ListKept'
    BY <1>1, <2>1, <2>3, <2>4 DEF ListKept, Built, Kept
  <2>9. Len(list) \in Nat /\ Len(list) # 0
    BY <2>1, <2>6, BuiltRight DEF ListRight
  <2>10. cursor[e] = 0
    BY <1>1, <2>5 DEF RoundsKept
  <2>11. RoundRight(list, 0, [q \in ToSet(list) |-> 0])
    BY <2>9 DEF RoundRight
  <2>12. \A f \in Engines : f # e => (Built(f)' <=> Built(f)) /\ polls'[f] = polls[f] /\ call'[f] = call[f]
    <3>1. \A f \in Engines : f # e => polls'[f] = polls[f]
      BY <1>1, <2>2 DEF RoundsKept
    <3>2. \A f \in Engines : f # e => call'[f] = call[f]
      BY <2>3 DEF Kept
    <3>3. \A f \in Engines : f # e => (Built(f)' <=> Built(f))
      BY <3>2 DEF Built
    <3>. QED  BY <3>1, <3>2, <3>3
  <2>13. polls' = [f \in Engines |-> polls'[f]] /\ polls'[e] = [q \in ToSet(list) |-> 0]
    BY <1>1, <2>2 DEF RoundsKept
  <2>14. RoundRight(call'[e].queues, cursor'[e], polls'[e])
    BY <2>2, <2>4, <2>10, <2>11, <2>13
  <2>15. RoundsKept'
    BY <1>1, <2>2, <2>5, <2>12, <2>13, <2>14 DEF RoundsKept
  <2>. QED  BY <2>3, <2>7, <2>8, <2>15 DEF RoundInv
<1>10. ASSUME NEW e \in Engines, Poll(e)
       PROVE  RoundInv'
  <2>1. PICK list, c, n, round, m, d :
          /\ list = call[e].queues /\ c = cursor[e] /\ n = polls[e]
          /\ round = IF c = 0 THEN [p \in DOMAIN n |-> 0] ELSE n
          /\ m = [round EXCEPT ![list[c + 1]] = @ + 1] /\ d = (c + 1) % Len(list)
    OBVIOUS
  <2>2. /\ call[e].pc = "built" /\ call' = call
        /\ cursor' = [cursor EXCEPT ![e] = d] /\ polls' = [polls EXCEPT ![e] = m]
    BY <1>10, <2>1 DEF Poll, NextCursor
  <2>3. Built(e) /\ Past(call[e])
    BY <2>2 DEF Built, Past
  <2>4. call[e].request \in Requests /\ call[e].config = ConfigOf(call[e].request)
    BY <1>1, <2>3 DEF ConfigKept
  <2>5. list = PollList(call[e].config.queues)
    BY <1>1, <2>1, <2>3 DEF ListKept
  <2>6. list \in Seq(ToSet(list))
    BY <2>4, <2>5, BuiltRight DEF ListRight
  <2>7. RoundRight(list, c, n)
    BY <1>1, <2>1, <2>3 DEF RoundsKept
  <2>8. RoundRight(list, d, m)
    <3>1. PICK S : S = ToSet(list)
      OBVIOUS
    <3>2. list \in Seq(S)
      BY <2>6, <3>1
    <3>. QED  BY ONLY <2>1, <2>7, <3>2, RoundGoesOn
  <2>9. /\ cursor' = [f \in Engines |-> cursor'[f]] /\ polls' = [f \in Engines |-> polls'[f]]
        /\ cursor'[e] = d /\ polls'[e] = m
        /\ \A f \in Engines : f # e => cursor'[f] = cursor[f] /\ polls'[f] = polls[f]
    BY <1>1, <2>2 DEF RoundsKept
  <2>10. RoundsKept'
    BY <1>1, <2>1, <2>2, <2>3, <2>8, <2>9 DEF RoundsKept, Built
  <2>11. Shape' /\ ConfigKept' /\ ListKept'
    BY <1>1, <2>2 DEF Shape, Shaped, ConfigKept, Past, ListKept, Built
  <2>. QED  BY <2>10, <2>11 DEF RoundInv
<1>11. ASSUME NEW e \in Engines, Stop(e)
       PROVE  RoundInv'
  <2>1. /\ call[e].pc = "built" /\ call' = [call EXCEPT ![e].pc = "stopped"]
        /\ UNCHANGED <<cursor, polls>>
    BY <1>11 DEF Stop
  <2>2. Shape' /\ Kept(e, "stopped")
    BY <1>1, <2>1, CallGoesOn
  <2>3. call'[e].queues = call[e].queues
    BY <1>1, <2>1, ListSteps
  <2>4. Past(call[e]) /\ Built(e) /\ Built(e)'
    BY <2>1, <2>2 DEF Past, Built, Kept
  <2>5. ConfigKept'
    BY <1>1, <2>2, <2>4 DEF ConfigKept, Kept
  <2>6. ListKept'
    BY <1>1, <2>2, <2>3, <2>4 DEF ListKept, Built, Kept
  <2>7. \A f \in Engines : (Built(f)' <=> Built(f)) /\ call'[f].queues = call[f].queues
    BY <2>2, <2>3, <2>4 DEF Built, Kept
  <2>8. RoundsKept'
    BY <1>1, <2>1, <2>7 DEF RoundsKept
  <2>. QED  BY <2>2, <2>5, <2>6, <2>8 DEF RoundInv
<1>12. ASSUME UNCHANGED vars \/ \E e \in Engines \cup {NoEngine} : SetGlobalClient(e)
       PROVE  RoundInv'
  BY <1>2, <1>12 DEF vars, SetGlobalClient
<1>. QED  BY <1>4, <1>6, <1>7, <1>8, <1>9, <1>10, <1>11, <1>12 DEF Next

\* In the beginning no engine polls.
LEMMA InitRounds == Init => RoundInv
<1>. SUFFICES ASSUME Init PROVE RoundInv
  OBVIOUS
<1>1. call = [e \in Engines |-> NoCall] /\ NoCall.pc = "idle" /\ Shape
  BY InitClients DEF Init, NoCall, ClientsInv
<1>2. \A e \in Engines : ~Past(call[e]) /\ ~Built(e)
  BY <1>1 DEF Past, Built
<1>3. RoundsKept
  BY <1>2 DEF Init, RoundsKept
<1>. QED  BY <1>1, <1>2, <1>3 DEF RoundInv, ConfigKept, ListKept

\* Whatever queues and weights are asked for, as options or in a file, a full round of
\* the fetcher polls every queue exactly as often as its weights add up to: none is
\* starved and none is favoured.
THEOREM WeightsAreRespected == Spec => []WeightsRespected
<1>1. RoundInv /\ [Next]_vars => RoundInv'
  BY StepRounds
<1>2. RoundInv => WeightsRespected
  <2>. SUFFICES ASSUME RoundInv, NEW e \in Engines, Built(e), cursor[e] = 0, NEW r, r = call[e].request
                PROVE  /\ {r.queues[i].name : i \in DOMAIN r.queues} \subseteq DOMAIN polls[e]
                       /\ \/ \A q \in DOMAIN polls[e] : polls[e][q] = 0
                          \/ \A q \in DOMAIN polls[e] : polls[e][q] = Share(r, q)
    BY DEF WeightsRespected
  <2>1. call[e].request \in Requests /\ call[e].config = ConfigOf(call[e].request)
    BY DEF RoundInv, ConfigKept, Past, Built
  <2>2. PICK list : list = call[e].queues
    OBVIOUS
  <2>3. ListRight(r, list)
    BY <2>1, <2>2, BuiltRight DEF RoundInv, ListKept
  <2>4. RoundRight(list, 0, polls[e])
    BY <2>2 DEF RoundInv, RoundsKept
  <2>5. DOMAIN polls[e] = ToSet(list)
    BY <2>4 DEF RoundRight
  <2>6. \A q : Cardinality(Positions(list, q)) = Share(r, q)
    BY <2>3 DEF ListRight
  <2>7. \/ \A q \in ToSet(list) : polls[e][q] = 0
        \/ \A q \in ToSet(list) : polls[e][q] = Share(r, q)
    BY <2>4, <2>6 DEF RoundRight
  <2>. QED  BY <2>3, <2>5, <2>7 DEF ListRight
<1>. QED  BY <1>1, <1>2, InitRounds, PTL DEF Spec

\* An engine runs with what follows from its request: the workers and the timeout as
\* SettingsAreHonoured says, and Health names each queue that is polled once, or none
\* if a file lists none and "default" is polled.
THEOREM RequestsAreHonoured == Spec => []RequestHonoured
<1>1. RoundInv /\ [Next]_vars => RoundInv'
  BY StepRounds
<1>2. RoundInv => \A e \in Engines : HealthNamesQueues(e)
  <2>. SUFFICES ASSUME RoundInv, NEW e \in Engines, Built(e) PROVE HealthNamesQueues(e)
    BY DEF HealthNamesQueues
  <2>1. call[e].request \in Requests /\ call[e].config = ConfigOf(call[e].request)
    BY DEF RoundInv, ConfigKept, Past, Built
  <2>2. NamesRight(call[e].request, call[e].config.queues, call[e].queues)
    BY <2>1, BuiltRight DEF RoundInv, ListKept
  <2>. QED  BY <2>2 DEF NamesRight, HealthNamesQueues
<1>3. (\A e \in Engines : SettingsHonoured(e)) /\ (\A e \in Engines : HealthNamesQueues(e))
        => RequestHonoured
  BY DEF RequestHonoured
<1>. QED  BY <1>1, <1>2, <1>3, InitRounds, SettingsAreHonoured, PTL DEF Spec
=============================================================================
