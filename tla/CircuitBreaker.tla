--------------------------- MODULE CircuitBreaker ---------------------------
(***************************************************************************)
(* internal/queue/breaker.go with BreakerMiddleware of middleware.go:      *)
(* workers of one engine run jobs of several classes through one breaker.  *)
(*                                                                         *)
(* Allow, RecordSuccess and RecordFailure hold the breaker's lock, so each *)
(* is one step; the job runs between Allow and the Record call, and what   *)
(* other workers do in the meantime is the point of the model.  The clock  *)
(* is the monotonic one of time.Now.                                       *)
(***************************************************************************)
EXTENDS Integers, Sequences, FiniteSets

CONSTANTS
  Classes,           \* job classes
  MaxClasses,        \* maxBreakerClasses, 10,000 in the code
  FailureThreshold, Window, ResetTimeout,
  Workers,           \* goroutines that run jobs
  Panicking,         \* the classes whose jobs may panic
  MaxTime            \* bound on the clock

ASSUME BreakerAssumption ==
  /\ MaxClasses \in Nat \ {0}
  /\ FailureThreshold \in Nat \ {0}
  /\ Window \in Nat \ {0} /\ ResetTimeout \in Nat \ {0}
  /\ Panicking \subseteq Classes
  /\ MaxTime \in Nat

VARIABLES
  now,       \* time.Now()
  classes,   \* the breaker's map: the class states of the classes it knows
  running,   \* running[w]: the job of worker w, between Allow and Record
  trippedAt, \* history: when the circuit of a known class last opened
  recent     \* history: its last FailureThreshold failures since a success

vars == <<now, classes, running, trippedAt, recent>>

Never == 0 - ResetTimeout  \* a trip that is over at time 0

ClassState == [state : {"closed", "open", "half-open"}, failureTimes : Seq(Nat),
               openUntil : Nat, halfOpenProbeUsed : BOOLEAN]

NewClass == [state |-> "closed", failureTimes |-> <<>>, openUntil |-> 0,
             halfOpenProbeUsed |-> FALSE]

Idle == [class |-> "none", probe |-> FALSE]

Init ==
  /\ now = 0
  /\ classes = [c \in {} |-> NewClass]
  /\ running = [w \in Workers |-> Idle]
  /\ trippedAt = [c \in {} |-> Never]
  /\ recent = [c \in {} |-> <<>>]

-----------------------------------------------------------------------------
(* getOrCreate *)

Known == DOMAIN classes

\* What the three eviction passes may pick; map order is arbitrary.
Victims ==
  LET clean  == {c \in Known : classes[c].state = "closed" /\ classes[c].failureTimes = <<>>}
      closed == {c \in Known : classes[c].state = "closed"}
      oldest == {c \in Known : \A d \in Known : classes[c].openUntil <= classes[d].openUntil}
  IN  IF clean # {} THEN clean ELSE IF closed # {} THEN closed ELSE oldest

\* Faulty variant: no eviction.
KnownUnbounded(class) == {Known \cup {class}}

\* The classes that may be known once getOrCreate(class) has returned.  A full
\* map is not empty, so that there is a victim and sentinelDenied is not needed.
KnownAfter(class) ==
  IF class \in Known THEN {Known}
  ELSE IF Cardinality(Known) >= MaxClasses
  THEN {(Known \ {victim}) \cup {class} : victim \in Victims}
  ELSE {Known \cup {class}}

\* f restricted or extended to the classes of known, new ones with value new.
Keep(f, known, new) == [c \in known |-> IF c \in DOMAIN f THEN f[c] ELSE new]

\* The state that getOrCreate(class) returns.
Entry(class) == IF class \in Known THEN classes[class] ELSE NewClass

-----------------------------------------------------------------------------
(* Allow *)

Refuses(s) ==
  \/ s.state = "open" /\ now < s.openUntil
  \/ s.state = "half-open" /\ s.halfOpenProbeUsed

\* The class state after Allow has returned true.
Admitted(s) ==
  IF s.state = "closed" THEN s
  ELSE [s EXCEPT !.state = "half-open", !.halfOpenProbeUsed = TRUE]

\* IsOpen
IsOpen(class) ==
  class \in Known /\ classes[class].state = "open" /\ now < classes[class].openUntil

-----------------------------------------------------------------------------
(* RecordSuccess and RecordFailure, on a class state. *)

\* Faulty variant: any success closes the circuit.
SucceededClosing(s) ==
  [s EXCEPT !.state = "closed", !.failureTimes = <<>>, !.halfOpenProbeUsed = FALSE]

\* Faulty variant: the success of a probe is ignored.
SucceededUnprobed(s) ==
  IF s.state = "closed" THEN [s EXCEPT !.failureTimes = <<>>] ELSE s

Succeeded(s) ==
  CASE s.state = "open"      -> s
    [] s.state = "half-open" ->
         [s EXCEPT !.state = "closed", !.failureTimes = <<>>, !.halfOpenProbeUsed = FALSE]
    [] s.state = "closed"    -> [s EXCEPT !.failureTimes = <<>>]

\* Faulty variant: nothing is dropped.
Untrimmed(times) == times

\* Faulty variant: the edge of the window is outside of it.
TrimWindowEdge(times) ==
  LET old == {i \in DOMAIN times : \A j \in 1..i : times[j] <= now - Window}
  IN  SubSeq(times, Cardinality(old) + 1, Len(times))

\* trimWindow: drop the leading entries from before the window.
TrimWindow(times) ==
  LET old == {i \in DOMAIN times : \A j \in 1..i : times[j] < now - Window}
  IN  SubSeq(times, Cardinality(old) + 1, Len(times))

\* The last n elements of a sequence.
LastOf(seq, n) == SubSeq(seq, IF Len(seq) > n THEN Len(seq) - n + 1 ELSE 1, Len(seq))

Opened(s) == [s EXCEPT !.state = "open", !.openUntil = now + ResetTimeout]

\* The failures of a closed circuit with one more, at this moment.
Counted(times) ==
  LET counted == Append(TrimWindow(times), now) IN
  IF Len(counted) > 2 * FailureThreshold THEN LastOf(counted, FailureThreshold)
                                         ELSE counted

Failed(s) ==
  CASE s.state = "open"      -> s
    [] s.state = "half-open" -> [Opened(s) EXCEPT !.halfOpenProbeUsed = FALSE]
    [] s.state = "closed"    ->
         IF Len(Counted(s.failureTimes)) >= FailureThreshold
         THEN [Opened(s) EXCEPT !.failureTimes = <<>>]
         ELSE [s EXCEPT !.failureTimes = Counted(@)]

-----------------------------------------------------------------------------
(* BreakerMiddleware *)

\* The breaker's map, and the history with it, when class has come to state s.
Update(class, s, failures) ==
  \E known \in KnownAfter(class) :
    /\ classes' = [Keep(classes, known, NewClass) EXCEPT ![class] = s]
    /\ trippedAt' = [Keep(trippedAt, known, Never) EXCEPT ![class] =
                       IF s.state = "open" /\ Entry(class).state # "open" THEN now ELSE @]
    /\ recent' = [Keep(recent, known, <<>>) EXCEPT ![class] = failures]

Recent(class) == IF class \in Known THEN recent[class] ELSE <<>>

\* Allow returns true and the job starts.
Begin(w, class) ==
  LET s == Entry(class) IN
  /\ running[w] = Idle
  /\ ~Refuses(s)
  /\ Update(class, Admitted(s), Recent(class))
  /\ running' = [running EXCEPT ![w] = [class |-> class, probe |-> s.state # "closed"]]
  /\ UNCHANGED now

\* Allow returns false: the job gets ErrCircuitOpen.
Refuse(w, class) ==
  /\ running[w] = Idle
  /\ Refuses(Entry(class))
  /\ UNCHANGED vars

\* The job returns nil.
JobSucceeds(w) ==
  LET class == running[w].class IN
  /\ running[w] # Idle
  /\ Update(class, Succeeded(Entry(class)), <<>>)
  /\ running' = [running EXCEPT ![w] = Idle]
  /\ UNCHANGED now

\* The job returns an error.
JobFails(w) ==
  LET class == running[w].class IN
  /\ running[w] # Idle
  /\ Update(class, Failed(Entry(class)),
            LastOf(Append(Recent(class), now), FailureThreshold))
  /\ running' = [running EXCEPT ![w] = Idle]
  /\ UNCHANGED now

\* The job panics: the panic unwinds the breaker's frame up to the recovery
\* middleware outside of it, and nothing is recorded.
JobPanics(w) ==
  /\ running[w] # Idle
  /\ running[w].class \in Panicking
  /\ running' = [running EXCEPT ![w] = Idle]
  /\ UNCHANGED <<now, classes, trippedAt, recent>>

Tick ==
  /\ now < MaxTime
  /\ now' = now + 1
  /\ UNCHANGED <<classes, running, trippedAt, recent>>

Finish(w) == JobSucceeds(w) \/ JobFails(w) \/ JobPanics(w)

Next ==
  \/ \E w \in Workers, class \in Classes : Begin(w, class) \/ Refuse(w, class)
  \/ \E w \in Workers : Finish(w)
  \/ Tick

Spec == Init /\ [][Next]_vars

\* Perform returns: its context ends at the latest with the job's timeout.
FairSpec == Spec /\ \A w \in Workers : WF_vars(Finish(w))

-----------------------------------------------------------------------------
(* Properties. *)

\* Type correctness; the map never outgrows its capacity.
TypeOK ==
  /\ now \in 0..MaxTime
  /\ Known \subseteq Classes /\ IsFiniteSet(Known) /\ Cardinality(Known) <= MaxClasses
  /\ classes \in [Known -> ClassState]
  /\ running \in [Workers -> [class : Classes \cup {"none"}, probe : BOOLEAN]]
  /\ \A w \in Workers : running[w] = Idle \/ running[w].class \in Classes
  /\ trippedAt \in [Known -> Int]
  /\ recent \in [Known -> Seq(Nat)]

\* A circuit that has tripped stays open, and IsOpen says so, for the whole
\* ResetTimeout, whatever results of jobs admitted before the trip come in late,
\* unless the class is evicted.
OpenForResetTimeout ==
  \A c \in Known : now < trippedAt[c] + ResetTimeout => IsOpen(c)

\* The last FailureThreshold failures since a success lie within the window.
WindowFull(c) ==
  /\ Len(recent[c]) = FailureThreshold
  /\ recent[c][1] >= recent[c][FailureThreshold] - Window

\* The sliding window misses no trip: while a circuit is closed, its last
\* FailureThreshold failures do not lie within one window, although failureTimes
\* is trimmed, cut and reused in place.
ClosedMeansBelowThreshold ==
  \A c \in Known : classes[c].state = "closed" => ~WindowFull(c)

\* ... and it trips for no other reason.
TripsOnlyWhenWindowFull ==
  [][\A c \in Known \cap Known' :
       (classes[c].state = "closed" /\ classes'[c].state = "open") => WindowFull(c)']_vars

\* As long as jobs do not panic, a half-open circuit has its probe under way,
\* whose outcome is going to move it on: no late result of another job, no
\* eviction and no second probe gets between the two.
HalfOpenHasProbe ==
  \A c \in Known \ Panicking : classes[c].state = "half-open" =>
    \E w \in Workers : running[w] = [class |-> c, probe |-> TRUE]

\* No circuit stays half-open, refusing every job of its class, for ever: every
\* outcome of a probe is recorded, a panic included.
HalfOpenEnds ==
  \A c \in Classes : (c \in Known /\ classes[c].state = "half-open") ~>
                     ~(c \in Known /\ classes[c].state = "half-open")
=============================================================================
