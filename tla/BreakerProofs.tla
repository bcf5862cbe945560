--------------------------- MODULE BreakerProofs ---------------------------
(***************************************************************************)
(* What CircuitBreaker promises for every number of classes and workers,   *)
(* every threshold, window and timeout, and every capacity of the map.     *)
(***************************************************************************)
EXTENDS CircuitBreaker, TLAPS, FiniteSetTheorems, SequenceTheorems

-----------------------------------------------------------------------------
(* The invariants. *)

\* An open circuit is due ResetTimeout after it tripped, and any other one has
\* its last trip behind it.
TripsSettled ==
  \A c \in Known :
    /\ classes[c].state = "open" => classes[c].openUntil = trippedAt[c] + ResetTimeout
    /\ classes[c].state # "open" => trippedAt[c] + ResetTimeout <= now

\* The failure times f that a closed circuit keeps, against the last
\* FailureThreshold failures r: f is the end of r, and what r has before it is
\* too old to lie in one window with the last failure.
Tracks(f, r, t) ==
  /\ Len(f) < FailureThreshold
  /\ Len(f) <= Len(r) /\ Len(r) <= FailureThreshold
  /\ \A i \in 1..Len(f) : r[Len(r) - Len(f) + i] = f[i]
  /\ \A i \in 1..Len(r) : r[i] <= t
  /\ \A i, j \in 1..Len(r) : i <= j => r[i] <= r[j]
  /\ \A i \in 1..(Len(r) - Len(f)) : r[i] < r[Len(r)] - Window

\* Closed circuits keep track of their failures, the others keep none.
WindowsTracked ==
  \A c \in Known :
    /\ classes[c].state = "closed" => Tracks(classes[c].failureTimes, recent[c], now)
    /\ classes[c].state # "closed" => classes[c].failureTimes = <<>>

-----------------------------------------------------------------------------
(* The operators on failure times. *)

\* trimWindow drops exactly the entries before the first one of the window.
LEMMA TrimWindowDrops ==
  ASSUME NEW f \in Seq(Nat), now \in Nat
  PROVE  \E n \in 0..Len(f) :
           /\ TrimWindow(f) = SubSeq(f, n + 1, Len(f))
           /\ \A i \in 1..n : f[i] < now - Window
           /\ n < Len(f) => f[n + 1] >= now - Window
<1>. DEFINE old == {i \in 1..Len(f) : \A j \in 1..i : f[j] < now - Window}
            n   == Cardinality(old)
<1>1. DOMAIN f = 1..Len(f) /\ Len(f) \in Nat
  OBVIOUS
<1>2. IsFiniteSet(1..Len(f)) /\ Cardinality(1..Len(f)) = Len(f)
  <2>1. \A k \in Nat : IsFiniteSet(1..k) /\ Cardinality(1..k) = k
    BY ONLY FS_Interval
  <2>. QED  BY ONLY <1>1, <2>1
<1>3. IsFiniteSet(old) /\ n \in Nat /\ n <= Len(f)
  <2>1. old \in SUBSET (1..Len(f))
    OBVIOUS
  <2>. QED  BY <1>2, <2>1, FS_Subset, FS_CardinalityType
<1>4. ASSUME NEW i \in old
      PROVE  i <= n
  <2>1. 1..i \in SUBSET old
    BY <1>1
  <2>2. Cardinality(1..i) = i
    BY FS_Interval, <1>1
  <2>. QED  BY <1>3, <2>1, <2>2, FS_Subset
<1>5. old = 1..n
  <2>1. old \in SUBSET (1..n)
    BY <1>1, <1>3, <1>4
  <2>2. IsFiniteSet(1..n) /\ Cardinality(1..n) = n
    BY <1>3, FS_Interval
  <2>. QED  BY <2>1, <2>2, FS_Subset
<1>6. TrimWindow(f) = SubSeq(f, n + 1, Len(f))
  BY <1>1 DEF TrimWindow
<1>7. \A i \in 1..n : f[i] < now - Window
  <2>. SUFFICES ASSUME NEW i \in 1..n PROVE f[i] < now - Window
    OBVIOUS
  <2>1. i \in old
    BY <1>5
  <2>. QED  BY <2>1, <1>1
<1>8. ASSUME n < Len(f)
      PROVE  f[n + 1] >= now - Window
  <2>1. n + 1 \in 1..Len(f) /\ n + 1 \notin old
    <3>. HIDE DEF old, n
    <3>. QED  BY <1>1, <1>3, <1>5, <1>8
  <2>2. PICK j \in 1..(n + 1) : ~(f[j] < now - Window)
    BY <2>1
  <2>3. j = n + 1
    BY <1>3, <1>7, <2>2
  <2>4. f[j] \in Nat /\ now - Window \in Int
    BY <2>1, <2>3, BreakerAssumption
  <2>. QED  BY <2>2, <2>3, <2>4
<1>. HIDE DEF old, n
<1>9. n \in 0..Len(f)
  BY <1>1, <1>3
<1>. QED  BY <1>6, <1>7, <1>8, <1>9

\* The last elements of a sequence.
LEMMA LastOfProperties ==
  ASSUME NEW seq \in Seq(Nat), NEW n \in Nat
  PROVE  /\ LastOf(seq, n) \in Seq(Nat)
         /\ Len(seq) <= n => LastOf(seq, n) = seq
         /\ Len(seq) > n =>
              /\ Len(LastOf(seq, n)) = n
              /\ \A i \in 1..n : LastOf(seq, n)[i] = seq[Len(seq) - n + i]
<1>1. CASE Len(seq) <= n
  <2>1. LastOf(seq, n) = SubSeq(seq, 1, Len(seq))
    <3>1. ~(Len(seq) > n)
      BY <1>1
    <3>. QED  BY <3>1 DEF LastOf
  <2>2. LastOf(seq, n) = seq
    BY <2>1, SubSeqFull
  <2>. QED  BY <1>1, <2>2
<1>2. CASE Len(seq) > n
  <2>. DEFINE m == Len(seq) - n + 1
  <2>1. LastOf(seq, n) = SubSeq(seq, m, Len(seq))
    BY <1>2 DEF LastOf
  <2>2. m \in Nat \ {0} /\ Len(seq) \in Nat /\ \A i \in m..Len(seq) : seq[i] \in Nat
    BY <1>2
  <2>3. /\ SubSeq(seq, m, Len(seq)) \in Seq(Nat)
        /\ Len(SubSeq(seq, m, Len(seq))) = IF m <= Len(seq) THEN Len(seq) - m + 1 ELSE 0
        /\ \A i \in 1..(Len(seq) - m + 1) : SubSeq(seq, m, Len(seq))[i] = seq[m + i - 1]
    BY <2>2, SubSeqProperties
  <2>. QED  BY <1>2, <2>1, <2>2, <2>3
<1>. QED  BY <1>1, <1>2

\* Counting a failure.  As long as fewer than FailureThreshold failures are kept
\* the cut to the last ones never happens; what is dropped is too old to count,
\* and the threshold is reached exactly when the last FailureThreshold failures
\* lie in one window.
LEMMA CountedTracks ==
  ASSUME now \in Nat, NEW f \in Seq(Nat), NEW r \in Seq(Nat), Tracks(f, r, now)
  PROVE  LET last == LastOf(Append(r, now), FailureThreshold) IN
         /\ Counted(f) \in Seq(Nat)
         /\ Len(Counted(f)) < FailureThreshold => Tracks(Counted(f), last, now)
         /\ Len(Counted(f)) >= FailureThreshold =>
              /\ Len(last) = FailureThreshold
              /\ last[1] >= last[FailureThreshold] - Window
<1>. DEFINE T == FailureThreshold
            a == Append(r, now)
            last == LastOf(a, T)
<1>0. T \in Nat \ {0} /\ Window \in Nat
  BY BreakerAssumption
<1>1. PICK n \in 0..Len(f) :
        /\ TrimWindow(f) = SubSeq(f, n + 1, Len(f))
        /\ \A i \in 1..n : f[i] < now - Window
        /\ n < Len(f) => f[n + 1] >= now - Window
  BY TrimWindowDrops
<1>. DEFINE g == SubSeq(f, n + 1, Len(f))
            h == Append(g, now)
<1>2. /\ g \in Seq(Nat)
      /\ Len(g) = Len(f) - n
      /\ \A i \in 1..Len(g) : g[i] = f[n + i]
  <2>1. Len(f) \in Nat /\ n \in Nat /\ n <= Len(f) /\ \A i \in (n + 1)..Len(f) : f[i] \in Nat
    OBVIOUS
  <2>2. /\ g \in Seq(Nat)
        /\ Len(g) = IF n + 1 <= Len(f) THEN Len(f) - (n + 1) + 1 ELSE 0
        /\ \A i \in 1..(Len(f) - (n + 1) + 1) : g[i] = f[(n + 1) + i - 1]
    BY <2>1, SubSeqProperties
  <2>. QED  BY <2>1, <2>2
<1>3. /\ h \in Seq(Nat)
      /\ Len(h) = Len(f) - n + 1
      /\ \A i \in 1..(Len(f) - n) : h[i] = f[n + i]
      /\ h[Len(f) - n + 1] = now
  <2>. HIDE DEF g
  <2>. QED  BY <1>2, AppendProperties
<1>4. /\ a \in Seq(Nat)
      /\ Len(a) = Len(r) + 1
      /\ \A i \in 1..Len(r) : a[i] = r[i]
      /\ a[Len(r) + 1] = now
  BY AppendProperties
<1>5. Counted(f) = h
  <2>1. Len(h) <= 2 * T
    BY <1>0, <1>3 DEF Tracks
  <2>. HIDE DEF h
  <2>2. Counted(f) = IF Len(h) > 2 * T THEN LastOf(h, T) ELSE h
    BY <1>1 DEF Counted, h
  <2>3. Len(h) \in Nat
    BY <1>3
  <2>. QED  BY <1>0, <2>1, <2>2, <2>3
<1>6. /\ last \in Seq(Nat)
      /\ Len(a) <= T => last = a
      /\ Len(a) > T => Len(last) = T /\ \A i \in 1..T : last[i] = a[Len(a) - T + i]
  <2>. HIDE DEF a
  <2>. QED  BY <1>0, <1>4, LastOfProperties
<1>. HIDE DEF T, a, last, g, h
<1>7. /\ Len(f) \in Nat /\ Len(r) \in Nat /\ n \in Nat /\ n <= Len(f)
      /\ Len(f) < T /\ Len(f) <= Len(r) /\ Len(r) <= T
      /\ \A i \in 1..Len(f) : f[i] \in Nat /\ r[Len(r) - Len(f) + i] = f[i]
      /\ \A i \in 1..Len(r) : r[i] \in Nat /\ r[i] <= now
      /\ \A i, j \in 1..Len(r) : i <= j => r[i] <= r[j]
      /\ \A i \in 1..(Len(r) - Len(f)) : r[i] < r[Len(r)] - Window
  BY DEF Tracks, T
<1>. DEFINE d == IF Len(r) = T THEN 1 ELSE 0
<1>8. /\ d \in {0, 1}
      /\ Len(last) = Len(r) + 1 - d
      /\ \A i \in 1..(Len(r) - d) : last[i] = r[i + d]
      /\ last[Len(r) + 1 - d] = now
  <2>1. CASE Len(r) = T
    <3>1. d = 1 /\ Len(a) > T /\ Len(a) - T = 1
      BY <1>0, <1>4, <1>7, <2>1
    <3>2. Len(last) = T /\ \A i \in 1..T : last[i] = a[1 + i]
      BY <1>6, <3>1
    <3>3. ASSUME NEW i \in 1..(Len(r) - 1)
          PROVE  last[i] = r[i + 1]
      <4>1. i \in 1..T /\ 1 + i \in 1..Len(r) /\ 1 + i = i + 1
        BY <1>0, <1>7, <2>1
      <4>. QED  BY <1>4, <3>2, <4>1
    <3>4. last[Len(r)] = now
      <4>1. Len(r) \in 1..T /\ 1 + Len(r) = Len(r) + 1
        BY <1>0, <2>1
      <4>. QED  BY <1>4, <3>2, <4>1
    <3>5. Len(r) + 1 - 1 = Len(r)
      BY <1>7
    <3>. QED  BY <2>1, <3>1, <3>2, <3>3, <3>4, <3>5
  <2>2. CASE Len(r) # T
    <3>1. d = 0 /\ last = a
      BY <1>0, <1>4, <1>6, <1>7, <2>2
    <3>2. Len(r) + 1 - 0 = Len(r) + 1 /\ Len(r) - 0 = Len(r) /\ \A i \in 1..Len(r) : i + 0 = i
      BY <1>7
    <3>. QED  BY <1>4, <3>1, <3>2
  <2>. QED  BY <2>1, <2>2
<1>9. d <= Len(r) - Len(f) /\ Len(last) <= T
  BY <1>7, <1>8, <1>0
<1>. HIDE DEF d
<1>10. ASSUME Len(h) < T
       PROVE  Tracks(h, last, now)
  <2>1. Len(h) <= Len(last)
    BY <1>3, <1>7, <1>8, <1>9
  <2>2. \A i \in 1..Len(h) : last[Len(last) - Len(h) + i] = h[i]
    <3>. SUFFICES ASSUME NEW i \in 1..Len(h)
                  PROVE  last[Len(last) - Len(h) + i] = h[i]
      OBVIOUS
    <3>1. Len(last) - Len(h) = Len(r) - Len(f) + n - d
      BY <1>3, <1>7, <1>8
    <3>2. CASE i = Len(h)
      BY <1>3, <1>7, <1>8, <3>2
    <3>3. CASE i < Len(h)
      <4>1. n + i \in 1..Len(f) /\ i \in 1..(Len(f) - n)
        BY <1>3, <1>7, <3>3
      <4>2. h[i] = r[Len(r) - Len(f) + (n + i)]
        BY <1>3, <1>7, <4>1
      <4>3. Len(r) - Len(f) + n - d + i \in 1..(Len(r) - d)
        <5>1. /\ Len(r) \in Nat /\ Len(f) \in Nat /\ d \in Nat /\ d <= Len(r) - Len(f)
              /\ i \in Nat \ {0} /\ n + i <= Len(f)
          BY <1>7, <1>8, <1>9, <4>1
        <5>2. n \in Nat
          BY <1>7
        <5>. QED  BY ONLY <5>1, <5>2
      <4>4. last[Len(r) - Len(f) + n - d + i] = r[Len(r) - Len(f) + n - d + i + d]
        BY <1>8, <4>3
      <4>5. Len(r) - Len(f) + n - d + i + d = Len(r) - Len(f) + (n + i)
        BY <1>7, <1>8
      <4>. QED  BY <3>1, <4>2, <4>4, <4>5
    <3>4. i = Len(h) \/ i < Len(h)
      <4>1. Len(h) \in Nat
        BY <1>3
      <4>. QED  BY <4>1
    <3>. QED  BY <3>2, <3>3, <3>4
  <2>a. ASSUME NEW i \in 1..Len(last)
        PROVE  \/ i = Len(last) /\ last[i] = now
               \/ i < Len(last) /\ i + d \in 1..Len(r) /\ last[i] = r[i + d]
    <3>1. CASE i = Len(last)
      BY <1>8, <3>1
    <3>2. CASE i # Len(last)
      <4>1. i < Len(last) /\ i \in 1..(Len(r) - d) /\ i + d \in 1..Len(r)
        BY <1>7, <1>8, <3>2
      <4>. QED  BY <1>8, <4>1
    <3>. QED  BY <3>1, <3>2
  <2>3. \A i \in 1..Len(last) : last[i] \in Nat /\ last[i] <= now
    BY <1>7, <2>a
  <2>4. ASSUME NEW i \in 1..Len(last), NEW j \in 1..Len(last), i <= j
        PROVE  last[i] <= last[j]
    <3>1. CASE j = Len(last)
      <4>1. last[j] = now
        BY <1>8, <3>1
      <4>. QED  BY <2>3, <4>1
    <3>2. CASE j # Len(last)
      <4>0. Len(last) \in Nat /\ d \in Nat
        BY <1>6, <1>8
      <4>1. j < Len(last) /\ i < Len(last) /\ i + d <= j + d
        BY <2>4, <3>2, <4>0
      <4>2. /\ i + d \in 1..Len(r) /\ last[i] = r[i + d]
            /\ j + d \in 1..Len(r) /\ last[j] = r[j + d]
        BY <2>a, <4>1
      <4>. QED  BY <1>7, <4>1, <4>2
    <3>. QED  BY <3>1, <3>2
  <2>5. \A i \in 1..(Len(last) - Len(h)) : last[i] < last[Len(last)] - Window
    <3>. SUFFICES ASSUME NEW i \in 1..(Len(last) - Len(h))
                  PROVE  last[i] < last[Len(last)] - Window
      OBVIOUS
    <3>1. last[Len(last)] = now
      BY <1>7, <1>8
    <3>2. Len(last) - Len(h) = Len(r) - Len(f) + n - d
      BY <1>3, <1>7, <1>8
    <3>3. i + d \in 1..(Len(r) - Len(f) + n) /\ i \in 1..(Len(r) - d) /\ last[i] = r[i + d]
      BY <1>7, <1>8, <3>2
    <3>4. CASE i + d <= Len(r) - Len(f)
      <4>0. /\ i + d \in 1..(Len(r) - Len(f)) /\ i + d \in 1..Len(r)
            /\ Len(r) \in 1..Len(r)
        <5>1. /\ Len(r) \in Nat /\ Len(f) \in Nat /\ i + d \in Nat \ {0}
          BY <1>7, <3>3
        <5>. QED  BY ONLY <3>4, <5>1
      <4>1. r[i + d] < r[Len(r)] - Window /\ Len(r) \in 1..Len(r) /\ r[i + d] \in Nat
        BY <1>7, <4>0
      <4>2. r[Len(r)] <= now /\ r[Len(r)] \in Nat
        BY <1>7, <4>1
      <4>3. r[i + d] < now - Window
        BY <1>0, <4>1, <4>2
      <4>. QED  BY <3>1, <3>3, <4>3
    <3>5. CASE i + d > Len(r) - Len(f)
      <4>. DEFINE k == i + d - (Len(r) - Len(f))
      <4>0. /\ Len(r) \in Nat /\ Len(f) \in Nat /\ d \in Nat /\ i \in Nat /\ n <= Len(f)
            /\ i + d <= Len(r) - Len(f) + n
        BY <1>7, <1>8, <3>3
      <4>1. k \in 1..n /\ k \in 1..Len(f) /\ i + d = Len(r) - Len(f) + k
        BY <3>5, <4>0
      <4>. HIDE DEF k
      <4>2. r[i + d] = f[k] /\ f[k] < now - Window
        BY <1>1, <1>7, <4>1
      <4>. QED  BY <3>1, <3>3, <4>2
    <3>. QED  BY <1>7, <1>8, <3>3, <3>4, <3>5
  <2>. QED  BY <1>9, <1>10, <2>1, <2>2, <2>3, <2>4, <2>5 DEF Tracks, T
<1>11. ASSUME Len(h) >= T
       PROVE  Len(last) = T /\ last[1] >= last[T] - Window
  <2>1. n = 0 /\ Len(f) = T - 1
    BY <1>0, <1>3, <1>7, <1>11
  <2>2. Len(last) = T /\ last[T] = now
    <3>1. Len(last) = T
      BY <1>0, <1>7, <1>8, <1>9, <2>1
    <3>. QED  BY <1>8, <3>1
  <2>3. CASE T = 1
    BY <1>0, <2>2, <2>3
  <2>4. CASE T > 1
    <3>1. f[1] >= now - Window /\ Len(f) >= 1
      BY <1>0, <1>1, <1>7, <2>1, <2>4
    <3>2. last[1] = r[1 + d] /\ 1 + d = Len(r) - Len(f) + 1
      <4>1. Len(r) + 1 - d = T /\ d \in Nat /\ Len(r) \in Nat /\ Len(f) = T - 1
        BY <1>7, <1>8, <2>1, <2>2
      <4>2. 1 \in 1..(Len(r) - d) /\ 1 + d = Len(r) - Len(f) + 1
        BY <1>0, <2>4, <4>1, SMTT(30)
      <4>. QED  BY <1>8, <4>2
    <3>3. r[Len(r) - Len(f) + 1] = f[1]
      BY <1>7, <3>1
    <3>. QED  BY <2>2, <3>1, <3>2, <3>3
  <2>. QED  BY <1>0, <2>2, <2>3, <2>4
<1>. QED  BY <1>3, <1>5, <1>10, <1>11 DEF T, a, last

\* Counting a failure keeps a list of times, whatever list it starts from.
LEMMA CountedType ==
  ASSUME now \in Nat, NEW f \in Seq(Nat)
  PROVE  Counted(f) \in Seq(Nat)
<1>1. PICK n \in 0..Len(f) : TrimWindow(f) = SubSeq(f, n + 1, Len(f))
  BY TrimWindowDrops
<1>2. n + 1 \in Int /\ Len(f) \in Int /\ \A i \in (n + 1)..Len(f) : f[i] \in Nat
  OBVIOUS
<1>3. TrimWindow(f) \in Seq(Nat)
  BY <1>1, <1>2, SubSeqProperties
<1>4. Append(TrimWindow(f), now) \in Seq(Nat)
  BY <1>3, AppendProperties
<1>5. LastOf(Append(TrimWindow(f), now), FailureThreshold) \in Seq(Nat)
  BY <1>4, BreakerAssumption, LastOfProperties
<1>. QED  BY <1>4, <1>5 DEF Counted

-----------------------------------------------------------------------------
(* The class states that Allow, RecordSuccess and RecordFailure come to. *)

\* The state that getOrCreate returns.
LEMMA EntryType ==
  ASSUME TypeOK, NEW class \in Classes
  PROVE  /\ Entry(class) \in ClassState
         /\ Recent(class) \in Seq(Nat)
         /\ class \notin Known => Entry(class) = NewClass /\ Recent(class) = <<>>
         /\ class \in Known => Entry(class) = classes[class] /\ Recent(class) = recent[class]
BY DEF TypeOK, Entry, Recent, ClassState, NewClass

\* Allow only moves a circuit on that is not closed, and to half-open.
LEMMA AdmittedState ==
  ASSUME NEW s \in ClassState
  PROVE  /\ Admitted(s) \in ClassState
         /\ Admitted(s).failureTimes = s.failureTimes
         /\ Admitted(s).openUntil = s.openUntil
         /\ Admitted(s).state = IF s.state = "closed" THEN "closed" ELSE "half-open"
BY DEF Admitted, ClassState

\* RecordSuccess leaves an open circuit alone and closes any other.
LEMMA SucceededState ==
  ASSUME NEW s \in ClassState
  PROVE  /\ Succeeded(s) \in ClassState
         /\ s.state = "open" => Succeeded(s) = s
         /\ s.state # "open" =>
              Succeeded(s).state = "closed" /\ Succeeded(s).failureTimes = <<>>
<1>0. <<>> \in Seq(Nat)
  OBVIOUS
<1>1. CASE s.state = "open"
  BY <1>1 DEF Succeeded, ClassState
<1>2. CASE s.state = "half-open"
  <2>1. Succeeded(s) = [s EXCEPT !.state = "closed", !.failureTimes = <<>>,
                                 !.halfOpenProbeUsed = FALSE]
    BY <1>2 DEF Succeeded, ClassState
  <2>. QED  BY <1>0, <1>2, <2>1 DEF ClassState
<1>3. CASE s.state = "closed"
  <2>1. Succeeded(s) = [s EXCEPT !.failureTimes = <<>>]
    BY <1>3 DEF Succeeded, ClassState
  <2>. QED  BY <1>0, <1>3, <2>1 DEF ClassState
<1>. QED  BY <1>1, <1>2, <1>3 DEF ClassState

\* RecordFailure leaves an open circuit alone, reopens a half-open one, and
\* opens a closed one when enough failures are counted.
LEMMA FailedState ==
  ASSUME now \in Nat, NEW s \in ClassState
  PROVE  /\ Failed(s) \in ClassState
         /\ Failed(s).state \in {"closed", "open"}
         /\ s.state = "open" => Failed(s) = s
         /\ s.state = "half-open" =>
              /\ Failed(s).state = "open" /\ Failed(s).openUntil = now + ResetTimeout
              /\ Failed(s).failureTimes = s.failureTimes
         /\ s.state = "closed" =>
              IF Len(Counted(s.failureTimes)) >= FailureThreshold
              THEN /\ Failed(s).state = "open" /\ Failed(s).openUntil = now + ResetTimeout
                   /\ Failed(s).failureTimes = <<>>
              ELSE /\ Failed(s).state = "closed"
                   /\ Failed(s).failureTimes = Counted(s.failureTimes)
<1>0. now + ResetTimeout \in Nat /\ Counted(s.failureTimes) \in Seq(Nat) /\ <<>> \in Seq(Nat)
  BY BreakerAssumption, CountedType DEF ClassState
<1>1. CASE s.state = "open"
  BY <1>1 DEF Failed, ClassState
<1>2. CASE s.state = "half-open"
  <2>1. Failed(s) = [s EXCEPT !.state = "open", !.openUntil = now + ResetTimeout,
                              !.halfOpenProbeUsed = FALSE]
    BY <1>2 DEF Failed, Opened, ClassState
  <2>. QED  BY <1>0, <1>2, <2>1 DEF ClassState
<1>3. CASE s.state = "closed"
  <2>1. CASE Len(Counted(s.failureTimes)) >= FailureThreshold
    <3>1. Failed(s) = [s EXCEPT !.state = "open", !.openUntil = now + ResetTimeout,
                                !.failureTimes = <<>>]
      BY <1>3, <2>1 DEF Failed, Opened, ClassState
    <3>. QED  BY <1>0, <1>3, <2>1, <3>1 DEF ClassState
  <2>2. CASE ~(Len(Counted(s.failureTimes)) >= FailureThreshold)
    <3>1. Failed(s) = [s EXCEPT !.failureTimes = Counted(s.failureTimes)]
      BY <1>3, <2>2 DEF Failed, ClassState
    <3>. QED  BY <1>0, <1>3, <2>2, <3>1 DEF ClassState
  <2>. QED  BY <2>1, <2>2
<1>. QED  BY <1>1, <1>2, <1>3 DEF ClassState

-----------------------------------------------------------------------------
(* getOrCreate and the map. *)

\* getOrCreate knows the class afterwards, adds no other, and stays within the
\* capacity: a full map has a victim to evict.
LEMMA KnownAfterBounded ==
  ASSUME TypeOK, NEW class \in Classes, NEW known \in KnownAfter(class)
  PROVE  /\ class \in known /\ known \subseteq Known \cup {class}
         /\ IsFiniteSet(known) /\ Cardinality(known) <= MaxClasses
<1>1. IsFiniteSet(Known) /\ Cardinality(Known) <= MaxClasses
  BY DEF TypeOK
<1>2. MaxClasses \in Nat /\ Cardinality(Known) \in Nat
  BY <1>1, BreakerAssumption, FS_CardinalityType
<1>3. CASE class \in Known
  BY <1>1, <1>3 DEF KnownAfter
<1>4. CASE class \notin Known /\ Cardinality(Known) >= MaxClasses
  <2>1. PICK victim \in Victims : known = (Known \ {victim}) \cup {class}
    BY <1>4 DEF KnownAfter
  <2>2. victim \in Known
    BY DEF Victims
  <2>3. IsFiniteSet(Known \ {victim}) /\ Cardinality(Known \ {victim}) = Cardinality(Known) - 1
    BY <1>1, <2>2, FS_RemoveElement
  <2>4. IsFiniteSet(known) /\ Cardinality(known) = Cardinality(Known) - 1 + 1
    BY <1>4, <2>1, <2>3, FS_AddElement
  <2>. QED  BY <1>1, <1>2, <2>1, <2>4
<1>5. CASE class \notin Known /\ ~(Cardinality(Known) >= MaxClasses)
  <2>1. known = Known \cup {class}
    BY <1>5 DEF KnownAfter
  <2>2. IsFiniteSet(known) /\ Cardinality(known) = Cardinality(Known) + 1
    BY <1>1, <1>5, <2>1, FS_AddElement
  <2>. QED  BY <1>2, <1>5, <2>1, <2>2
<1>. QED  BY <1>3, <1>4, <1>5

\* What Update does to the class it is called for, and that it does nothing to
\* the classes it keeps.
LEMMA UpdateProperties ==
  ASSUME TypeOK, NEW class \in Classes, NEW s \in ClassState, NEW failures \in Seq(Nat),
         Update(class, s, failures)
  PROVE  /\ Known' \subseteq Known \cup {class} /\ class \in Known'
         /\ IsFiniteSet(Known') /\ Cardinality(Known') <= MaxClasses
         /\ classes' \in [Known' -> ClassState]
         /\ trippedAt' \in [Known' -> Int]
         /\ recent' \in [Known' -> Seq(Nat)]
         /\ \A c \in Known' \ {class} : /\ c \in Known /\ classes'[c] = classes[c]
                                       /\ trippedAt'[c] = trippedAt[c] /\ recent'[c] = recent[c]
         /\ classes'[class] = s /\ recent'[class] = failures
         /\ s.state = "open" /\ Entry(class).state # "open" => trippedAt'[class] = now
         /\ ~(s.state = "open" /\ Entry(class).state # "open") =>
              trippedAt'[class] = IF class \in Known THEN trippedAt[class] ELSE Never
<1>1. PICK known \in KnownAfter(class) :
        /\ classes' = [Keep(classes, known, NewClass) EXCEPT ![class] = s]
        /\ trippedAt' = [Keep(trippedAt, known, Never) EXCEPT ![class] =
                           IF s.state = "open" /\ Entry(class).state # "open" THEN now ELSE @]
        /\ recent' = [Keep(recent, known, <<>>) EXCEPT ![class] = failures]
  BY DEF Update
<1>2. /\ class \in known /\ known \subseteq Known \cup {class}
      /\ IsFiniteSet(known) /\ Cardinality(known) <= MaxClasses
  BY KnownAfterBounded
<1>3. Known' = known
  BY <1>1 DEF Keep, Known
<1>4. /\ classes \in [Known -> ClassState] /\ trippedAt \in [Known -> Int]
      /\ recent \in [Known -> Seq(Nat)] /\ now \in Int
  BY DEF TypeOK
<1>5. /\ DOMAIN classes = Known /\ DOMAIN trippedAt = Known /\ DOMAIN recent = Known
      /\ Never \in Int /\ NewClass \in ClassState
  BY <1>4, BreakerAssumption DEF Never, NewClass, ClassState
<1>6. /\ classes' = [c \in known |-> IF c = class THEN s ELSE classes[c]]
      /\ recent' = [c \in known |-> IF c = class THEN failures ELSE recent[c]]
      /\ trippedAt' = [c \in known |->
           IF c = class
           THEN IF s.state = "open" /\ Entry(class).state # "open" THEN now
                ELSE IF class \in Known THEN trippedAt[class] ELSE Never
           ELSE trippedAt[c]]
  BY <1>1, <1>2, <1>5 DEF Keep
<1>7. /\ classes' \in [known -> ClassState]
      /\ trippedAt' \in [known -> Int]
      /\ recent' \in [known -> Seq(Nat)]
  BY <1>2, <1>4, <1>5, <1>6
<1>. QED  BY <1>2, <1>3, <1>6, <1>7

-----------------------------------------------------------------------------
(* Type correctness. *)

\* The class of a running job, and the failures that JobFails records.
LEMMA RunningType ==
  ASSUME TypeOK, NEW w \in Workers, running[w] # Idle
  PROVE  /\ running[w].class \in Classes
         /\ LastOf(Append(Recent(running[w].class), now), FailureThreshold) \in Seq(Nat)
<1>1. running[w].class \in Classes /\ now \in Nat
  BY BreakerAssumption DEF TypeOK
<1>2. Append(Recent(running[w].class), now) \in Seq(Nat)
  BY <1>1, EntryType, AppendProperties
<1>. QED  BY <1>1, <1>2, BreakerAssumption, LastOfProperties

\* Every step keeps the types and the capacity.
LEMMA StepType ==
  ASSUME TypeOK, [Next]_vars
  PROVE  TypeOK'
<1>0. /\ now \in 0..MaxTime /\ now \in Nat /\ MaxTime \in Nat
      /\ running \in [Workers -> [class : Classes \cup {"none"}, probe : BOOLEAN]]
      /\ \A w \in Workers : running[w] = Idle \/ running[w].class \in Classes
      /\ Idle \in [class : Classes \cup {"none"}, probe : BOOLEAN]
  BY BreakerAssumption DEF TypeOK, Idle
<1>1. ASSUME NEW class \in Classes, NEW s \in ClassState, NEW failures \in Seq(Nat),
             Update(class, s, failures), now' = now,
             NEW w \in Workers, NEW r \in [class : Classes \cup {"none"}, probe : BOOLEAN],
             r = Idle \/ r.class \in Classes, running' = [running EXCEPT ![w] = r]
      PROVE  TypeOK'
  <2>1. /\ running' \in [Workers -> [class : Classes \cup {"none"}, probe : BOOLEAN]]
        /\ \A v \in Workers : running'[v] = Idle \/ running'[v].class \in Classes
    BY <1>0, <1>1
  <2>2. Known \subseteq Classes
    BY DEF TypeOK
  <2>3. /\ Known' \subseteq Classes /\ IsFiniteSet(Known') /\ Cardinality(Known') <= MaxClasses
        /\ classes' \in [Known' -> ClassState]
        /\ trippedAt' \in [Known' -> Int] /\ recent' \in [Known' -> Seq(Nat)]
    BY <1>1, <2>2, UpdateProperties
  <2>. QED  BY <1>0, <1>1, <2>1, <2>3 DEF TypeOK, Idle
<1>2. ASSUME NEW w \in Workers, NEW class \in Classes, Begin(w, class)
      PROVE  TypeOK'
  <2>1. /\ Admitted(Entry(class)) \in ClassState /\ Recent(class) \in Seq(Nat)
        /\ [class |-> class, probe |-> Entry(class).state # "closed"]
              \in [class : Classes \cup {"none"}, probe : BOOLEAN]
    BY EntryType, AdmittedState
  <2>. QED  BY <1>1, <1>2, <2>1 DEF Begin
<1>3. ASSUME NEW w \in Workers, NEW class \in Classes, Refuse(w, class)
      PROVE  TypeOK'
  BY <1>3 DEF Refuse, vars, TypeOK, Known
<1>4. ASSUME NEW w \in Workers, JobSucceeds(w)
      PROVE  TypeOK'
  <2>1. running[w].class \in Classes
    BY <1>4, RunningType DEF JobSucceeds
  <2>2. Succeeded(Entry(running[w].class)) \in ClassState /\ <<>> \in Seq(Nat)
    BY <2>1, EntryType, SucceededState
  <2>. QED  BY <1>0, <1>1, <1>4, <2>1, <2>2 DEF JobSucceeds
<1>5. ASSUME NEW w \in Workers, JobFails(w)
      PROVE  TypeOK'
  <2>1. /\ running[w].class \in Classes
        /\ LastOf(Append(Recent(running[w].class), now), FailureThreshold) \in Seq(Nat)
    BY <1>5, RunningType DEF JobFails
  <2>2. Failed(Entry(running[w].class)) \in ClassState
    BY <1>0, <2>1, EntryType, FailedState
  <2>. QED  BY <1>0, <1>1, <1>5, <2>1, <2>2 DEF JobFails
<1>6. ASSUME NEW w \in Workers, JobPanics(w)
      PROVE  TypeOK'
  BY <1>0, <1>6 DEF JobPanics, TypeOK, Known
<1>7. CASE Tick
  BY <1>0, <1>7 DEF Tick, TypeOK, Known
<1>8. CASE UNCHANGED vars
  BY <1>8 DEF vars, TypeOK, Known
<1>. QED  BY <1>2, <1>3, <1>4, <1>5, <1>6, <1>7, <1>8 DEF Next, Finish

\* Initially the breaker knows no class.
LEMMA InitType ==
  ASSUME Init
  PROVE  TypeOK /\ Known = {}
<1>1. Known = {} /\ IsFiniteSet({}) /\ Cardinality({}) = 0
  BY FS_EmptySet DEF Init, Known
<1>2. \A w \in Workers : running[w] = Idle
  BY DEF Init
<1>3. Idle \in [class : Classes \cup {"none"}, probe : BOOLEAN]
  BY DEF Idle
<1>4. /\ classes \in [{} -> ClassState] /\ trippedAt \in [{} -> Int]
      /\ recent \in [{} -> Seq(Nat)]
  BY DEF Init
<1>. QED  BY <1>1, <1>2, <1>3, <1>4, BreakerAssumption DEF Init, TypeOK

\* The breaker's state is well formed, and getOrCreate's eviction keeps the map
\* within maxBreakerClasses, for every capacity and set of classes.
THEOREM BreakerTypeCorrect == Spec => []TypeOK
<1>1. Init => TypeOK
  BY InitType
<1>2. TypeOK /\ [Next]_vars => TypeOK'
  BY StepType
<1>. QED  BY <1>1, <1>2, PTL DEF Spec

-----------------------------------------------------------------------------
(* Open for ResetTimeout. *)

\* What one class comes to keeps the trips of all settled.
LEMMA UpdateSettles ==
  ASSUME TypeOK, TripsSettled, now' = now,
         NEW class \in Classes, NEW s \in ClassState, NEW failures \in Seq(Nat),
         Update(class, s, failures),
         s.state = "open" => \/ s = Entry(class)
                             \/ /\ Entry(class).state # "open"
                                /\ s.openUntil = now + ResetTimeout,
         s.state # "open" => \/ Entry(class).state # "open"
                             \/ Entry(class).openUntil <= now
  PROVE  TripsSettled'
<1>0. now \in Nat /\ trippedAt \in [Known -> Int] /\ ResetTimeout \in Nat
      /\ Never + ResetTimeout = 0
  BY BreakerAssumption DEF TypeOK, Never
<1>1. SUFFICES ASSUME NEW c \in Known'
               PROVE  /\ classes'[c].state = "open" =>
                           classes'[c].openUntil = trippedAt'[c] + ResetTimeout
                      /\ classes'[c].state # "open" => trippedAt'[c] + ResetTimeout <= now'
  BY DEF TripsSettled
<1>2. CASE c # class
  <2>1. c \in Known /\ classes'[c] = classes[c] /\ trippedAt'[c] = trippedAt[c]
    BY <1>2, UpdateProperties
  <2>. QED  BY <2>1 DEF TripsSettled
<1>3. CASE c = class
  <2>1. /\ classes'[class] = s
        /\ s.state = "open" /\ Entry(class).state # "open" => trippedAt'[class] = now
        /\ ~(s.state = "open" /\ Entry(class).state # "open") =>
             trippedAt'[class] = IF class \in Known THEN trippedAt[class] ELSE Never
    BY UpdateProperties
  <2>2. CASE class \in Known
    <3>1. /\ Entry(class) = classes[class] /\ trippedAt[class] \in Int
          /\ classes[class].openUntil \in Nat
      BY <1>0, <2>2 DEF Entry, TypeOK, ClassState
    <3>. QED  BY <1>0, <1>3, <2>1, <2>2, <3>1 DEF TripsSettled
  <2>3. CASE class \notin Known
    <3>1. Entry(class).state = "closed"
      BY <2>3 DEF Entry, NewClass
    <3>. QED  BY <1>0, <1>3, <2>1, <2>3, <3>1
  <2>. QED  BY <2>2, <2>3
<1>. QED  BY <1>2, <1>3

\* Every step keeps the trips settled.
LEMMA StepSettles ==
  ASSUME TypeOK, TripsSettled, [Next]_vars
  PROVE  TripsSettled'
<1>0. now \in Nat
  BY DEF TypeOK
<1>1. ASSUME NEW w \in Workers, NEW class \in Classes, Begin(w, class)
      PROVE  TripsSettled'
  <2>. DEFINE e == Entry(class)
  <2>1. e \in ClassState /\ Recent(class) \in Seq(Nat)
    BY EntryType
  <2>2. Admitted(e) \in ClassState /\ Admitted(e).state # "open"
    BY <2>1, AdmittedState
  <2>3. e.state # "open" \/ e.openUntil <= now
    BY <1>0, <1>1, <2>1 DEF Begin, Refuses, ClassState
  <2>. QED  BY <1>1, <2>1, <2>2, <2>3, UpdateSettles DEF Begin
<1>2. ASSUME NEW w \in Workers, NEW class \in Classes, Refuse(w, class)
      PROVE  TripsSettled'
  BY <1>2 DEF Refuse, vars, TripsSettled, Known
<1>3. ASSUME NEW w \in Workers, JobSucceeds(w)
      PROVE  TripsSettled'
  <2>. DEFINE class == running[w].class
              e == Entry(class)
  <2>1. class \in Classes
    BY <1>3, RunningType DEF JobSucceeds
  <2>2. e \in ClassState /\ <<>> \in Seq(Nat)
    BY <2>1, EntryType
  <2>3. /\ Succeeded(e) \in ClassState
        /\ e.state = "open" => Succeeded(e) = e
        /\ e.state # "open" => Succeeded(e).state = "closed"
    BY <2>2, SucceededState
  <2>4. Update(class, Succeeded(e), <<>>) /\ now' = now
    BY <1>3 DEF JobSucceeds
  <2>. HIDE DEF class, e
  <2>. QED  BY <2>1, <2>2, <2>3, <2>4, UpdateSettles DEF e
<1>4. ASSUME NEW w \in Workers, JobFails(w)
      PROVE  TripsSettled'
  <2>. DEFINE class == running[w].class
              e == Entry(class)
              failures == LastOf(Append(Recent(class), now), FailureThreshold)
  <2>1. class \in Classes /\ failures \in Seq(Nat)
    BY <1>4, RunningType DEF JobFails
  <2>2. e \in ClassState
    BY <2>1, EntryType
  <2>3. /\ Failed(e) \in ClassState
        /\ e.state = "open" => Failed(e) = e
        /\ e.state # "open" /\ Failed(e).state = "open" =>
             Failed(e).openUntil = now + ResetTimeout
    BY <1>0, <2>2, FailedState DEF ClassState
  <2>4. Update(class, Failed(e), failures) /\ now' = now
    BY <1>4 DEF JobFails
  <2>. HIDE DEF class, e, failures
  <2>. QED  BY <2>1, <2>2, <2>3, <2>4, UpdateSettles DEF e
<1>5. ASSUME NEW w \in Workers, JobPanics(w)
      PROVE  TripsSettled'
  BY <1>5 DEF JobPanics, TripsSettled, Known
<1>6. CASE Tick
  <2>1. /\ now' = now + 1 /\ classes' = classes /\ trippedAt' = trippedAt /\ Known' = Known
    BY <1>6 DEF Tick, Known
  <2>2. \A c \in Known : trippedAt[c] + ResetTimeout \in Int
    BY BreakerAssumption DEF TypeOK
  <2>. QED  BY <1>0, <2>1, <2>2 DEF TripsSettled
<1>7. CASE UNCHANGED vars
  BY <1>7 DEF vars, TripsSettled, Known
<1>. QED  BY <1>1, <1>2, <1>3, <1>4, <1>5, <1>6, <1>7 DEF Next, Finish

\* Once RecordFailure has tripped a circuit, it stays open for the whole
\* ResetTimeout, whatever late results the workers record.
THEOREM OpenStaysOpen == Spec => []OpenForResetTimeout
<1>1. Init => TypeOK /\ TripsSettled
  BY InitType DEF TripsSettled
<1>2. TypeOK /\ TripsSettled /\ [Next]_vars => (TypeOK /\ TripsSettled)'
  BY StepType, StepSettles
<1>3. TypeOK /\ TripsSettled => OpenForResetTimeout
  <2>. SUFFICES ASSUME TypeOK, TripsSettled, NEW c \in Known, now < trippedAt[c] + ResetTimeout
                PROVE  IsOpen(c)
    BY DEF OpenForResetTimeout
  <2>1. now \in Nat /\ trippedAt[c] + ResetTimeout \in Int
    BY BreakerAssumption DEF TypeOK
  <2>. QED  BY <2>1 DEF TripsSettled, IsOpen
<1>. QED  BY <1>1, <1>2, <1>3, PTL DEF Spec

-----------------------------------------------------------------------------
(* The sliding window. *)

\* A circuit without failures keeps track of them.
LEMMA NoFailuresTracked == now \in Nat => Tracks(<<>>, <<>>, now)
BY BreakerAssumption DEF Tracks

\* What one class comes to keeps the windows of all.
LEMMA UpdateTracks ==
  ASSUME TypeOK, WindowsTracked, now' = now,
         NEW class \in Classes, NEW s \in ClassState, NEW failures \in Seq(Nat),
         Update(class, s, failures),
         s.state = "closed" => Tracks(s.failureTimes, failures, now),
         s.state # "closed" => s.failureTimes = <<>>
  PROVE  WindowsTracked'
<1>1. SUFFICES ASSUME NEW c \in Known'
               PROVE  /\ classes'[c].state = "closed" =>
                           Tracks(classes'[c].failureTimes, recent'[c], now')
                      /\ classes'[c].state # "closed" => classes'[c].failureTimes = <<>>
  BY DEF WindowsTracked, Tracks
<1>2. CASE c # class
  <2>1. c \in Known /\ classes'[c] = classes[c] /\ recent'[c] = recent[c]
    BY <1>2, UpdateProperties
  <2>. QED  BY <2>1 DEF WindowsTracked
<1>3. CASE c = class
  BY <1>3, UpdateProperties
<1>. QED  BY <1>2, <1>3

\* The windows, as getOrCreate returns the class.
LEMMA EntryTracked ==
  ASSUME TypeOK, WindowsTracked, NEW class \in Classes
  PROVE  /\ Entry(class).state = "closed" =>
              Tracks(Entry(class).failureTimes, Recent(class), now)
         /\ Entry(class).state # "closed" => Entry(class).failureTimes = <<>>
<1>1. CASE class \in Known
  BY <1>1, EntryType DEF WindowsTracked
<1>2. CASE class \notin Known
  BY <1>2, EntryType, NoFailuresTracked DEF NewClass, TypeOK
<1>. QED  BY <1>1, <1>2

\* A job fails: the failure is counted, or the window is full and the circuit
\* trips.
LEMMA FailureTracked ==
  ASSUME TypeOK, WindowsTracked, NEW w \in Workers, JobFails(w)
  PROVE  /\ WindowsTracked'
         /\ \A c \in Known \cap Known' :
              (classes[c].state = "closed" /\ classes'[c].state = "open") => WindowFull(c)'
<1>. DEFINE class == running[w].class
            e == Entry(class)
            failures == LastOf(Append(Recent(class), now), FailureThreshold)
<1>1. class \in Classes /\ failures \in Seq(Nat) /\ now \in Nat
  BY RunningType DEF JobFails, TypeOK
<1>2. e \in ClassState /\ Recent(class) \in Seq(Nat) /\ e.failureTimes \in Seq(Nat)
  BY <1>1, EntryType DEF ClassState
<1>3. Failed(e) \in ClassState
  BY <1>1, <1>2, FailedState
<1>4. Update(class, Failed(e), failures) /\ now' = now
  BY DEF JobFails
<1>5. e.state # "closed" => e.failureTimes = <<>>
  BY <1>1, EntryTracked
<1>6. e.state = "closed" =>
        /\ Len(Counted(e.failureTimes)) < FailureThreshold =>
             Tracks(Counted(e.failureTimes), failures, now)
        /\ Len(Counted(e.failureTimes)) >= FailureThreshold =>
             /\ Len(failures) = FailureThreshold
             /\ failures[1] >= failures[FailureThreshold] - Window
  BY <1>1, <1>2, EntryTracked, CountedTracks
<1>7. Counted(e.failureTimes) \in Seq(Nat) /\ FailureThreshold \in Nat
  BY <1>1, <1>2, CountedType, BreakerAssumption
<1>8. ~(Len(Counted(e.failureTimes)) >= FailureThreshold) =>
        Len(Counted(e.failureTimes)) < FailureThreshold
  BY <1>7
<1>. HIDE DEF class, e, failures
<1>9. /\ Failed(e).state = "closed" => Tracks(Failed(e).failureTimes, failures, now)
      /\ Failed(e).state # "closed" => Failed(e).failureTimes = <<>>
  <2>1. CASE e.state = "open"
    BY <1>1, <1>2, <1>5, <2>1, FailedState
  <2>2. CASE e.state = "half-open"
    BY <1>1, <1>2, <1>5, <2>2, FailedState
  <2>3. CASE e.state = "closed"
    BY <1>1, <1>2, <1>6, <1>8, <2>3, FailedState
  <2>. QED  BY <1>2, <2>1, <2>2, <2>3 DEF ClassState
<1>10. WindowsTracked'
  BY <1>1, <1>3, <1>4, <1>9, UpdateTracks
<1>11. ASSUME NEW c \in Known \cap Known',
              classes[c].state = "closed", classes'[c].state = "open"
       PROVE  WindowFull(c)'
  <2>1. c = class
    BY <1>1, <1>3, <1>4, <1>11, UpdateProperties
  <2>2. e = classes[c] /\ e.state = "closed"
    BY <1>11, <2>1 DEF Entry, e
  <2>3. Failed(e).state = "open" /\ recent'[c] = failures
    BY <1>1, <1>3, <1>4, <1>11, <2>1, UpdateProperties
  <2>4. Len(Counted(e.failureTimes)) >= FailureThreshold
    BY <1>1, <1>2, <2>2, <2>3, FailedState
  <2>. QED  BY <1>6, <2>2, <2>3, <2>4 DEF WindowFull
<1>. QED  BY <1>10, <1>11

\* Every step keeps the windows, and trips a closed circuit only when its
\* window is full.
LEMMA StepTracks ==
  ASSUME TypeOK, WindowsTracked, [Next]_vars
  PROVE  /\ WindowsTracked'
         /\ \A c \in Known \cap Known' :
              (classes[c].state = "closed" /\ classes'[c].state = "open") => WindowFull(c)'
<1>. DEFINE Tripless == \A c \in Known \cap Known' :
                          ~(classes[c].state = "closed" /\ classes'[c].state = "open")
<1>0. now \in Nat
  BY DEF TypeOK
<1>1. ASSUME NEW w \in Workers, NEW class \in Classes, Begin(w, class)
      PROVE  WindowsTracked' /\ Tripless
  <2>. DEFINE e == Entry(class)
  <2>1. /\ e \in ClassState /\ Recent(class) \in Seq(Nat)
        /\ e.state = "closed" => Tracks(e.failureTimes, Recent(class), now)
        /\ e.state # "closed" => e.failureTimes = <<>>
    BY EntryType, EntryTracked
  <2>2. /\ Admitted(e) \in ClassState /\ Admitted(e).failureTimes = e.failureTimes
        /\ Admitted(e).state = IF e.state = "closed" THEN "closed" ELSE "half-open"
    BY <2>1, AdmittedState
  <2>3. Update(class, Admitted(e), Recent(class)) /\ now' = now
    BY <1>1 DEF Begin
  <2>. HIDE DEF e
  <2>4. WindowsTracked'
    BY <2>1, <2>2, <2>3, UpdateTracks
  <2>5. Tripless
    <3>1. /\ classes'[class] = Admitted(e)
          /\ \A c \in Known' \ {class} : classes'[c] = classes[c]
      BY <2>1, <2>2, <2>3, UpdateProperties
    <3>. QED  BY <2>2, <3>1
  <2>. QED  BY <2>4, <2>5
<1>2. ASSUME NEW w \in Workers, NEW class \in Classes, Refuse(w, class)
      PROVE  WindowsTracked' /\ Tripless
  BY <1>2 DEF Refuse, vars, WindowsTracked, Tracks, Known
<1>3. ASSUME NEW w \in Workers, JobSucceeds(w)
      PROVE  WindowsTracked' /\ Tripless
  <2>. DEFINE class == running[w].class
              e == Entry(class)
  <2>1. class \in Classes /\ <<>> \in Seq(Nat)
    BY <1>3, RunningType DEF JobSucceeds
  <2>2. e \in ClassState /\ (e.state # "closed" => e.failureTimes = <<>>)
    BY <2>1, EntryType, EntryTracked
  <2>3. /\ Succeeded(e) \in ClassState
        /\ e.state = "open" => Succeeded(e) = e
        /\ e.state # "open" => Succeeded(e).state = "closed" /\ Succeeded(e).failureTimes = <<>>
    BY <2>2, SucceededState
  <2>4. Update(class, Succeeded(e), <<>>) /\ now' = now
    BY <1>3 DEF JobSucceeds
  <2>5. class \in Known => e = classes[class]
    BY DEF Entry
  <2>. HIDE DEF class, e
  <2>6. WindowsTracked'
    BY <1>0, <2>1, <2>2, <2>3, <2>4, UpdateTracks, NoFailuresTracked
  <2>7. Tripless
    <3>1. /\ classes'[class] = Succeeded(e)
          /\ \A c \in Known' \ {class} : classes'[c] = classes[c]
      BY <2>1, <2>3, <2>4, UpdateProperties
    <3>. QED  BY <2>3, <2>5, <3>1
  <2>. QED  BY <2>6, <2>7
<1>4. ASSUME NEW w \in Workers, JobPanics(w)
      PROVE  WindowsTracked' /\ Tripless
  BY <1>4 DEF JobPanics, WindowsTracked, Tracks, Known
<1>5. CASE Tick
  <2>1. /\ now' = now + 1 /\ classes' = classes /\ recent' = recent /\ Known' = Known
    BY <1>5 DEF Tick, Known
  <2>2. ASSUME NEW c \in Known, Tracks(classes[c].failureTimes, recent[c], now)
        PROVE  Tracks(classes[c].failureTimes, recent[c], now + 1)
    <3>1. recent[c] \in Seq(Nat)
      BY DEF TypeOK
    <3>2. \A i \in 1..Len(recent[c]) : recent[c][i] \in Nat /\ recent[c][i] <= now
      BY <2>2, <3>1 DEF Tracks
    <3>3. \A i \in 1..Len(recent[c]) : recent[c][i] <= now + 1
      BY <1>0, <3>2
    <3>. QED  BY <2>2, <3>3 DEF Tracks
  <2>. QED  BY <2>1, <2>2 DEF WindowsTracked
<1>6. CASE UNCHANGED vars
  BY <1>6 DEF vars, WindowsTracked, Tracks, Known
<1>7. ASSUME NEW w \in Workers, JobFails(w)
      PROVE  /\ WindowsTracked'
             /\ \A c \in Known \cap Known' :
                  (classes[c].state = "closed" /\ classes'[c].state = "open") => WindowFull(c)'
  BY <1>7, FailureTracked
<1>. QED  BY <1>1, <1>2, <1>3, <1>4, <1>5, <1>6, <1>7 DEF Next, Finish

\* A closed circuit whose failures are tracked is below the threshold.
LEMMA TrackedIsBelow ==
  ASSUME TypeOK, WindowsTracked
  PROVE  ClosedMeansBelowThreshold
<1>. SUFFICES ASSUME NEW c \in Known, classes[c].state = "closed", WindowFull(c)
              PROVE  FALSE
  BY DEF ClosedMeansBelowThreshold
<1>1. /\ recent[c] \in Seq(Nat) /\ classes[c].failureTimes \in Seq(Nat)
      /\ FailureThreshold \in Nat \ {0} /\ Window \in Nat
  BY BreakerAssumption DEF TypeOK, ClassState
<1>2. Tracks(classes[c].failureTimes, recent[c], now)
  BY DEF WindowsTracked
<1>3. 1 \in 1..(Len(recent[c]) - Len(classes[c].failureTimes)) /\ Len(recent[c]) = FailureThreshold
  BY <1>1, <1>2 DEF Tracks, WindowFull
<1>4. recent[c][1] < recent[c][FailureThreshold] - Window
  BY <1>2, <1>3 DEF Tracks
<1>5. recent[c][1] \in Nat /\ recent[c][FailureThreshold] \in Nat
  BY <1>1, <1>3
<1>. QED  BY <1>1, <1>4, <1>5 DEF WindowFull

\* The invariant of the sliding window.
LEMMA WindowInvariant == Spec => [](TypeOK /\ WindowsTracked)
<1>1. Init => TypeOK /\ WindowsTracked
  BY InitType DEF WindowsTracked
<1>2. TypeOK /\ WindowsTracked /\ [Next]_vars => (TypeOK /\ WindowsTracked)'
  BY StepType, StepTracks
<1>. QED  BY <1>1, <1>2, PTL DEF Spec

\* RecordFailure's trimmed and cut list of failure times misses no trip: a
\* closed circuit never has FailureThreshold failures in a row in one window.
THEOREM NoTripMissed == Spec => []ClosedMeansBelowThreshold
<1>1. TypeOK /\ WindowsTracked => ClosedMeansBelowThreshold
  BY TrackedIsBelow
<1>. QED  BY <1>1, WindowInvariant, PTL

\* ... and RecordFailure opens a closed circuit for no other reason.
THEOREM NoFalseTrip == Spec => TripsOnlyWhenWindowFull
<1>1. TypeOK /\ WindowsTracked /\ [Next]_vars =>
        [\A c \in Known \cap Known' :
           (classes[c].state = "closed" /\ classes'[c].state = "open") => WindowFull(c)']_vars
  BY StepTracks
<1>. QED  BY <1>1, WindowInvariant, PTL DEF Spec, TripsOnlyWhenWindowFull

-----------------------------------------------------------------------------
(* The probe of a half-open circuit. *)

\* Every step leaves a half-open circuit its probe.
LEMMA StepKeepsProbe ==
  ASSUME TypeOK, HalfOpenHasProbe, [Next]_vars
  PROVE  HalfOpenHasProbe'
<1>0. /\ now \in Nat
      /\ running \in [Workers -> [class : Classes \cup {"none"}, probe : BOOLEAN]]
      /\ \A c : [class |-> c, probe |-> TRUE] # Idle
      /\ \A c : [class |-> c, probe |-> TRUE].class = c
  BY DEF TypeOK, Idle
<1>1. ASSUME NEW class \in Classes, NEW s \in ClassState, NEW failures \in Seq(Nat),
             Update(class, s, failures), s.state # "half-open",
             NEW w \in Workers, running[w].class = class,
             running' = [running EXCEPT ![w] = Idle]
      PROVE  HalfOpenHasProbe'
  <2>. SUFFICES ASSUME NEW c \in Known' \ Panicking, classes'[c].state = "half-open"
                PROVE  \E v \in Workers : running'[v] = [class |-> c, probe |-> TRUE]
    BY DEF HalfOpenHasProbe
  <2>1. c # class
    BY <1>1, UpdateProperties
  <2>2. c \in Known /\ classes'[c] = classes[c]
    BY <1>1, <2>1, UpdateProperties
  <2>3. PICK v \in Workers : running[v] = [class |-> c, probe |-> TRUE]
    BY <2>2 DEF HalfOpenHasProbe
  <2>4. v # w
    BY <1>0, <1>1, <2>1, <2>3
  <2>. QED  BY <1>0, <1>1, <2>3, <2>4
<1>2. ASSUME NEW w \in Workers, NEW class \in Classes, Begin(w, class)
      PROVE  HalfOpenHasProbe'
  <2>. DEFINE e == Entry(class)
  <2>1. e \in ClassState /\ Recent(class) \in Seq(Nat)
    BY EntryType
  <2>2. /\ Admitted(e) \in ClassState
        /\ Admitted(e).state = IF e.state = "closed" THEN "closed" ELSE "half-open"
    BY <2>1, AdmittedState
  <2>3. /\ Update(class, Admitted(e), Recent(class)) /\ running[w] = Idle
        /\ running' = [running EXCEPT ![w] = [class |-> class, probe |-> e.state # "closed"]]
    BY <1>2 DEF Begin
  <2>. HIDE DEF e
  <2>4. SUFFICES ASSUME NEW c \in Known' \ Panicking, classes'[c].state = "half-open"
                 PROVE  \E v \in Workers : running'[v] = [class |-> c, probe |-> TRUE]
    BY DEF HalfOpenHasProbe
  <2>5. CASE c = class
    <3>1. e.state # "closed"
      BY <2>1, <2>2, <2>3, <2>4, <2>5, UpdateProperties
    <3>2. running'[w] = [class |-> c, probe |-> TRUE]
      BY <1>0, <2>3, <2>5, <3>1
    <3>. QED  BY <3>2
  <2>6. CASE c # class
    <3>1. c \in Known /\ classes'[c] = classes[c]
      BY <2>1, <2>2, <2>3, <2>6, UpdateProperties
    <3>2. PICK v \in Workers : running[v] = [class |-> c, probe |-> TRUE]
      BY <2>4, <3>1 DEF HalfOpenHasProbe
    <3>3. v # w
      BY <1>0, <2>3, <3>2
    <3>. QED  BY <1>0, <2>3, <3>2, <3>3
  <2>. QED  BY <2>5, <2>6
<1>3. ASSUME NEW w \in Workers, NEW class \in Classes, Refuse(w, class)
      PROVE  HalfOpenHasProbe'
  BY <1>3 DEF Refuse, vars, HalfOpenHasProbe, Known
<1>4. ASSUME NEW w \in Workers, JobSucceeds(w)
      PROVE  HalfOpenHasProbe'
  <2>1. running[w].class \in Classes /\ <<>> \in Seq(Nat)
    BY <1>4, RunningType DEF JobSucceeds
  <2>2. Entry(running[w].class) \in ClassState
    BY <2>1, EntryType
  <2>3. /\ Succeeded(Entry(running[w].class)) \in ClassState
        /\ Succeeded(Entry(running[w].class)).state # "half-open"
    BY <2>2, SucceededState
  <2>. QED  BY <1>1, <1>4, <2>1, <2>3 DEF JobSucceeds
<1>5. ASSUME NEW w \in Workers, JobFails(w)
      PROVE  HalfOpenHasProbe'
  <2>1. /\ running[w].class \in Classes
        /\ LastOf(Append(Recent(running[w].class), now), FailureThreshold) \in Seq(Nat)
    BY <1>5, RunningType DEF JobFails
  <2>2. Entry(running[w].class) \in ClassState
    BY <2>1, EntryType
  <2>3. /\ Failed(Entry(running[w].class)) \in ClassState
        /\ Failed(Entry(running[w].class)).state # "half-open"
    BY <1>0, <2>2, FailedState
  <2>. QED  BY <1>1, <1>5, <2>1, <2>3 DEF JobFails
<1>6. ASSUME NEW w \in Workers, JobPanics(w)
      PROVE  HalfOpenHasProbe'
  <2>. SUFFICES ASSUME NEW c \in Known' \ Panicking, classes'[c].state = "half-open"
                PROVE  \E v \in Workers : running'[v] = [class |-> c, probe |-> TRUE]
    BY DEF HalfOpenHasProbe
  <2>1. c \in Known /\ classes'[c] = classes[c]
    BY <1>6 DEF JobPanics, Known
  <2>2. PICK v \in Workers : running[v] = [class |-> c, probe |-> TRUE]
    BY <2>1 DEF HalfOpenHasProbe
  <2>3. v # w
    BY <1>0, <1>6, <2>2 DEF JobPanics
  <2>. QED  BY <1>0, <1>6, <2>2, <2>3 DEF JobPanics
<1>7. CASE Tick
  BY <1>7 DEF Tick, HalfOpenHasProbe, Known
<1>8. CASE UNCHANGED vars
  BY <1>8 DEF vars, HalfOpenHasProbe, Known
<1>. QED  BY <1>2, <1>3, <1>4, <1>5, <1>6, <1>7, <1>8 DEF Next, Finish

\* A half-open circuit of a class whose jobs do not panic always has the probe
\* under way that Allow admitted: no eviction and no late result orphans it.
THEOREM ProbeUnderWay == Spec => []HalfOpenHasProbe
<1>1. Init => TypeOK /\ HalfOpenHasProbe
  BY InitType DEF HalfOpenHasProbe
<1>2. TypeOK /\ HalfOpenHasProbe /\ [Next]_vars => (TypeOK /\ HalfOpenHasProbe)'
  BY StepType, StepKeepsProbe
<1>. QED  BY <1>1, <1>2, PTL DEF Spec
=============================================================================
