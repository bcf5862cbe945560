--------------------------- MODULE RetrySetProofs ---------------------------
(***************************************************************************)
(* The order of the retry set and the counts of GetStats, for any number   *)
(* of jobs, queues and engines, whatever queues the engines share, every   *)
(* limit and every backoff.                                                *)
(*                                                                         *)
(* NotEarly and NoOvertaking compare two states of one step, yet a batch   *)
(* is read long before its jobs are moved, and meanwhile other engines     *)
(* remove its members and workers store them anew.  The inductive          *)
(* invariants say what stays true of a batch: its entries were due         *)
(* (OrderInv), no member that waits comes before one of them but those     *)
(* listed earlier, and, as long as a job exists in one copy (EarlyInv),    *)
(* its listed bytes are behind those of the copy, or are due.              *)
(*                                                                         *)
(* StatsNearlyExact needs the set of copies behind each number (Saw): it   *)
(* may differ from the copies that are there now only in those that moved. *)
(***************************************************************************)
EXTENDS RetrySet, TLAPS, FiniteSetTheorems

Places == {"queue", "active", "retry", "moving", "unsent", "gone", "dead"}

StoredStates == {"pending", "failed"}
BytesSet == [jid : JIDs, retryCount : Nat, state : StoredStates]
Entries == [bytes : BytesSet, score : Nat]

CopiesTyped ==
  /\ place \in [Copies -> Places]
  /\ score \in [Copies -> Nat] /\ retryAt \in [Copies -> Nat] /\ retryCount \in [Copies -> Nat]
  /\ state \in [Copies -> StoredStates]

JobsTyped ==
  /\ now \in Nat
  /\ CopiesTyped
  /\ batch \in [Engines -> Seq(Entries)]
  /\ hand \in [Engines -> Copies \cup {NoCopy}]
  /\ last \in [Engines -> Nat] /\ failed \in [Engines -> SUBSET BytesSet]
  /\ doubled \in SUBSET JIDs

\* Engine e moves a member b, and has not failed to remove it.
Own(e, b) == QueueOf[b.jid] \in Serves[e] /\ b \notin failed[e]

TimesKept == \A c \in Copies : place[c] = "retry" => score[c] = Unix(retryAt[c])

\* A member of the retry set is one copy.
MemberOnce ==
  \A c, d \in Copies : place[c] = "retry" /\ place[d] = "retry" /\ Bytes(c) = Bytes(d) => c = d

EntriesDue == \A e \in Engines : \A i \in DOMAIN batch[e] : batch[e][i].score <= Unix(now)

BatchSorted ==
  \A e \in Engines : \A i, k \in DOMAIN batch[e] : i < k => batch[e][i].score <= batch[e][k].score

\* No member that e moves comes before an entry of its batch, but those listed earlier.
Foremost ==
  \A e \in Engines : \A i \in DOMAIN batch[e] : \A c \in Copies :
    place[c] = "retry" /\ Own(e, Bytes(c)) =>
      \/ \E k \in DOMAIN batch[e] : k < i /\ batch[e][k].bytes = Bytes(c)
      \/ batch[e][i].score <= score[c]

\* The job moved last was due, and none that is listed or waits comes before it.
LastPassed ==
  \A e \in Engines :
    /\ last[e] <= Unix(now)
    /\ \A i \in DOMAIN batch[e] : Own(e, batch[e][i].bytes) => last[e] <= batch[e][i].score
    /\ \A c \in Copies : place[c] = "retry" /\ Own(e, Bytes(c)) => last[e] <= score[c]

OrderInv == JobsTyped /\ TimesKept /\ MemberOnce /\ EntriesDue /\ BatchSorted /\ Foremost /\ LastPassed

Live(c) == place[c] \notin {"gone", "dead"}

\* A job that was not doubled has one copy ...
OneCopy ==
  \A c, d \in Copies : Live(c) /\ Live(d) /\ JobOf[c] = JobOf[d] /\ JobOf[c] \notin doubled => c = d

\* ... which has used up as many attempts as any listed bytes say, or more.
CountsBehind ==
  \A e \in Engines : \A i \in DOMAIN batch[e] : \A c \in Copies :
    Live(c) /\ JobOf[c] = batch[e][i].bytes.jid /\ JobOf[c] \notin doubled =>
      /\ batch[e][i].bytes.retryCount <= retryCount[c]
      /\ place[c] = "unsent" => batch[e][i].bytes.retryCount < retryCount[c]

\* If a member of such a job is listed, it is due.
ListedDue ==
  \A e \in Engines : \A i \in DOMAIN batch[e] : \A c \in Copies :
    place[c] = "retry" /\ Bytes(c) = batch[e][i].bytes /\ JobOf[c] \notin doubled =>
      score[c] <= Unix(now)

EarlyInv == OneCopy /\ CountsBehind /\ ListedDue

-----------------------------------------------------------------------------
(* What a step does to the members of the set and to the batches. *)

\* Copy c waits as before.
StillWaits(c) ==
  /\ place[c] = "retry" /\ retryCount'[c] = retryCount[c] /\ state'[c] = state[c]
  /\ score'[c] = score[c] /\ retryAt'[c] = retryAt[c]

Takes == \A c \in Copies : place'[c] = "retry" => StillWaits(c)

\* A copy joins the set for a time t, alone under its bytes.
Adds ==
  \E j \in Copies, t \in Nat :
    /\ t >= now /\ place'[j] = "retry" /\ score'[j] = Unix(t) /\ retryAt'[j] = t
    /\ \A d \in Copies \ {j} : place'[d] = "retry" => StillWaits(d) /\ Bytes(d)' # Bytes(j)'

\* The copies of a job that is not doubled: none comes to life, and one that is stored
\* anew is stored under bytes that no batch lists.
Grows ==
  /\ doubled \subseteq doubled'
  /\ \A c \in Copies : Live(c)' /\ JobOf[c] \notin doubled' =>
       /\ Live(c) /\ retryCount[c] <= retryCount'[c]
       /\ place'[c] = "unsent" => retryCount[c] < retryCount'[c] \/ place[c] = "unsent"
       /\ place'[c] = "retry" => \/ StillWaits(c)
                                 \/ retryCount[c] < retryCount'[c]
                                 \/ place[c] = "unsent"
                                 \/ ~Listed(BytesOf(JobOf[c], retryCount'[c], state'[c]))

\* Copy c is left alone.
Keeps(c) ==
  /\ place'[c] = place[c] /\ retryCount'[c] = retryCount[c] /\ state'[c] = state[c]
  /\ score'[c] = score[c] /\ retryAt'[c] = retryAt[c]

\* Copy c goes to a place other than the set; it lived before, or its job is doubled.
Leaves(c) ==
  /\ place'[c] # "retry"
  /\ \/ JobOf[c] \in doubled'
     \/ /\ Live(c) /\ retryCount[c] <= retryCount'[c]
        /\ place'[c] = "unsent" => retryCount[c] < retryCount'[c]

SameBatches == batch' = batch /\ last' = last /\ failed' = failed

\* Engine e is done with the first entry of its batch: whatever waits under these
\* bytes now is no longer its own.
Pops(e) ==
  /\ batch[e] # <<>> /\ batch' = [batch EXCEPT ![e] = Tail(@)]
  /\ \A f \in Engines : failed[f] \subseteq failed'[f]
  /\ \A f \in Engines \ {e} : last'[f] = last[f]
  /\ \/ last'[e] = last[e]
     \/ Own(e, Head(batch[e]).bytes) /\ last'[e] = Head(batch[e]).score
  /\ \A c \in Copies : place'[c] = "retry" /\ Bytes(c)' = Head(batch[e]).bytes => ~Own(e, Bytes(c))'

Effect ==
  /\ JobsTyped' /\ now <= now'
  /\ Takes \/ Adds
  /\ Grows
  /\ SameBatches \/ \E e \in Engines : Pops(e)

\* What NotEarly says of one step.
InTime ==
  \A c \in Copies :
    JobOf[c] \notin doubled /\ place[c] = "retry" /\ place'[c] = "moving" => retryAt[c] < now + 2

-----------------------------------------------------------------------------
(* Operators. *)

\* Seconds grow with the time, and lose less than one of it.
LEMMA UnixGrows ==
  ASSUME NEW s \in Nat, NEW t \in Nat
  PROVE  /\ Unix(s) \in Nat
         /\ s <= t => Unix(s) <= Unix(t)
         /\ Unix(s) <= Unix(t) => s < t + 2
BY DEF Unix

\* What ZRANGEBYSCORE returns: due copies, in the order of their scores, and none that is
\* left behind comes before one of them.
LEMMA PicksAre ==
  ASSUME JobsTyped, NEW s \in Picks
  PROVE  /\ s \in Seq(Copies)
         /\ \A i \in DOMAIN s : s[i] \in Due
         /\ \A i, k \in DOMAIN s : i < k => score[s[i]] <= score[s[k]]
         /\ \A i \in DOMAIN s : \A c \in Due \ {s[k] : k \in DOMAIN s} : score[s[i]] <= score[c]
<1>1. PICK S \in SUBSET Due : s \in SetToSeqs(S)
  BY DEF Picks
<1>2. Due \subseteq Copies /\ IsFiniteSet(Copies)
  BY RetrySetAssumption DEF Due
<1>3. IsFiniteSet(S)
  BY <1>1, <1>2, FS_Subset
<1>4. Cardinality(S) \in Nat
  BY <1>3, FS_CardinalityType
<1>5. s \in [1..Cardinality(S) -> S]
  BY <1>1 DEF SetToSeqs
<1>6. s \in Seq(Copies) /\ Len(s) = Cardinality(S) /\ DOMAIN s = 1..Cardinality(S)
  BY <1>1, <1>2, <1>4, <1>5
<1>7. \A i \in DOMAIN s : s[i] \in Due
  BY <1>1, <1>5, <1>6
<1>8. \A i, k \in DOMAIN s : i < k => score[s[i]] <= score[s[k]]
  BY <1>6 DEF Picks, IsSorted
<1>9. \A i \in DOMAIN s : \A c \in Due \ {s[k] : k \in DOMAIN s} : score[s[i]] <= score[c]
  BY DEF Picks, ToSet
<1>. QED  BY <1>6, <1>7, <1>8, <1>9

\* The bytes of a copy.
LEMMA BytesTyped ==
  ASSUME CopiesTyped, NEW c \in Copies
  PROVE  /\ Bytes(c) \in BytesSet /\ Bytes(c).jid = JobOf[c]
         /\ Bytes(c).retryCount = retryCount[c] /\ Bytes(c).state = state[c]
         /\ JobOf[c] \in JIDs
BY RetrySetAssumption DEF CopiesTyped, Bytes, BytesOf, BytesSet

\* Bytes differ when the attempts do.
LEMMA BytesDiffer ==
  ASSUME NEW jid, NEW k, NEW m, NEW n, NEW st, NEW tt, BytesOf(jid, n, st) = BytesOf(k, m, tt)
  PROVE  jid = k /\ n = m /\ st = tt
BY DEF BytesOf

\* A batch is a sequence of entries.
LEMMA BatchTyped ==
  ASSUME JobsTyped
  PROVE  \A f \in Engines : \A i \in DOMAIN batch[f] :
           /\ batch[f][i] \in Entries /\ i \in Nat /\ i >= 1
           /\ batch[f][i].bytes \in BytesSet /\ batch[f][i].score \in Nat
           /\ batch[f][i].bytes.jid \in JIDs /\ batch[f][i].bytes.retryCount \in Nat
<1>1. batch \in [Engines -> Seq(Entries)]
  BY DEF JobsTyped
<1>2. \A b \in Seq(Entries) : \A i \in DOMAIN b : b[i] \in Entries /\ i \in Nat /\ i >= 1
  OBVIOUS
<1>3. \A n \in Entries : /\ n.bytes \in BytesSet /\ n.score \in Nat
                         /\ n.bytes.jid \in JIDs /\ n.bytes.retryCount \in Nat
  BY DEF Entries, BytesSet
<1>. QED  BY ONLY <1>1, <1>2, <1>3

\* What is left of a batch whose first entry is done with.
LEMMA BatchShrinks ==
  ASSUME batch \in [Engines -> Seq(Entries)], NEW e \in Engines, batch[e] # <<>>,
         batch' = [batch EXCEPT ![e] = Tail(@)]
  PROVE  /\ batch' \in [Engines -> Seq(Entries)]
         /\ \A f \in Engines : f # e => batch'[f] = batch[f]
         /\ 1 \in DOMAIN batch[e] /\ Head(batch[e]) = batch[e][1] /\ batch[e][1] \in Entries
         /\ \A i \in DOMAIN batch'[e] : i + 1 \in DOMAIN batch[e] /\ batch'[e][i] = batch[e][i + 1]
         /\ \A i \in DOMAIN batch'[e] : i \in Nat /\ i >= 1
         /\ \A k \in DOMAIN batch[e] :
              k = 1 \/ (k - 1 \in DOMAIN batch'[e] /\ batch'[e][k - 1] = batch[e][k])
<1>. DEFINE b == batch[e]
<1>1. b \in Seq(Entries) /\ b # <<>>
  OBVIOUS
<1>. HIDE DEF b
<1>2. /\ Len(b) \in Nat /\ Len(b) >= 1 /\ DOMAIN b = 1..Len(b)
      /\ Tail(b) \in Seq(Entries) /\ Len(Tail(b)) = Len(b) - 1 /\ DOMAIN Tail(b) = 1..(Len(b) - 1)
      /\ \A i \in 1..(Len(b) - 1) : Tail(b)[i] = b[i + 1]
      /\ Head(b) = b[1]
  BY <1>1
<1>3. b[1] \in Entries /\ 1 \in DOMAIN b
  BY <1>1, <1>2
<1>4. batch'[e] = Tail(b) /\ \A f \in Engines : f # e => batch'[f] = batch[f]
  BY DEF b
<1>5. batch' \in [Engines -> Seq(Entries)]
  BY <1>2 DEF b
<1>6. \A k \in DOMAIN b : k = 1 \/ (k - 1 \in DOMAIN Tail(b) /\ Tail(b)[k - 1] = b[k])
  BY <1>2
<1>7. \A i \in DOMAIN Tail(b) : i \in Nat /\ i >= 1 /\ i + 1 \in DOMAIN b /\ Tail(b)[i] = b[i + 1]
  BY <1>2
<1>. QED  BY <1>2, <1>3, <1>4, <1>5, <1>6, <1>7 DEF b

\* A batch that was read lists the copies that were picked.
LEMMA ReadIs ==
  ASSUME JobsTyped, NEW e \in Engines, NEW s \in Seq(Copies), batch' = [batch EXCEPT ![e] = Read(s)]
  PROVE  /\ batch' \in [Engines -> Seq(Entries)]
         /\ \A f \in Engines \ {e} : batch'[f] = batch[f]
         /\ DOMAIN batch'[e] = DOMAIN s
         /\ \A i \in DOMAIN s : /\ i \in Nat /\ s[i] \in Copies
                                /\ batch'[e][i].bytes = Bytes(s[i]) /\ batch'[e][i].score = score[s[i]]
<1>. DEFINE n(i) == [bytes |-> Bytes(s[i]), score |-> score[s[i]]]
<1>1. DOMAIN s = 1..Len(s) /\ Len(s) \in Nat /\ \A i \in DOMAIN s : s[i] \in Copies
  OBVIOUS
<1>2. \A i \in DOMAIN s : n(i) \in Entries
  <2>. SUFFICES ASSUME NEW i \in DOMAIN s PROVE n(i) \in Entries
    OBVIOUS
  <2>1. s[i] \in Copies
    BY <1>1
  <2>2. Bytes(s[i]) \in BytesSet /\ score[s[i]] \in Nat
    BY <2>1, BytesTyped DEF JobsTyped, CopiesTyped
  <2>. QED  BY <2>2 DEF Entries
<1>3. Read(s) = [i \in 1..Len(s) |-> n(i)]
  BY <1>1 DEF Read
<1>. HIDE DEF n
<1>4. Read(s) \in Seq(Entries)
  BY <1>1, <1>2, <1>3
<1>5. batch \in [Engines -> Seq(Entries)]
  BY DEF JobsTyped
<1>6. batch'[e] = Read(s) /\ batch' \in [Engines -> Seq(Entries)] /\ \A f \in Engines \ {e} : batch'[f] = batch[f]
  BY <1>4, <1>5
<1>7. \A i \in DOMAIN s : batch'[e][i] = n(i) /\ i \in Nat
  BY <1>1, <1>3, <1>6
<1>8. \A i \in DOMAIN s : n(i).bytes = Bytes(s[i]) /\ n(i).score = score[s[i]]
  BY DEF n
<1>. QED  BY <1>1, <1>3, <1>6, <1>7, <1>8

-----------------------------------------------------------------------------
(* Every step keeps the order, given its effect. *)

\* Whoever waits after a step waited before, or is not due yet.
LEMMA Waiters ==
  ASSUME JobsTyped, Takes \/ Adds, NEW c \in Copies, place'[c] = "retry"
  PROVE  \/ place[c] = "retry" /\ Bytes(c)' = Bytes(c) /\ score'[c] = score[c] /\ retryAt'[c] = retryAt[c]
         \/ Unix(now) <= score'[c] /\ score'[c] = Unix(retryAt'[c])
<1>1. CASE StillWaits(c)
  BY <1>1 DEF StillWaits, Bytes, BytesOf
<1>2. CASE ~StillWaits(c)
  <2>1. Adds
    BY <1>2 DEF Takes
  <2>2. PICK j \in Copies, t \in Nat :
          /\ t >= now /\ score'[j] = Unix(t) /\ retryAt'[j] = t
          /\ \A d \in Copies \ {j} : place'[d] = "retry" => StillWaits(d)
    BY <2>1 DEF Adds
  <2>3. c = j
    BY <1>2, <2>2
  <2>4. now \in Nat
    BY DEF JobsTyped
  <2>. QED  BY <2>2, <2>3, <2>4, UnixGrows
<1>. QED  BY <1>1, <1>2

\* A member stays one copy.
LEMMA MembersStay ==
  ASSUME MemberOnce, Takes \/ Adds
  PROVE  MemberOnce'
<1>. SUFFICES ASSUME NEW c \in Copies, NEW d \in Copies, place'[c] = "retry", place'[d] = "retry",
                     Bytes(c)' = Bytes(d)'
              PROVE  c = d
  BY DEF MemberOnce
<1>1. CASE StillWaits(c) /\ StillWaits(d)
  <2>1. Bytes(c)' = Bytes(c) /\ Bytes(d)' = Bytes(d) /\ place[c] = "retry" /\ place[d] = "retry"
    BY <1>1 DEF StillWaits, Bytes, BytesOf
  <2>. QED  BY <2>1 DEF MemberOnce
<1>2. CASE ~(StillWaits(c) /\ StillWaits(d))
  <2>1. Adds
    BY <1>2 DEF Takes
  <2>2. PICK j \in Copies :
          \A x \in Copies \ {j} : place'[x] = "retry" => StillWaits(x) /\ Bytes(x)' # Bytes(j)'
    BY <2>1 DEF Adds
  <2>. QED  BY <1>2, <2>2
<1>. QED  BY <1>1, <1>2

\* What OrderInv says of one engine.
OrderOf(e) ==
  /\ \A i \in DOMAIN batch[e] : batch[e][i].score <= Unix(now)
  /\ \A i, k \in DOMAIN batch[e] : i < k => batch[e][i].score <= batch[e][k].score
  /\ \A i \in DOMAIN batch[e] : \A c \in Copies :
       place[c] = "retry" /\ Own(e, Bytes(c)) =>
         \/ \E k \in DOMAIN batch[e] : k < i /\ batch[e][k].bytes = Bytes(c)
         \/ batch[e][i].score <= score[c]
  /\ last[e] <= Unix(now)
  /\ \A i \in DOMAIN batch[e] : Own(e, batch[e][i].bytes) => last[e] <= batch[e][i].score
  /\ \A c \in Copies : place[c] = "retry" /\ Own(e, Bytes(c)) => last[e] <= score[c]

LEMMA OrderSplits ==
  OrderInv <=> JobsTyped /\ TimesKept /\ MemberOnce /\ \A e \in Engines : OrderOf(e)
BY DEF OrderInv, EntriesDue, BatchSorted, Foremost, LastPassed, OrderOf

\* An engine that does nothing.
LEMMA OthersKeepOrder ==
  ASSUME JobsTyped, JobsTyped', NEW e \in Engines, OrderOf(e), now <= now', Takes \/ Adds,
         batch'[e] = batch[e], last'[e] = last[e], failed[e] \subseteq failed'[e]
  PROVE  OrderOf(e)'
<1>1. PICK b : b = batch[e]
  OBVIOUS
<1>2. PICK l : l = last[e]
  OBVIOUS
<1>3. b = batch'[e] /\ l = last'[e]
  BY <1>1, <1>2
<1>4. Unix(now) \in Nat /\ Unix(now') \in Nat /\ Unix(now) <= Unix(now')
  BY UnixGrows DEF JobsTyped
<1>5. l \in Nat /\ \A i \in DOMAIN b : i \in Nat /\ b[i].score \in Nat
  BY <1>1, <1>2, BatchTyped DEF JobsTyped
<1>6. \A c \in Copies : score[c] \in Nat /\ score'[c] \in Nat
  BY DEF JobsTyped, CopiesTyped
<1>7. \A x : Own(e, x)' => Own(e, x)
  BY DEF Own
<1>8. \A c \in Copies : place'[c] = "retry" =>
        \/ place[c] = "retry" /\ Bytes(c)' = Bytes(c) /\ score'[c] = score[c]
        \/ Unix(now) <= score'[c]
  BY Waiters
<1>9. /\ \A i \in DOMAIN b : b[i].score <= Unix(now)
      /\ \A i, k \in DOMAIN b : i < k => b[i].score <= b[k].score
      /\ \A i \in DOMAIN b : \A c \in Copies :
           place[c] = "retry" /\ Own(e, Bytes(c)) =>
             \/ \E k \in DOMAIN b : k < i /\ b[k].bytes = Bytes(c)
             \/ b[i].score <= score[c]
      /\ l <= Unix(now)
      /\ \A i \in DOMAIN b : Own(e, b[i].bytes) => l <= b[i].score
      /\ \A c \in Copies : place[c] = "retry" /\ Own(e, Bytes(c)) => l <= score[c]
  BY <1>1, <1>2 DEF OrderOf
<1>10. \A i \in DOMAIN b : b[i].score <= Unix(now)'
  BY ONLY <1>4, <1>5, <1>9
<1>11. \A i \in DOMAIN b : \A c \in Copies :
         place'[c] = "retry" /\ Own(e, Bytes(c))' =>
           \/ \E k \in DOMAIN b : k < i /\ b[k].bytes = Bytes(c)'
           \/ b[i].score <= score'[c]
  <2>. SUFFICES ASSUME NEW i \in DOMAIN b, NEW c \in Copies, place'[c] = "retry", Own(e, Bytes(c))'
                PROVE  \/ \E k \in DOMAIN b : k < i /\ b[k].bytes = Bytes(c)'
                       \/ b[i].score <= score'[c]
    OBVIOUS
  <2>1. CASE place[c] = "retry" /\ Bytes(c)' = Bytes(c) /\ score'[c] = score[c]
    <3>1. Own(e, Bytes(c))
      <4>1. PICK x : x = Bytes(c)'
        OBVIOUS
      <4>2. Own(e, x)'
        BY <4>1 DEF Own
      <4>. QED  BY <1>7, <2>1, <4>1, <4>2
    <3>. QED  BY <1>9, <2>1, <3>1
  <2>2. CASE Unix(now) <= score'[c]
    BY <1>4, <1>5, <1>6, <1>9, <2>2
  <2>. QED  BY <1>8, <2>1, <2>2
<1>12. l <= Unix(now)'
  BY ONLY <1>4, <1>5, <1>9
<1>13. \A i \in DOMAIN b : Own(e, b[i].bytes)' => l <= b[i].score
  BY <1>7, <1>9 DEF Own
<1>14. \A c \in Copies : place'[c] = "retry" /\ Own(e, Bytes(c))' => l <= score'[c]
  <2>. SUFFICES ASSUME NEW c \in Copies, place'[c] = "retry", Own(e, Bytes(c))'
                PROVE  l <= score'[c]
    OBVIOUS
  <2>1. CASE place[c] = "retry" /\ Bytes(c)' = Bytes(c) /\ score'[c] = score[c]
    <3>1. Own(e, Bytes(c))
      <4>1. PICK x : x = Bytes(c)'
        OBVIOUS
      <4>2. Own(e, x)'
        BY <4>1 DEF Own
      <4>. QED  BY <1>7, <2>1, <4>1, <4>2
    <3>. QED  BY <1>9, <2>1, <3>1
  <2>2. CASE Unix(now) <= score'[c]
    BY <1>4, <1>5, <1>6, <1>9, <2>2
  <2>. QED  BY <1>8, <2>1, <2>2
<1>. QED  BY <1>3, <1>9, <1>10, <1>11, <1>12, <1>13, <1>14 DEF OrderOf

\* The engine that is done with the first entry of its batch; what it moves now does not
\* come before what it moved last.
LEMMA PopKeepsOrder ==
  ASSUME JobsTyped, JobsTyped', NEW e \in Engines, OrderOf(e), now <= now', Takes \/ Adds, Pops(e)
  PROVE  OrderOf(e)' /\ last'[e] >= last[e]
<1>1. PICK b : b = batch[e]
  OBVIOUS
<1>2. PICK d : d = batch'[e]
  OBVIOUS
<1>3. PICK l : l = last[e]
  OBVIOUS
<1>4. PICK m : m = last'[e]
  OBVIOUS
<1>5. /\ 1 \in DOMAIN b /\ Head(b) = b[1]
      /\ \A i \in DOMAIN d : i \in Nat /\ i >= 1 /\ i + 1 \in DOMAIN b /\ d[i] = b[i + 1]
      /\ \A k \in DOMAIN b : k = 1 \/ (k - 1 \in DOMAIN d /\ d[k - 1] = b[k])
  <2>1. batch \in [Engines -> Seq(Entries)] /\ batch[e] # <<>> /\ batch' = [batch EXCEPT ![e] = Tail(@)]
    BY DEF JobsTyped, Pops
  <2>. QED  BY <1>1, <1>2, <2>1, BatchShrinks
<1>6. Unix(now) \in Nat /\ Unix(now') \in Nat /\ Unix(now) <= Unix(now')
  BY UnixGrows DEF JobsTyped
<1>7. l \in Nat /\ m \in Nat /\ \A i \in DOMAIN b : i \in Nat /\ i >= 1 /\ b[i].score \in Nat
  BY <1>1, <1>3, <1>4, BatchTyped DEF JobsTyped
<1>8. \A c \in Copies : score[c] \in Nat /\ score'[c] \in Nat
  BY DEF JobsTyped, CopiesTyped
<1>9. \A x : Own(e, x)' => Own(e, x)
  BY DEF Own, Pops
<1>10. \A c \in Copies : place'[c] = "retry" =>
         \/ place[c] = "retry" /\ Bytes(c)' = Bytes(c) /\ score'[c] = score[c]
         \/ Unix(now) <= score'[c]
  BY Waiters
<1>11. /\ \A i \in DOMAIN b : b[i].score <= Unix(now)
       /\ \A i, k \in DOMAIN b : i < k => b[i].score <= b[k].score
       /\ \A i \in DOMAIN b : \A c \in Copies :
            place[c] = "retry" /\ Own(e, Bytes(c)) =>
              \/ \E k \in DOMAIN b : k < i /\ b[k].bytes = Bytes(c)
              \/ b[i].score <= score[c]
       /\ l <= Unix(now)
       /\ \A i \in DOMAIN b : Own(e, b[i].bytes) => l <= b[i].score
       /\ \A c \in Copies : place[c] = "retry" /\ Own(e, Bytes(c)) => l <= score[c]
  BY <1>1, <1>3 DEF OrderOf
<1>12. m = l \/ (Own(e, b[1].bytes) /\ m = b[1].score)
  BY <1>1, <1>3, <1>4, <1>5 DEF Pops
<1>13. \A c \in Copies : place'[c] = "retry" /\ Own(e, Bytes(c))' => Bytes(c)' # b[1].bytes
  BY <1>1, <1>5 DEF Pops
<1>14. \A i \in DOMAIN d : d[i].score <= Unix(now)'
  BY <1>5, <1>6, <1>7, <1>11
<1>15. \A i, k \in DOMAIN d : i < k => d[i].score <= d[k].score
  <2>. SUFFICES ASSUME NEW i \in DOMAIN d, NEW k \in DOMAIN d, i < k PROVE d[i].score <= d[k].score
    OBVIOUS
  <2>1. i + 1 < k + 1 /\ i + 1 \in DOMAIN b /\ k + 1 \in DOMAIN b /\ d[i] = b[i + 1] /\ d[k] = b[k + 1]
    BY <1>5
  <2>. QED  BY <1>11, <2>1
<1>16. \A c \in Copies : place'[c] = "retry" /\ Own(e, Bytes(c))' =>
         \/ place[c] = "retry" /\ Own(e, Bytes(c)) /\ Bytes(c)' = Bytes(c) /\ score'[c] = score[c]
         \/ Unix(now) <= score'[c]
  <2>. SUFFICES ASSUME NEW c \in Copies, place'[c] = "retry", Own(e, Bytes(c))'
                PROVE  \/ place[c] = "retry" /\ Own(e, Bytes(c)) /\ Bytes(c)' = Bytes(c) /\ score'[c] = score[c]
                       \/ Unix(now) <= score'[c]
    OBVIOUS
  <2>1. PICK x : x = Bytes(c)'
    OBVIOUS
  <2>2. Own(e, x)'
    BY <2>1 DEF Own
  <2>. QED  BY <1>9, <1>10, <2>1, <2>2
<1>17. \A i \in DOMAIN d : \A c \in Copies :
         place'[c] = "retry" /\ Own(e, Bytes(c))' =>
           \/ \E k \in DOMAIN d : k < i /\ d[k].bytes = Bytes(c)'
           \/ d[i].score <= score'[c]
  <2>. SUFFICES ASSUME NEW i \in DOMAIN d, NEW c \in Copies, place'[c] = "retry", Own(e, Bytes(c))'
                PROVE  \/ \E k \in DOMAIN d : k < i /\ d[k].bytes = Bytes(c)'
                       \/ d[i].score <= score'[c]
    OBVIOUS
  <2>1. i \in Nat /\ i + 1 \in DOMAIN b /\ d[i] = b[i + 1] /\ b[i + 1].score \in Nat /\ b[i + 1].score <= Unix(now)
    BY <1>5, <1>7, <1>11
  <2>2. CASE place[c] = "retry" /\ Own(e, Bytes(c)) /\ Bytes(c)' = Bytes(c) /\ score'[c] = score[c]
    <3>1. CASE \E k \in DOMAIN b : k < i + 1 /\ b[k].bytes = Bytes(c)
      <4>1. PICK k \in DOMAIN b : k < i + 1 /\ b[k].bytes = Bytes(c)
        BY <3>1
      <4>2. k # 1
        BY <1>13, <2>2, <4>1
      <4>3. k - 1 \in DOMAIN d /\ d[k - 1] = b[k] /\ k - 1 < i
        BY <1>5, <1>7, <2>1, <4>1, <4>2
      <4>. QED  BY <2>2, <4>1, <4>3
    <3>2. CASE b[i + 1].score <= score[c]
      BY <2>1, <2>2, <3>2
    <3>. QED  BY <1>11, <2>1, <2>2, <3>1, <3>2
  <2>3. CASE Unix(now) <= score'[c]
    BY <1>6, <1>8, <2>1, <2>3
  <2>. QED  BY <1>16, <2>2, <2>3
<1>18. m <= Unix(now)
  BY <1>5, <1>11, <1>12
<1>19. m <= Unix(now)' /\ m >= l
  <2>1. m >= l
    BY <1>5, <1>7, <1>11, <1>12
  <2>. QED  BY <1>6, <1>7, <1>18, <2>1
<1>20. \A i \in DOMAIN d : Own(e, d[i].bytes)' => m <= d[i].score
  <2>. SUFFICES ASSUME NEW i \in DOMAIN d, Own(e, d[i].bytes)' PROVE m <= d[i].score
    OBVIOUS
  <2>1. i + 1 \in DOMAIN b /\ d[i] = b[i + 1] /\ 1 < i + 1
    BY <1>5
  <2>2. Own(e, b[i + 1].bytes)
    <3>1. PICK x : x = d[i].bytes
      OBVIOUS
    <3>2. Own(e, x)'
      BY <3>1, <1>2 DEF Own
    <3>. QED  BY <1>9, <2>1, <3>1, <3>2
  <2>3. l <= b[i + 1].score /\ b[1].score <= b[i + 1].score
    BY <1>5, <1>11, <2>1, <2>2
  <2>. QED  BY <1>12, <2>1, <2>3
<1>21. \A c \in Copies : place'[c] = "retry" /\ Own(e, Bytes(c))' => m <= score'[c]
  <2>. SUFFICES ASSUME NEW c \in Copies, place'[c] = "retry", Own(e, Bytes(c))' PROVE m <= score'[c]
    OBVIOUS
  <2>1. CASE place[c] = "retry" /\ Own(e, Bytes(c)) /\ Bytes(c)' = Bytes(c) /\ score'[c] = score[c]
    <3>1. l <= score[c]
      BY <1>11, <2>1
    <3>2. b[1].score <= score[c]
      BY <1>5, <1>7, <1>11, <2>1
    <3>. QED  BY <1>12, <2>1, <3>1, <3>2
  <2>2. CASE Unix(now) <= score'[c]
    BY <1>6, <1>7, <1>8, <1>18, <2>2
  <2>. QED  BY <1>16, <2>1, <2>2
<1>. QED  BY <1>2, <1>3, <1>4, <1>14, <1>15, <1>17, <1>19, <1>20, <1>21 DEF OrderOf

\* A step of this kind keeps the invariant, and no engine goes back.
LEMMA EffectOrder ==
  ASSUME OrderInv, Effect
  PROVE  OrderInv' /\ \A e \in Engines : last'[e] >= last[e]
<1>1. JobsTyped /\ TimesKept /\ MemberOnce /\ (\A e \in Engines : OrderOf(e))
  BY OrderSplits
<1>2. JobsTyped' /\ now <= now' /\ (Takes \/ Adds) /\ (SameBatches \/ \E e \in Engines : Pops(e))
  BY DEF Effect
<1>3. TimesKept'
  BY <1>1, <1>2, Waiters DEF TimesKept
<1>4. MemberOnce'
  BY <1>1, <1>2, MembersStay
<1>5. \A e \in Engines : OrderOf(e)' /\ last'[e] >= last[e]
  <2>. SUFFICES ASSUME NEW e \in Engines PROVE OrderOf(e)' /\ last'[e] >= last[e]
    OBVIOUS
  <2>1. CASE Pops(e)
    BY <1>1, <1>2, <2>1, PopKeepsOrder
  <2>2. CASE ~Pops(e)
    <3>1. batch'[e] = batch[e] /\ last'[e] = last[e] /\ failed[e] \subseteq failed'[e]
      <4>1. CASE SameBatches
        BY <4>1 DEF SameBatches
      <4>2. CASE \E f \in Engines : Pops(f)
        BY <1>1, <2>2, <4>2 DEF Pops, JobsTyped
      <4>. QED  BY <1>2, <4>1, <4>2
    <3>2. last[e] \in Nat
      BY <1>1 DEF JobsTyped
    <3>. QED  BY <1>1, <1>2, <3>1, <3>2, OthersKeepOrder
  <2>. QED  BY <2>1, <2>2
<1>6. (\A e \in Engines : OrderOf(e))'
  BY <1>5
<1>7. EntriesDue' /\ BatchSorted' /\ Foremost' /\ LastPassed'
  BY <1>6 DEF OrderOf, EntriesDue, BatchSorted, Foremost, LastPassed
<1>. QED  BY <1>2, <1>3, <1>4, <1>5, <1>7 DEF OrderInv

\* What is listed after such a step was listed before.
LEMMA ListedBefore ==
  ASSUME JobsTyped, SameBatches \/ \E e \in Engines : Pops(e)
  PROVE  \A f \in Engines : \A i \in DOMAIN batch'[f] :
           \E k \in DOMAIN batch[f] : batch'[f][i] = batch[f][k]
<1>1. CASE SameBatches
  BY <1>1 DEF SameBatches
<1>2. CASE \E e \in Engines : Pops(e)
  <2>1. PICK e \in Engines : batch[e] # <<>> /\ batch' = [batch EXCEPT ![e] = Tail(@)]
    BY <1>2 DEF Pops
  <2>2. batch \in [Engines -> Seq(Entries)]
    BY DEF JobsTyped
  <2>3. /\ \A f \in Engines : f # e => batch'[f] = batch[f]
        /\ \A i \in DOMAIN batch'[e] : i + 1 \in DOMAIN batch[e] /\ batch'[e][i] = batch[e][i + 1]
    BY <2>1, <2>2, BatchShrinks
  <2>. QED  BY <2>3
<1>. QED  BY <1>1, <1>2

\* Such a step keeps the listed bytes of a job behind those of its copy.
LEMMA EffectEarly ==
  ASSUME JobsTyped, EarlyInv, Effect
  PROVE  EarlyInv'
<1>1. JobsTyped' /\ now <= now' /\ Grows
  BY DEF Effect
<1>2. OneCopy /\ CountsBehind /\ ListedDue
  BY DEF EarlyInv
<1>3. \A f \in Engines : \A i \in DOMAIN batch'[f] : \E k \in DOMAIN batch[f] : batch'[f][i] = batch[f][k]
  BY ListedBefore DEF Effect
<1>4. Unix(now) \in Nat /\ Unix(now') \in Nat /\ Unix(now) <= Unix(now')
  BY <1>1, UnixGrows DEF JobsTyped
<1>5. \A c \in Copies : retryCount[c] \in Nat /\ retryCount'[c] \in Nat /\ score[c] \in Nat /\ score'[c] \in Nat
  BY <1>1 DEF JobsTyped, CopiesTyped
<1>6. \A c \in Copies : Live(c)' /\ JobOf[c] \notin doubled' =>
        /\ Live(c) /\ JobOf[c] \notin doubled /\ retryCount[c] <= retryCount'[c]
        /\ place'[c] = "unsent" => retryCount[c] < retryCount'[c] \/ place[c] = "unsent"
        /\ place'[c] = "retry" => \/ StillWaits(c)
                                  \/ retryCount[c] < retryCount'[c]
                                  \/ place[c] = "unsent"
                                  \/ ~Listed(BytesOf(JobOf[c], retryCount'[c], state'[c]))
  BY <1>1 DEF Grows
<1>7. OneCopy'
  BY <1>2, <1>6 DEF OneCopy
<1>8. CountsBehind'
  <2>. SUFFICES ASSUME NEW f \in Engines, NEW i \in DOMAIN batch'[f], NEW c \in Copies,
                       Live(c)', JobOf[c] = batch'[f][i].bytes.jid, JobOf[c] \notin doubled'
                PROVE  /\ batch'[f][i].bytes.retryCount <= retryCount'[c]
                       /\ place'[c] = "unsent" => batch'[f][i].bytes.retryCount < retryCount'[c]
    BY DEF CountsBehind
  <2>1. PICK k \in DOMAIN batch[f] : batch'[f][i] = batch[f][k]
    BY <1>3
  <2>2. PICK n : n = batch[f][k].bytes.retryCount
    OBVIOUS
  <2>3. n \in Nat /\ n <= retryCount[c] /\ (place[c] = "unsent" => n < retryCount[c])
    BY <1>2, <1>6, <2>1, <2>2, BatchTyped DEF CountsBehind
  <2>. QED  BY <1>5, <1>6, <2>1, <2>2, <2>3
<1>9. ListedDue'
  <2>. SUFFICES ASSUME NEW f \in Engines, NEW i \in DOMAIN batch'[f], NEW c \in Copies,
                       place'[c] = "retry", Bytes(c)' = batch'[f][i].bytes, JobOf[c] \notin doubled'
                PROVE  score'[c] <= Unix(now)'
    BY DEF ListedDue
  <2>1. PICK k \in DOMAIN batch[f] : batch'[f][i] = batch[f][k]
    BY <1>3
  <2>2. Live(c)'
    BY DEF Live
  <2>3. /\ Bytes(c)' = BytesOf(JobOf[c], retryCount'[c], state'[c])
        /\ batch[f][k].bytes = Bytes(c)'
    BY <2>1 DEF Bytes
  <2>4. batch[f][k].bytes.jid = JobOf[c] /\ batch[f][k].bytes.retryCount = retryCount'[c]
    BY <2>3 DEF BytesOf
  <2>5. /\ retryCount'[c] <= retryCount[c]
        /\ place[c] = "unsent" => retryCount'[c] < retryCount[c]
    BY <1>2, <1>6, <2>2, <2>4 DEF CountsBehind
  <2>6. Listed(BytesOf(JobOf[c], retryCount'[c], state'[c]))
    BY <2>3 DEF Listed
  <2>7. StillWaits(c)
    BY <1>5, <1>6, <2>2, <2>5, <2>6
  <2>8. Bytes(c) = batch[f][k].bytes /\ place[c] = "retry" /\ score'[c] = score[c]
    BY <2>3, <2>7 DEF StillWaits, Bytes
  <2>9. score[c] <= Unix(now)
    BY <1>2, <1>6, <2>2, <2>8 DEF ListedDue
  <2>. QED  BY <1>4, <1>5, <2>8, <2>9
<1>. QED  BY <1>7, <1>8, <1>9 DEF EarlyInv

-----------------------------------------------------------------------------
(* Reading the set. *)

\* Nothing but the batch of e has changed.
LEMMA GetKeeps ==
  ASSUME OrderInv, EarlyInv, NEW e \in Engines, GetRetryJobs(e)
  PROVE  OrderInv' /\ EarlyInv' /\ last' = last /\ InTime
<1>1. JobsTyped /\ TimesKept /\ MemberOnce /\ (\A f \in Engines : OrderOf(f))
  BY OrderSplits
<1>2. PICK s \in Picks : batch' = [batch EXCEPT ![e] = Read(s)]
  BY DEF GetRetryJobs
<1>3. UNCHANGED <<now, place, score, retryCount, state, retryAt, hand, last, failed, doubled>>
  BY DEF GetRetryJobs, jobVars, history
<1>4. /\ s \in Seq(Copies)
      /\ \A i \in DOMAIN s : s[i] \in Due
      /\ \A i, k \in DOMAIN s : i < k => score[s[i]] <= score[s[k]]
      /\ \A i \in DOMAIN s : \A c \in Due \ {s[k] : k \in DOMAIN s} : score[s[i]] <= score[c]
  BY <1>1, PicksAre
<1>5. /\ batch' \in [Engines -> Seq(Entries)]
      /\ \A f \in Engines \ {e} : batch'[f] = batch[f]
      /\ DOMAIN batch'[e] = DOMAIN s
      /\ \A i \in DOMAIN s : /\ i \in Nat /\ s[i] \in Copies
                             /\ batch'[e][i].bytes = Bytes(s[i]) /\ batch'[e][i].score = score[s[i]]
  BY <1>1, <1>2, <1>4, ReadIs
<1>6. JobsTyped'
  BY <1>1, <1>3, <1>5 DEF JobsTyped, CopiesTyped
<1>7. \A c \in Copies : Bytes(c)' = Bytes(c)
  BY <1>3 DEF Bytes, BytesOf
<1>8. /\ \A c \in Due : place[c] = "retry" /\ score[c] <= Unix(now) /\ c \in Copies
      /\ \A c \in Copies \ Due : place[c] = "retry" => ~(score[c] <= Unix(now))
  BY DEF Due
<1>9. Unix(now) \in Nat /\ \A c \in Copies : score[c] \in Nat
  BY <1>1, UnixGrows DEF JobsTyped, CopiesTyped
<1>10. \A c, d \in Copies : place[c] = "retry" /\ place[d] = "retry" /\ Bytes(c) = Bytes(d) => c = d
  BY <1>1 DEF MemberOnce
<1>11. \A i \in DOMAIN s : \A c \in Copies : place[c] = "retry" =>
         \/ \E k \in DOMAIN s : k < i /\ s[k] = c
         \/ score[s[i]] <= score[c]
  <2>. SUFFICES ASSUME NEW i \in DOMAIN s, NEW c \in Copies, place[c] = "retry"
                PROVE  (\E k \in DOMAIN s : k < i /\ s[k] = c) \/ score[s[i]] <= score[c]
    OBVIOUS
  <2>1. CASE c \in {s[k] : k \in DOMAIN s}
    <3>1. PICK k \in DOMAIN s : c = s[k]
      BY <2>1
    <3>2. i \in Nat /\ k \in Nat
      BY <1>5
    <3>3. k < i \/ k = i \/ i < k
      BY <3>2
    <3>4. score[s[i]] <= score[s[k]] \/ k < i
      BY <1>4, <1>5, <1>9, <3>1, <3>3
    <3>. QED  BY <3>1, <3>4
  <2>2. CASE c \notin {s[k] : k \in DOMAIN s} /\ c \in Due
    BY <1>4, <2>2
  <2>3. CASE c \notin Due
    BY <1>4, <1>5, <1>8, <1>9, <2>3
  <2>. QED  BY <2>1, <2>2, <2>3
<1>12. \A f \in Engines : OrderOf(f)'
  <2>. SUFFICES ASSUME NEW f \in Engines PROVE OrderOf(f)'
    OBVIOUS
  <2>1. \A x : Own(f, x)' <=> Own(f, x)
    BY <1>3 DEF Own
  <2>2. \A c \in Copies : Own(f, Bytes(c))' <=> Own(f, Bytes(c))
    <3>. TAKE c \in Copies
    <3>1. PICK x : x = Bytes(c)
      OBVIOUS
    <3>2. x = Bytes(c)'
      BY <1>7, <3>1
    <3>. QED  BY <2>1, <3>1, <3>2
  <2>3. OrderOf(f)
    BY <1>1
  <2>4. CASE f # e
    <3>1. batch'[f] = batch[f]
      BY <1>5, <2>4
    <3>2. PICK b : b = batch[f]
      OBVIOUS
    <3>3. b = batch'[f]
      BY <3>1, <3>2
    <3>4. \A i \in DOMAIN b : Own(f, b[i].bytes)' <=> Own(f, b[i].bytes)
      BY <2>1 DEF Own
    <3>. QED  BY <1>3, <1>7, <2>2, <2>3, <3>2, <3>3, <3>4 DEF OrderOf
  <2>5. CASE f = e
    <3>. PICK b : b = batch'[f]
      OBVIOUS
    <3>1. /\ DOMAIN b = DOMAIN s
          /\ \A i \in DOMAIN s : /\ i \in Nat /\ s[i] \in Copies /\ place[s[i]] = "retry"
                                 /\ b[i].bytes = Bytes(s[i]) /\ b[i].score = score[s[i]]
      BY <1>4, <1>5, <1>8, <2>5
    <3>2. \A i \in DOMAIN b : b[i].score <= Unix(now)
      BY <1>4, <1>8, <3>1
    <3>3. \A i, k \in DOMAIN b : i < k => b[i].score <= b[k].score
      BY <1>4, <3>1
    <3>4. \A i \in DOMAIN b : \A c \in Copies :
            place[c] = "retry" /\ Own(f, Bytes(c)) =>
              \/ \E k \in DOMAIN b : k < i /\ b[k].bytes = Bytes(c)
              \/ b[i].score <= score[c]
      BY <1>11, <3>1
    <3>5. \A i \in DOMAIN b : Own(f, b[i].bytes)' => last[f] <= b[i].score
      BY <2>1, <2>3, <3>1 DEF OrderOf, Own
    <3>. QED  BY <1>3, <1>7, <2>2, <2>3, <3>2, <3>3, <3>4, <3>5 DEF OrderOf
  <2>. QED  BY <2>4, <2>5
<1>13. TimesKept' /\ MemberOnce'
  BY <1>1, <1>3, <1>7 DEF TimesKept, MemberOnce
<1>14. (\A f \in Engines : OrderOf(f))'
  BY <1>12
<1>15. OrderInv'
  BY <1>6, <1>13, <1>14
     DEF OrderInv, OrderOf, EntriesDue, BatchSorted, Foremost, LastPassed
<1>16. OneCopy' /\ (\A c \in Copies : Live(c)' <=> Live(c))
  BY <1>3 DEF EarlyInv, OneCopy, Live
<1>17. CountsBehind'
  <2>. SUFFICES ASSUME NEW f \in Engines, NEW i \in DOMAIN batch'[f], NEW c \in Copies,
                       Live(c), JobOf[c] = batch'[f][i].bytes.jid, JobOf[c] \notin doubled
                PROVE  /\ batch'[f][i].bytes.retryCount <= retryCount[c]
                       /\ place[c] = "unsent" => batch'[f][i].bytes.retryCount < retryCount[c]
    BY <1>3, <1>16 DEF CountsBehind
  <2>1. CASE f # e
    <3>1. batch'[f] = batch[f]
      BY <1>5, <2>1
    <3>. QED  BY <3>1 DEF EarlyInv, CountsBehind
  <2>2. CASE f = e
    <3>1. s[i] \in Copies /\ place[s[i]] = "retry" /\ batch'[f][i].bytes = Bytes(s[i])
      BY <1>4, <1>5, <1>8, <2>2
    <3>2. batch'[f][i].bytes.jid = JobOf[s[i]] /\ batch'[f][i].bytes.retryCount = retryCount[s[i]]
      BY <1>1, <3>1, BytesTyped DEF JobsTyped
    <3>3. c = s[i]
      BY <3>1, <3>2 DEF EarlyInv, OneCopy, Live
    <3>. QED  BY <1>1, <3>1, <3>2, <3>3 DEF JobsTyped, CopiesTyped
  <2>. QED  BY <2>1, <2>2
<1>18. ListedDue'
  <2>. SUFFICES ASSUME NEW f \in Engines, NEW i \in DOMAIN batch'[f], NEW c \in Copies,
                       place[c] = "retry", Bytes(c) = batch'[f][i].bytes, JobOf[c] \notin doubled
                PROVE  score[c] <= Unix(now)
    BY <1>3, <1>7 DEF ListedDue
  <2>1. CASE f # e
    <3>1. batch'[f] = batch[f]
      BY <1>5, <2>1
    <3>. QED  BY <3>1 DEF EarlyInv, ListedDue
  <2>2. CASE f = e
    <3>1. s[i] \in Due /\ s[i] \in Copies /\ batch'[f][i].bytes = Bytes(s[i])
      BY <1>4, <1>5, <1>8, <2>2
    <3>. QED  BY <1>8, <1>10, <3>1
  <2>. QED  BY <2>1, <2>2
<1>. QED  BY <1>3, <1>15, <1>16, <1>17, <1>18 DEF EarlyInv, InTime

-----------------------------------------------------------------------------
(* The steps have such effects. *)

\* Some copies leave, and the others that live are left alone.
LEMMA OnlyLeave ==
  ASSUME CopiesTyped, doubled \subseteq doubled',
         \A c \in Copies : Live(c)' => Keeps(c) \/ Leaves(c)
  PROVE  Takes /\ Grows
<1>1. \A c \in Copies : retryCount[c] \in Nat
  BY DEF CopiesTyped
<1>2. Takes
  BY DEF Takes, StillWaits, Keeps, Leaves, Live
<1>3. Grows
  <2>. SUFFICES ASSUME NEW c \in Copies, Live(c)', JobOf[c] \notin doubled'
                PROVE  /\ Live(c) /\ retryCount[c] <= retryCount'[c]
                       /\ place'[c] = "unsent" => retryCount[c] < retryCount'[c] \/ place[c] = "unsent"
                       /\ place'[c] = "retry" => StillWaits(c)
    BY DEF Grows
  <2>1. CASE Keeps(c)
    BY <1>1, <2>1 DEF Keeps, StillWaits, Live
  <2>2. CASE Leaves(c)
    BY <2>2 DEF Leaves
  <2>. QED  BY <2>1, <2>2
<1>. QED  BY <1>2, <1>3

\* A live copy is stored in the set.
LEMMA StoreAdds ==
  ASSUME JobsTyped, NEW c \in Copies, Live(c), NEW count \in Nat, NEW st \in StoredStates,
         NEW time \in Nat, time >= now, AddToRetry(c, count, st, time), doubled \subseteq doubled',
         retryCount[c] <= count,
         \/ retryCount[c] < count \/ place[c] = "unsent" \/ JobOf[c] \in doubled'
         \/ ~Listed(BytesOf(JobOf[c], count, st))
  PROVE  /\ Adds /\ Grows /\ CopiesTyped'
         /\ \A d \in Copies : place[d] = "retry" => place'[d] # "moving"
<1>. DEFINE b == BytesOf(JobOf[c], count, st)
<1>1. CopiesTyped /\ Unix(time) \in Nat
  BY UnixGrows DEF JobsTyped
<1>2. /\ place'[c] = "retry" /\ retryCount'[c] = count /\ state'[c] = st
      /\ score'[c] = Unix(time) /\ retryAt'[c] = time
  BY <1>1 DEF AddToRetry, Move, CopiesTyped
<1>3. \A d \in Copies \ {c} : /\ place'[d] = IF d \in Member(b) THEN "gone" ELSE place[d]
                              /\ retryCount'[d] = retryCount[d] /\ state'[d] = state[d]
                              /\ score'[d] = score[d] /\ retryAt'[d] = retryAt[d]
  BY <1>1 DEF AddToRetry, Move, CopiesTyped
<1>4. CopiesTyped'
  <2>1. place' \in [Copies -> Places]
    BY <1>1 DEF AddToRetry, Move, CopiesTyped, Places
  <2>2. /\ score' \in [Copies -> Nat] /\ retryAt' \in [Copies -> Nat] /\ retryCount' \in [Copies -> Nat]
        /\ state' \in [Copies -> StoredStates]
    BY <1>1 DEF AddToRetry, CopiesTyped
  <2>. QED  BY <2>1, <2>2 DEF CopiesTyped
<1>5. Bytes(c)' = b
  BY <1>2 DEF Bytes
<1>. HIDE DEF b
<1>6. \A d \in Copies \ {c} : place'[d] = "retry" => StillWaits(d) /\ Bytes(d)' # b
  <2>. SUFFICES ASSUME NEW d \in Copies \ {c}, place'[d] = "retry" PROVE StillWaits(d) /\ Bytes(d)' # b
    OBVIOUS
  <2>1. d \notin Member(b) /\ place[d] = "retry" /\ StillWaits(d)
    BY <1>3 DEF StillWaits
  <2>2. Bytes(d)' = Bytes(d)
    BY <2>1 DEF StillWaits, Bytes, BytesOf
  <2>. QED  BY <2>1, <2>2 DEF Member
<1>7. Adds
  BY <1>2, <1>5, <1>6 DEF Adds
<1>8. Grows
  <2>. SUFFICES ASSUME NEW d \in Copies, Live(d)', JobOf[d] \notin doubled'
                PROVE  /\ Live(d) /\ retryCount[d] <= retryCount'[d]
                       /\ place'[d] = "unsent" => retryCount[d] < retryCount'[d] \/ place[d] = "unsent"
                       /\ place'[d] = "retry" => \/ StillWaits(d)
                                                 \/ retryCount[d] < retryCount'[d]
                                                 \/ place[d] = "unsent"
                                                 \/ ~Listed(BytesOf(JobOf[d], retryCount'[d], state'[d]))
    BY DEF Grows
  <2>1. CASE d = c
    BY <1>2, <2>1
  <2>2. CASE d # c
    <3>1. place'[d] = place[d] /\ retryCount'[d] = retryCount[d] /\ retryCount[d] \in Nat
      BY <1>1, <1>3, <2>2 DEF Live, CopiesTyped
    <3>. QED  BY <1>6, <2>2, <3>1 DEF Live
  <2>. QED  BY <2>1, <2>2
<1>9. \A d \in Copies : place[d] = "retry" => place'[d] # "moving"
  BY <1>2, <1>3
<1>. QED  BY <1>4, <1>7, <1>8, <1>9

\* A live copy joins the dead letter queue.
LEMMA DyingTakes ==
  ASSUME JobsTyped, NEW c \in Copies, NEW count \in Nat, AddToDead(c, count), doubled' = doubled
  PROVE  /\ Takes /\ Grows /\ CopiesTyped'
         /\ \A d \in Copies : place[d] = "retry" => place'[d] # "moving"
<1>1. CopiesTyped
  BY DEF JobsTyped
<1>2. CopiesTyped'
  BY <1>1 DEF AddToDead, Move, CopiesTyped, Places
<1>3. place'[c] = "dead"
  BY <1>1 DEF AddToDead, Move, CopiesTyped
<1>4. \A d \in Copies \ {c} :
        /\ place'[d] = IF place[d] = "dead" /\ JobOf[d] = JobOf[c] THEN "gone" ELSE place[d]
        /\ retryCount'[d] = retryCount[d] /\ state'[d] = state[d]
        /\ score'[d] = score[d] /\ retryAt'[d] = retryAt[d]
  BY <1>1 DEF AddToDead, Move, CopiesTyped
<1>5. \A d \in Copies : Live(d)' => Keeps(d)
  BY <1>3, <1>4 DEF Live, Keeps
<1>6. \A d \in Copies : place[d] = "retry" => place'[d] # "moving"
  BY <1>3, <1>4
<1>. QED  BY <1>1, <1>2, <1>5, <1>6, OnlyLeave

\* A copy goes elsewhere, its values as they are but perhaps the count.
LEMMA GoingTakes ==
  ASSUME JobsTyped, NEW c \in Copies, NEW to \in Places \ {"retry", "moving"}, MoveTo(c, to),
         NEW count \in Nat, retryCount' = [retryCount EXCEPT ![c] = count],
         UNCHANGED <<score, state, retryAt, doubled>>,
         \/ to \in {"gone", "dead"}
         \/ Live(c) /\ retryCount[c] <= count /\ (to = "unsent" => retryCount[c] < count)
  PROVE  /\ Takes /\ Grows /\ CopiesTyped'
         /\ \A d \in Copies : place[d] = "retry" => place'[d] # "moving"
<1>1. CopiesTyped
  BY DEF JobsTyped
<1>2. place' = [place EXCEPT ![c] = to]
  BY DEF MoveTo, Move
<1>3. CopiesTyped'
  BY <1>1, <1>2 DEF CopiesTyped
<1>4. place'[c] = to /\ retryCount'[c] = count
  BY <1>1, <1>2 DEF CopiesTyped
<1>5. \A d \in Copies \ {c} : Keeps(d)
  BY <1>1, <1>2 DEF CopiesTyped, Keeps
<1>6. Live(c)' => Leaves(c)
  BY <1>4 DEF Live, Leaves
<1>7. \A d \in Copies : place[d] = "retry" => place'[d] # "moving"
  BY <1>4, <1>5 DEF Keeps
<1>. QED  BY <1>1, <1>3, <1>5, <1>6, <1>7, OnlyLeave

\* Only the set's values of a step matter here.
LEMMA QuietEffect ==
  ASSUME JobsTyped, CopiesTyped', now' \in Nat, now <= now', Takes \/ Adds, Grows, doubled' \in SUBSET JIDs,
         hand' \in [Engines -> Copies \cup {NoCopy}], UNCHANGED <<batch, last, failed>>,
         \A d \in Copies : place[d] = "retry" => place'[d] # "moving"
  PROVE  Effect /\ InTime
BY DEF JobsTyped, Effect, InTime, SameBatches

\* A step that leaves all copies alone.
LEMMA NothingMoves ==
  ASSUME JobsTyped, UNCHANGED <<jobVars, doubled>>
  PROVE  /\ Takes /\ Grows /\ CopiesTyped'
         /\ \A d \in Copies : place[d] = "retry" => place'[d] # "moving"
<1>1. CopiesTyped /\ CopiesTyped'
  BY DEF JobsTyped, CopiesTyped, jobVars
<1>2. \A c \in Copies : Keeps(c)
  BY DEF Keeps, jobVars
<1>. QED  BY <1>1, <1>2, OnlyLeave DEF Keeps

\* A worker's step.
LEMMA WorkerEffect ==
  ASSUME JobsTyped, NEW c \in Copies, Begins(c) \/ Ends(c) \/ Fails(c) \/ MeetsOpenCircuit(c)
  PROVE  Effect /\ InTime
<1>1. CopiesTyped /\ now \in Nat /\ retryCount[c] \in Nat /\ doubled \in SUBSET JIDs /\ JobOf[c] \in JIDs
  BY RetrySetAssumption DEF JobsTyped, CopiesTyped
<1>2. hand \in [Engines -> Copies \cup {NoCopy}]
  BY DEF JobsTyped
<1>3. CASE Begins(c)
  <2>1. /\ MoveTo(c, "active") /\ Live(c) /\ "active" \in Places \ {"retry", "moving"}
        /\ UNCHANGED <<now, score, retryCount, state, retryAt, batch, hand, last, failed, doubled>>
    BY <1>3 DEF Begins, history, Live, Places
  <2>2. PICK n \in Nat : n = retryCount[c]
    BY <1>1
  <2>3. retryCount' = [retryCount EXCEPT ![c] = n] /\ retryCount[c] <= n /\ "active" # "unsent"
    BY <1>1, <2>1, <2>2 DEF CopiesTyped
  <2>4. /\ Takes /\ Grows /\ CopiesTyped'
        /\ \A d \in Copies : place[d] = "retry" => place'[d] # "moving"
    BY <2>1, <2>2, <2>3, GoingTakes
  <2>. QED  BY <1>1, <1>2, <2>1, <2>4, QuietEffect
<1>4. CASE Ends(c)
  <2>1. /\ MoveTo(c, "gone") /\ "gone" \in Places \ {"retry", "moving"}
        /\ retryCount' = [retryCount EXCEPT ![c] = 0]
        /\ UNCHANGED <<now, score, state, retryAt, batch, hand, last, failed, doubled>>
    BY <1>4 DEF Ends, history, Places
  <2>2. /\ Takes /\ Grows /\ CopiesTyped'
        /\ \A d \in Copies : place[d] = "retry" => place'[d] # "moving"
    BY <1>1, <2>1, GoingTakes
  <2>. QED  BY <1>1, <1>2, <2>1, <2>2, QuietEffect
<1>5. CASE Fails(c)
  <2>. DEFINE count == retryCount[c] + 1
  <2>1. /\ Live(c) /\ UNCHANGED <<now, batch, hand, last, failed, doubled>>
        /\ count \in Nat /\ retryCount[c] < count /\ retryCount[c] <= count
    BY <1>1, <1>5 DEF Fails, history, Live
  <2>2. CASE count <= Retry
    <3>1. PICK t : t = now + 2 * Backoff[count]
      OBVIOUS
    <3>2. AddToRetry(c, count, "failed", t)
      BY <1>5, <2>2, <3>1 DEF Fails
    <3>3. Backoff[count] \in Nat
      BY <1>1, <2>1, <2>2, RetrySetAssumption
    <3>4. t \in Nat /\ t >= now
      BY ONLY <1>1, <3>1, <3>3
    <3>5. "failed" \in StoredStates
      BY DEF StoredStates
    <3>. HIDE DEF count
    <3>6. /\ Adds /\ Grows /\ CopiesTyped'
          /\ \A d \in Copies : place[d] = "retry" => place'[d] # "moving"
      BY <2>1, <3>2, <3>4, <3>5, StoreAdds
    <3>. QED  BY <1>1, <1>2, <2>1, <3>6, QuietEffect
  <2>3. CASE ~(count <= Retry)
    <3>1. AddToDead(c, count)
      BY <1>5, <2>3 DEF Fails
    <3>. HIDE DEF count
    <3>2. /\ Takes /\ Grows /\ CopiesTyped'
          /\ \A d \in Copies : place[d] = "retry" => place'[d] # "moving"
      BY <2>1, <3>1, DyingTakes
    <3>. QED  BY <1>1, <1>2, <2>1, <3>2, QuietEffect
  <2>. QED  BY <2>2, <2>3
<1>6. CASE MeetsOpenCircuit(c)
  <2>1. PICK t : t = now + 2 * OpenPause
    OBVIOUS
  <2>2. /\ AddToRetry(c, retryCount[c], "pending", t) /\ Live(c)
        /\ doubled' = IF Listed(BytesOf(JobOf[c], retryCount[c], "pending"))
                      THEN doubled \cup {JobOf[c]} ELSE doubled
        /\ UNCHANGED <<now, batch, hand, last, failed>>
    BY <1>6, <2>1 DEF MeetsOpenCircuit, Live
  <2>3. t \in Nat /\ t >= now
    BY <1>1, <2>1, RetrySetAssumption
  <2>4. "pending" \in StoredStates
    BY DEF StoredStates
  <2>5. doubled \subseteq doubled' /\ doubled' \in SUBSET JIDs
    BY <1>1, <2>2
  <2>6. JobOf[c] \in doubled' \/ ~Listed(BytesOf(JobOf[c], retryCount[c], "pending"))
    BY <2>2
  <2>7. /\ Adds /\ Grows /\ CopiesTyped'
        /\ \A d \in Copies : place[d] = "retry" => place'[d] # "moving"
    BY <1>1, <2>2, <2>3, <2>4, <2>5, <2>6, StoreAdds
  <2>. QED  BY <1>1, <1>2, <2>2, <2>5, <2>7, QuietEffect
<1>. QED  BY <1>3, <1>4, <1>5, <1>6

\* A step of a retry loop with the copy in its hands.
LEMMA HandEffect ==
  ASSUME JobsTyped, NEW e \in Engines, RetryEnqueues(e) \/ RetryEnqueueFails(e) \/ RetryFallsBack(e)
  PROVE  Effect /\ InTime
<1>. PICK c : c = hand[e]
  OBVIOUS
<1>1. CopiesTyped /\ now \in Nat /\ doubled \in SUBSET JIDs /\ hand \in [Engines -> Copies \cup {NoCopy}]
  BY DEF JobsTyped
<1>2. c \in Copies
  BY <1>1 DEF RetryEnqueues, RetryEnqueueFails, RetryFallsBack
<1>3. retryCount[c] \in Nat /\ JobOf[c] \in JIDs
  BY <1>1, <1>2, RetrySetAssumption DEF CopiesTyped
<1>4. CASE RetryEnqueues(e)
  <2>1. /\ MoveTo(c, "queue") /\ Live(c) /\ "queue" \in Places \ {"retry", "moving"}
        /\ hand' = [hand EXCEPT ![e] = NoCopy]
        /\ UNCHANGED <<now, score, retryCount, state, retryAt, batch, last, failed, doubled>>
    BY <1>4 DEF RetryEnqueues, history, Live, Places
  <2>2. PICK n \in Nat : n = retryCount[c]
    BY <1>3
  <2>3. retryCount' = [retryCount EXCEPT ![c] = n] /\ retryCount[c] <= n /\ "queue" # "unsent"
    BY <1>1, <2>1, <2>2 DEF CopiesTyped
  <2>4. /\ Takes /\ Grows /\ CopiesTyped'
        /\ \A d \in Copies : place[d] = "retry" => place'[d] # "moving"
    BY <1>2, <2>1, <2>2, <2>3, GoingTakes
  <2>. QED  BY <1>1, <2>1, <2>4, QuietEffect
<1>5. CASE RetryEnqueueFails(e)
  <2>1. /\ Live(c) /\ retryCount' = [retryCount EXCEPT ![c] = retryCount[c] + 1]
        /\ UNCHANGED <<now, score, state, retryAt, batch, hand, last, failed>>
    BY <1>1, <1>2, <1>5 DEF RetryEnqueueFails, Live, CopiesTyped
  <2>2. CASE MoveTo(c, "unsent") /\ UNCHANGED doubled
    <3>1. PICK n \in Nat : n = retryCount[c] + 1
      BY <1>3
    <3>2. "unsent" \in Places \ {"retry", "moving"} /\ retryCount[c] <= n /\ retryCount[c] < n
      BY <1>3, <3>1 DEF Places
    <3>3. /\ Takes /\ Grows /\ CopiesTyped'
          /\ \A d \in Copies : place[d] = "retry" => place'[d] # "moving"
      BY <1>2, <2>1, <2>2, <3>1, <3>2, GoingTakes
    <3>. QED  BY <1>1, <2>1, <2>2, <3>3, QuietEffect
  <2>3. ASSUME NEW d \in Copies, place[d] = "gone", JobOf[d] = JobOf[c],
               place' = [place EXCEPT ![c] = "unsent", ![d] = "queue"],
               doubled' = doubled \cup {JobOf[c]}
        PROVE  Effect /\ InTime
    <3>1. CopiesTyped'
      <4>1. place' \in [Copies -> Places]
        BY <1>1, <1>2, <2>3 DEF CopiesTyped, Places
      <4>2. retryCount' \in [Copies -> Nat]
        BY <1>1, <1>2, <1>3, <2>1 DEF CopiesTyped
      <4>. QED  BY <1>1, <2>1, <4>1, <4>2 DEF CopiesTyped
    <3>2. /\ \A x \in Copies \ {c, d} : Keeps(x)
          /\ place'[c] # "retry" /\ place'[d] # "retry" /\ place'[c] # "moving" /\ place'[d] # "moving"
      BY <1>1, <1>2, <2>1, <2>3 DEF CopiesTyped, Keeps
    <3>3. Leaves(c) /\ Leaves(d)
      BY <2>3, <3>2 DEF Leaves
    <3>4. doubled \subseteq doubled' /\ doubled' \in SUBSET JIDs
      BY <1>1, <1>3, <2>3
    <3>5. Takes /\ Grows
      BY <1>1, <3>2, <3>3, <3>4, OnlyLeave
    <3>6. \A x \in Copies : place[x] = "retry" => place'[x] # "moving"
      BY <3>2 DEF Keeps
    <3>. QED  BY <1>1, <2>1, <3>1, <3>4, <3>5, <3>6, QuietEffect
  <2>4. \/ MoveTo(c, "unsent") /\ UNCHANGED doubled
        \/ \E d \in Copies : /\ place[d] = "gone" /\ JobOf[d] = JobOf[c]
                             /\ place' = [place EXCEPT ![c] = "unsent", ![d] = "queue"]
                             /\ doubled' = doubled \cup {JobOf[c]}
    BY <1>5 DEF RetryEnqueueFails, Move
  <2>. QED  BY <2>2, <2>3, <2>4
<1>6. CASE RetryFallsBack(e)
  <2>1. /\ place[c] = "unsent" /\ Live(c) /\ hand' = [hand EXCEPT ![e] = NoCopy]
        /\ UNCHANGED <<now, batch, last, failed, doubled>>
    BY <1>6 DEF RetryFallsBack, history, Live
  <2>2. CASE AddToDead(c, retryCount[c])
    <3>1. /\ Takes /\ Grows /\ CopiesTyped'
          /\ \A d \in Copies : place[d] = "retry" => place'[d] # "moving"
      BY <1>2, <1>3, <2>1, <2>2, DyingTakes
    <3>. QED  BY <1>1, <2>1, <3>1, QuietEffect
  <2>3. CASE AddToRetry(c, retryCount[c], "pending", now + 2 * Pause)
    <3>1. PICK t : t = now + 2 * Pause
      OBVIOUS
    <3>2. t \in Nat /\ t >= now
      BY <1>1, <3>1, RetrySetAssumption
    <3>3. "pending" \in StoredStates
      BY DEF StoredStates
    <3>4. /\ Adds /\ Grows /\ CopiesTyped'
          /\ \A d \in Copies : place[d] = "retry" => place'[d] # "moving"
      BY <1>2, <1>3, <2>1, <2>3, <3>1, <3>2, <3>3, StoreAdds
    <3>. QED  BY <1>1, <2>1, <3>4, QuietEffect
  <2>4. CASE MoveTo(c, "gone") /\ UNCHANGED <<score, retryCount, state, retryAt>>
    <3>1. retryCount' = [retryCount EXCEPT ![c] = retryCount[c]] /\ "gone" \in Places \ {"retry", "moving"}
      BY <1>1, <2>4 DEF CopiesTyped, Places
    <3>2. /\ Takes /\ Grows /\ CopiesTyped'
          /\ \A d \in Copies : place[d] = "retry" => place'[d] # "moving"
      BY <1>2, <1>3, <2>1, <2>4, <3>1, GoingTakes
    <3>. QED  BY <1>1, <2>1, <3>2, QuietEffect
  <2>. QED  BY <1>6, <2>2, <2>3, <2>4 DEF RetryFallsBack
<1>. QED  BY <1>4, <1>5, <1>6

\* A step of a retry loop with the first entry of its batch: it is not its own, or could
\* not be removed, or it has been removed.
LEMMA BatchEffect ==
  ASSUME OrderInv, EarlyInv, NEW e \in Engines, RetrySkips(e) \/ RetryRemoves(e) \/ RetryRemoveFails(e)
  PROVE  Effect /\ InTime
<1>. PICK b : b = Head(batch[e]).bytes
  OBVIOUS
<1>1. /\ JobsTyped /\ CopiesTyped /\ TimesKept /\ MemberOnce /\ now \in Nat /\ doubled \in SUBSET JIDs
      /\ hand \in [Engines -> Copies \cup {NoCopy}] /\ batch \in [Engines -> Seq(Entries)]
      /\ last \in [Engines -> Nat] /\ failed \in [Engines -> SUBSET BytesSet]
  BY DEF OrderInv, JobsTyped
<1>2. /\ batch[e] # <<>> /\ batch' = [batch EXCEPT ![e] = Tail(@)] /\ now' = now
  BY DEF RetrySkips, RetryRemoves, RetryRemoveFails, AtJob
<1>3. /\ batch' \in [Engines -> Seq(Entries)] /\ 1 \in DOMAIN batch[e] /\ Head(batch[e]) = batch[e][1]
  BY <1>1, <1>2, BatchShrinks
<1>4. b \in BytesSet /\ b.retryCount \in Nat /\ b.jid \in JIDs /\ Head(batch[e]).score \in Nat
  BY <1>1, <1>3, BatchTyped DEF BytesSet
<1>5. CASE RetrySkips(e)
  <2>1. /\ QueueOf[b.jid] \notin Serves[e]
        /\ UNCHANGED <<place, score, retryCount, state, retryAt, hand, last, failed, doubled>>
    BY <1>5 DEF RetrySkips, AtJob, jobVars, history
  <2>2. /\ Takes /\ Grows /\ CopiesTyped'
        /\ \A d \in Copies : place[d] = "retry" => place'[d] # "moving"
    BY <1>1, <2>1, NothingMoves DEF jobVars
  <2>3. \A c \in Copies : Bytes(c)' = b => ~Own(e, Bytes(c))'
    BY <2>1 DEF Own
  <2>4. Pops(e)
    BY <1>2, <2>1, <2>3 DEF Pops
  <2>5. JobsTyped'
    BY <1>1, <1>2, <1>3, <2>1, <2>2 DEF JobsTyped
  <2>. QED  BY <1>1, <1>2, <2>2, <2>4, <2>5 DEF Effect, InTime
<1>6. CASE RetryRemoveFails(e)
  <2>1. /\ UNCHANGED <<score, retryCount, state, retryAt, hand, last, doubled>>
        /\ failed' = [failed EXCEPT ![e] = @ \cup {b}]
        /\ place' = place \/ place' = [c \in Copies |-> IF c \in Member(b) THEN "gone" ELSE place[c]]
    BY <1>6 DEF RetryRemoveFails, Move
  <2>2. CopiesTyped'
    BY <1>1, <2>1 DEF CopiesTyped, Places
  <2>3. \A c \in Copies : place'[c] = place[c] \/ place'[c] = "gone"
    BY <2>1
  <2>4. \A c \in Copies : Live(c)' => Keeps(c)
    BY <2>1, <2>3 DEF Live, Keeps
  <2>5. Takes /\ Grows
    BY <1>1, <2>1, <2>4, OnlyLeave
  <2>6. b \in failed'[e] /\ (\A f \in Engines : failed[f] \subseteq failed'[f])
        /\ failed' \in [Engines -> SUBSET BytesSet]
    BY <1>1, <1>4, <2>1
  <2>7. \A c \in Copies : Bytes(c)' = b => ~Own(e, Bytes(c))'
    BY <2>6 DEF Own
  <2>8. Pops(e)
    BY <1>2, <2>1, <2>6, <2>7 DEF Pops
  <2>9. JobsTyped'
    BY <1>1, <1>2, <1>3, <2>1, <2>2, <2>6 DEF JobsTyped
  <2>10. InTime
    BY <2>3 DEF InTime
  <2>11. now <= now'
    BY <1>1, <1>2
  <2>. QED  BY <2>5, <2>8, <2>9, <2>10, <2>11 DEF Effect
<1>7. CASE RetryRemoves(e)
  <2>. DEFINE spare == {c \in Copies : place[c] = "gone" /\ JobOf[c] = b.jid}
  <2>1. /\ QueueOf[b.jid] \in Serves[e] /\ failed' = failed
        /\ last' = IF b \in failed[e] THEN last ELSE [last EXCEPT ![e] = Head(batch[e]).score]
        /\ doubled' = IF Member(b) # {} THEN doubled ELSE doubled \cup {b.jid}
    BY <1>7 DEF RetryRemoves, AtJob
  <2>2. doubled \subseteq doubled' /\ doubled' \in SUBSET JIDs /\ last' \in [Engines -> Nat]
    BY <1>1, <1>4, <2>1
  <2>3. /\ Takes /\ Grows /\ CopiesTyped' /\ hand' \in [Engines -> Copies \cup {NoCopy}]
        /\ \A c \in Copies : place'[c] = "retry" => place[c] = "retry" /\ c \notin Member(b)
        /\ \A c \in Copies : place[c] = "retry" /\ place'[c] = "moving" => c \in Member(b)
    <3>1. CASE Member(b) = {} /\ UNCHANGED <<jobVars, hand, stats>>
      <4>1. /\ CopiesTyped' /\ \A c \in Copies : Keeps(c)
        BY <1>1, <3>1 DEF jobVars, CopiesTyped, Keeps
      <4>. QED  BY <1>1, <2>2, <3>1, <4>1, OnlyLeave DEF Keeps
    <3>2. ASSUME NEW c \in Copies, c \in Member(b) \/ (Member(b) = {} /\ c \in spare),
                 place' = [place EXCEPT ![c] = "moving"],
                 hand' = [hand EXCEPT ![e] = c],
                 retryCount' = [retryCount EXCEPT ![c] = b.retryCount],
                 state' = [state EXCEPT ![c] = "pending"],
                 score' = [score EXCEPT ![c] = 0],
                 retryAt' = [retryAt EXCEPT ![c] = 0]
          PROVE  /\ Takes /\ Grows /\ CopiesTyped' /\ hand' \in [Engines -> Copies \cup {NoCopy}]
                 /\ \A d \in Copies : place'[d] = "retry" => place[d] = "retry" /\ d \notin Member(b)
                 /\ \A d \in Copies : place[d] = "retry" /\ place'[d] = "moving" => d \in Member(b)
      <4>1. CopiesTyped'
        <5>1. place' \in [Copies -> Places]
          BY <1>1, <3>2 DEF CopiesTyped, Places
        <5>2. retryCount' \in [Copies -> Nat] /\ score' \in [Copies -> Nat] /\ retryAt' \in [Copies -> Nat]
          BY <1>1, <1>4, <3>2 DEF CopiesTyped
        <5>3. state' \in [Copies -> StoredStates]
          BY <1>1, <3>2 DEF CopiesTyped, StoredStates
        <5>. QED  BY <5>1, <5>2, <5>3 DEF CopiesTyped
      <4>2. place'[c] = "moving" /\ retryCount'[c] = b.retryCount
        BY <1>1, <3>2 DEF CopiesTyped
      <4>3. \A d \in Copies \ {c} : Keeps(d)
        BY <1>1, <3>2 DEF CopiesTyped, Keeps
      <4>4. Leaves(c)
        <5>1. CASE c \in Member(b)
          <6>1. place[c] = "retry" /\ Bytes(c) = b
            BY <5>1 DEF Member
          <6>2. retryCount[c] = b.retryCount /\ retryCount[c] \in Nat
            BY <1>1, <6>1, BytesTyped DEF CopiesTyped
          <6>. QED  BY <4>2, <6>1, <6>2 DEF Leaves, Live
        <5>2. CASE Member(b) = {} /\ c \in spare
          <6>1. JobOf[c] \in doubled'
            BY <2>1, <5>2
          <6>. QED  BY <4>2, <6>1 DEF Leaves
        <5>. QED  BY <3>2, <5>1, <5>2
      <4>5. Takes /\ Grows
        BY <1>1, <2>2, <4>3, <4>4, OnlyLeave
      <4>6. hand' \in [Engines -> Copies \cup {NoCopy}]
        BY <1>1, <3>2
      <4>7. \A d \in Copies : place'[d] = "retry" => place[d] = "retry" /\ d \notin Member(b)
        <5>. SUFFICES ASSUME NEW d \in Copies, place'[d] = "retry"
                      PROVE  place[d] = "retry" /\ d \notin Member(b)
          OBVIOUS
        <5>1. d # c /\ place[d] = "retry"
          BY <4>2, <4>3 DEF Keeps
        <5>2. c \in Member(b) \/ Member(b) = {}
          BY <3>2
        <5>3. d \in Member(b) /\ c \in Member(b) => d = c
          BY <1>1 DEF Member, MemberOnce
        <5>. QED  BY <5>1, <5>2, <5>3
      <4>8. \A d \in Copies : place[d] = "retry" /\ place'[d] = "moving" => d \in Member(b)
        BY <3>2, <4>3 DEF Keeps
      <4>. QED  BY <4>1, <4>5, <4>6, <4>7, <4>8
    <3>3. \/ Member(b) = {} /\ UNCHANGED <<jobVars, hand, stats>>
          \/ \E c \in Copies : /\ c \in Member(b) \/ (Member(b) = {} /\ c \in spare)
                               /\ place' = [place EXCEPT ![c] = "moving"]
                               /\ hand' = [hand EXCEPT ![e] = c]
                               /\ retryCount' = [retryCount EXCEPT ![c] = b.retryCount]
                               /\ state' = [state EXCEPT ![c] = "pending"]
                               /\ score' = [score EXCEPT ![c] = 0]
                               /\ retryAt' = [retryAt EXCEPT ![c] = 0]
      <4>1. Member(b) \subseteq Copies
        BY DEF Member
      <4>. QED  BY <1>7, <4>1 DEF RetryRemoves, MoveTo, Move
    <3>. HIDE DEF spare
    <3>. QED  BY <3>1, <3>2, <3>3
  <2>4. \A c \in Copies : place'[c] = "retry" => Bytes(c)' # b
    <3>. SUFFICES ASSUME NEW c \in Copies, place'[c] = "retry", Bytes(c)' = b PROVE FALSE
      OBVIOUS
    <3>1. StillWaits(c) /\ c \notin Member(b)
      BY <2>3 DEF Takes
    <3>2. Bytes(c) = b /\ place[c] = "retry"
      BY <3>1 DEF StillWaits, Bytes, BytesOf
    <3>. QED  BY <3>1, <3>2 DEF Member
  <2>5. Pops(e)
    <3>1. \A f \in Engines \ {e} : last'[f] = last[f]
      BY <1>1, <2>1
    <3>2. last'[e] = last[e] \/ (Own(e, b) /\ last'[e] = Head(batch[e]).score)
      BY <1>1, <2>1 DEF Own
    <3>. QED  BY <1>2, <2>1, <2>4, <3>1, <3>2 DEF Pops
  <2>6. JobsTyped'
    BY <1>1, <1>2, <1>3, <2>1, <2>2, <2>3 DEF JobsTyped
  <2>7. InTime
    <3>. SUFFICES ASSUME NEW c \in Copies, JobOf[c] \notin doubled, place[c] = "retry", place'[c] = "moving"
                  PROVE  retryAt[c] < now + 2
      BY DEF InTime
    <3>1. Bytes(c) = b /\ batch[e][1].bytes = b
      BY <1>3, <2>3 DEF Member
    <3>2. score[c] <= Unix(now)
      BY <1>3, <3>1 DEF EarlyInv, ListedDue
    <3>3. score[c] = Unix(retryAt[c]) /\ retryAt[c] \in Nat
      BY <1>1 DEF TimesKept, CopiesTyped
    <3>. QED  BY <1>1, <3>2, <3>3, UnixGrows
  <2>. QED  BY <1>1, <1>2, <2>3, <2>5, <2>6, <2>7 DEF Effect
<1>. QED  BY <1>5, <1>6, <1>7

\* The clock, GetStats and Stop leave the jobs alone.
LEMMA RestEffect ==
  ASSUME JobsTyped, \/ Clock \/ StatsBegins \/ StatsCounts \/ StatsScans \/ StatsReturns
                    \/ (\E e \in Engines : Stops(e)) \/ UNCHANGED vars
  PROVE  Effect /\ InTime
<1>1. UNCHANGED <<jobVars, batch, hand, last, failed, doubled>> /\ (now' = now + 1 \/ now' = now)
  BY DEF Clock, StatsBegins, StatsCounts, StatsScans, StatsReturns, StatsUnchanged, Stops, history, vars
<1>2. now' \in Nat /\ now <= now'
  BY <1>1 DEF JobsTyped
<1>3. /\ Takes /\ Grows /\ CopiesTyped'
      /\ \A d \in Copies : place[d] = "retry" => place'[d] # "moving"
  BY <1>1, NothingMoves
<1>4. doubled' \in SUBSET JIDs /\ hand' \in [Engines -> Copies \cup {NoCopy}]
  BY <1>1 DEF JobsTyped
<1>. QED  BY <1>1, <1>2, <1>3, <1>4, QuietEffect

\* Every step keeps the invariants, and is in time and in order.
LEMMA StepOrder ==
  ASSUME OrderInv, EarlyInv, [Next]_vars
  PROVE  OrderInv' /\ EarlyInv' /\ InTime /\ \A e \in Engines : last'[e] >= last[e]
<1>1. JobsTyped
  BY DEF OrderInv
<1>2. ASSUME NEW e \in Engines, GetRetryJobs(e)
      PROVE  OrderInv' /\ EarlyInv' /\ InTime /\ \A f \in Engines : last'[f] >= last[f]
  <2>1. OrderInv' /\ EarlyInv' /\ InTime /\ last' = last
    BY <1>2, GetKeeps
  <2>2. \A f \in Engines : last[f] \in Nat
    BY <1>1 DEF JobsTyped
  <2>. QED  BY <2>1, <2>2
<1>3. CASE Effect /\ InTime
  BY <1>1, <1>3, EffectOrder, EffectEarly
<1>4. \/ \E e \in Engines : GetRetryJobs(e)
      \/ Effect /\ InTime
  <2>1. ASSUME NEW c \in Copies, Begins(c) \/ Ends(c) \/ Fails(c) \/ MeetsOpenCircuit(c)
        PROVE  Effect /\ InTime
    BY <1>1, <2>1, WorkerEffect
  <2>2. ASSUME NEW e \in Engines, RetrySkips(e) \/ RetryRemoves(e) \/ RetryRemoveFails(e)
        PROVE  Effect /\ InTime
    BY <2>2, BatchEffect
  <2>3. ASSUME NEW e \in Engines, RetryEnqueues(e) \/ RetryEnqueueFails(e) \/ RetryFallsBack(e)
        PROVE  Effect /\ InTime
    BY <1>1, <2>3, HandEffect
  <2>4. CASE \/ Clock \/ StatsBegins \/ StatsCounts \/ StatsScans \/ StatsReturns
             \/ (\E e \in Engines : Stops(e)) \/ UNCHANGED vars
    BY <1>1, <2>4, RestEffect
  <2>5. \/ \E c \in Copies : Begins(c) \/ Ends(c) \/ Fails(c) \/ MeetsOpenCircuit(c)
        \/ \E e \in Engines : GetRetryJobs(e)
        \/ \E e \in Engines : RetrySkips(e) \/ RetryRemoves(e) \/ RetryRemoveFails(e)
        \/ \E e \in Engines : RetryEnqueues(e) \/ RetryEnqueueFails(e) \/ RetryFallsBack(e)
        \/ Clock \/ StatsBegins \/ StatsCounts \/ StatsScans \/ StatsReturns
        \/ (\E e \in Engines : Stops(e)) \/ UNCHANGED vars
    BY DEF Next, RetryLoop
  <2>. QED  BY <2>1, <2>2, <2>3, <2>4, <2>5
<1>. QED  BY <1>2, <1>3, <1>4

\* At the start no batch is there and the copies of a scenario are of different jobs.
LEMMA InitOrder == Init => OrderInv /\ EarlyInv
<1>. SUFFICES ASSUME Init PROVE OrderInv /\ EarlyInv
  OBVIOUS
<1>1. PICK s \in Scenarios : place = [c \in Copies |-> IF c \in s.jobs THEN "queue" ELSE "gone"]
  BY DEF Init
<1>2. \A c \in Copies : place[c] \in {"queue", "gone"} /\ (place[c] = "queue" => c \in s.jobs)
  BY <1>1
<1>3. \A e \in Engines : batch[e] = <<>> /\ last[e] = 0 /\ failed[e] = {}
  BY DEF Init
<1>4. JobsTyped
  <2>1. CopiesTyped
    BY <1>1 DEF Init, CopiesTyped, Places, StoredStates
  <2>2. batch \in [Engines -> Seq(Entries)]
    BY DEF Init
  <2>. QED  BY <2>1, <2>2 DEF Init, JobsTyped
<1>5. Unix(now) = 0
  BY DEF Init, Unix
<1>6. OrderInv
  BY <1>2, <1>3, <1>4, <1>5
     DEF OrderInv, TimesKept, MemberOnce, EntriesDue, BatchSorted, Foremost, LastPassed
<1>7. OneCopy
  <2>1. \A c, d \in s.jobs : JobOf[c] = JobOf[d] => c = d
    BY RetrySetAssumption
  <2>. QED  BY <1>2, <2>1 DEF OneCopy, Live
<1>8. CountsBehind /\ ListedDue
  BY <1>3 DEF CountsBehind, ListedDue
<1>. QED  BY <1>6, <1>7, <1>8 DEF EarlyInv

LEMMA OrderHolds == Spec => [](OrderInv /\ EarlyInv)
<1>1. OrderInv /\ EarlyInv /\ [Next]_vars => (OrderInv /\ EarlyInv)'
  BY StepOrder
<1>. QED  BY InitOrder, <1>1, PTL DEF Spec

\* A job leaves the retry set less than a second before the time that was chosen for it,
\* however long ago the loop that moves it read the set, whichever engines share the set and
\* its queues, and whichever of their calls fail.  Two things are excepted: a job that had
\* been enqueued twice before (another loop had removed it first, or an Enqueue failed and
\* was done), and one that an open circuit sent back under bytes that a loop had still to
\* handle.
THEOREM RetriesNotEarly == Spec => NotEarly
<1>1. OrderInv /\ EarlyInv /\ [Next]_vars =>
        [\A c \in Copies :
           JobOf[c] \notin doubled /\ place[c] = "retry" /\ place'[c] = "moving"
             => retryAt[c] < now + 2]_vars
  BY StepOrder DEF InTime
<1>. QED  BY <1>1, OrderHolds, PTL DEF Spec, NotEarly

\* An engine moves the jobs of its queues in the order of their scores, however many rounds
\* it takes, whatever is added or removed by other engines between reading a batch and moving
\* it, and however many jobs of other queues fill its batches; a job that it had failed to
\* remove before comes when it comes.
THEOREM RetriesInOrder == Spec => NoOvertaking
<1>1. OrderInv /\ EarlyInv /\ [Next]_vars => [\A e \in Engines : last'[e] >= last[e]]_vars
  BY StepOrder
<1>. QED  BY <1>1, OrderHolds, PTL DEF Spec, NoOvertaking

-----------------------------------------------------------------------------
(* GetStats. *)

Here(where) == {c \in Copies : place[c] = where}

\* The number n is of a set of jobs among D that differs from S in members of M only.
Saw(n, S, D, M) == \E R \in SUBSET D : n = Cardinality(R) /\ R \ M = S \ M

\* The jobs of the queues that have been scanned, and those of them that are there now.
InScanned == {c \in Copies : QueueOf[JobOf[c]] \notin stats.todo}
Scanned == {c \in InScanned : place[c] = "queue"}

StatsTyped ==
  stats \in [pc : {"none", "count", "done"}, counts : Seq(Nat), todo : SUBSET Queues,
             moved : SUBSET Copies]

CountsRight ==
  /\ Len(stats.counts) \in {1, 2, 3}
  /\ Len(stats.counts) # 3 => stats.todo = Queues
  /\ Saw(stats.counts[1], Here("retry"), Copies, stats.moved)
  /\ Len(stats.counts) # 1 => Saw(stats.counts[2], Here("dead"), Copies, stats.moved)
  /\ Len(stats.counts) = 3 => Saw(stats.counts[3], Scanned, InScanned, stats.moved)
  /\ stats.pc = "done" => Len(stats.counts) = 3 /\ stats.todo = {}

StatsInv == StatsTyped /\ (stats.pc # "none" => CountsRight)

\* A count stays as right when more jobs move, and only those.
LEMMA SawMore ==
  ASSUME NEW n, NEW S, NEW T, NEW D, NEW M, NEW N, Saw(n, S, D, M), M \subseteq N, T \ N = S \ N
  PROVE  Saw(n, T, D, N)
<1>1. PICK R \in SUBSET D : n = Cardinality(R) /\ R \ M = S \ M
  BY DEF Saw
<1>2. R \ N = T \ N
  BY <1>1
<1>. QED  BY <1>1, <1>2 DEF Saw

\* What is counted now is right, whatever has moved.
LEMMA SawNow ==
  ASSUME NEW D, NEW S \in SUBSET D, NEW M
  PROVE  Saw(Cardinality(S), S, D, M)
BY DEF Saw

\* How far a count can be off.
LEMMA SawNearly ==
  ASSUME NEW D, IsFiniteSet(D), NEW S \in SUBSET D, NEW M, IsFiniteSet(M), NEW n, Saw(n, S, D, M)
  PROVE  n \in Cardinality(S \ M)..Cardinality(S \ M) + Cardinality(M)
<1>1. PICK R \in SUBSET D : n = Cardinality(R) /\ R \ M = S \ M
  BY DEF Saw
<1>2. IsFiniteSet(R) /\ IsFiniteSet(S \ M) /\ IsFiniteSet(R \cap M)
  BY <1>1, FS_Subset
<1>3. R = (S \ M) \cup (R \cap M) /\ (S \ M) \cap (R \cap M) = {}
  BY <1>1
<1>4. Cardinality(R) = Cardinality(S \ M) + Cardinality(R \cap M)
  <2>1. Cardinality((S \ M) \cup (R \cap M)) = Cardinality(S \ M) + Cardinality(R \cap M)
    <3>1. Cardinality((S \ M) \cup (R \cap M)) =
            Cardinality(S \ M) + Cardinality(R \cap M) - Cardinality((S \ M) \cap (R \cap M))
      BY <1>2, FS_Union
    <3>2. Cardinality((S \ M) \cap (R \cap M)) = 0
      BY <1>3, FS_EmptySet
    <3>3. Cardinality(S \ M) \in Nat /\ Cardinality(R \cap M) \in Nat
      BY <1>2, FS_CardinalityType
    <3>. QED  BY ONLY <3>1, <3>2, <3>3
  <2>. QED  BY <1>3, <2>1
<1>5. Cardinality(R \cap M) <= Cardinality(M)
  BY FS_Subset
<1>6. Cardinality(S \ M) \in Nat /\ Cardinality(R \cap M) \in Nat /\ Cardinality(M) \in Nat
  BY <1>2, FS_CardinalityType
<1>. QED  BY ONLY <1>1, <1>4, <1>5, <1>6

\* Two counts of disjoint sets add up.
LEMMA SawBoth ==
  ASSUME NEW D, IsFiniteSet(D), NEW C \in SUBSET D, NEW S, NEW M, NEW n, Saw(n, S, C, M),
         NEW L \in SUBSET D, L \cap C = {}
  PROVE  Saw(Cardinality(L) + n, S \cup L, C \cup L, M)
<1>1. PICK R \in SUBSET C : n = Cardinality(R) /\ R \ M = S \ M
  BY DEF Saw
<1>2. IsFiniteSet(R) /\ IsFiniteSet(L)
  BY <1>1, FS_Subset
<1>3. R \cap L = {}
  BY <1>1
<1>4. Cardinality(R \cup L) = Cardinality(L) + Cardinality(R)
  <2>1. Cardinality(R \cup L) = Cardinality(R) + Cardinality(L) - Cardinality(R \cap L)
    BY <1>2, FS_Union
  <2>2. Cardinality(R \cap L) = 0
    BY <1>3, FS_EmptySet
  <2>3. Cardinality(R) \in Nat /\ Cardinality(L) \in Nat
    BY <1>2, FS_CardinalityType
  <2>. QED  BY ONLY <2>1, <2>2, <2>3
<1>5. (R \cup L) \ M = (S \cup L) \ M /\ R \cup L \in SUBSET (C \cup L)
  BY <1>1
<1>. QED  BY <1>1, <1>4, <1>5 DEF Saw

\* The copies that move are seen by a running call.
LEMMA MoveSeen ==
  ASSUME StatsInv, NEW new, Move(new)
  PROVE  StatsInv'
<1>. DEFINE N == {c \in Copies : new[c] # place[c]}
<1>1. StatsTyped /\ place' = new
  BY DEF StatsInv, Move
<1>2. \A c \in Copies \ N : place'[c] = place[c]
  BY <1>1
<1>3. CASE stats.pc = "none"
  <2>1. stats' = stats
    BY <1>3 DEF Move
  <2>. QED  BY <1>1, <1>3, <2>1 DEF StatsInv, StatsTyped
<1>4. CASE stats.pc # "none"
  <2>1. /\ stats' = [stats EXCEPT !.moved = @ \cup N]
        /\ stats.pc \in {"count", "done"} /\ CountsRight
    BY <1>1, <1>4 DEF Move, StatsInv, StatsTyped
  <2>2. N \subseteq Copies
    OBVIOUS
  <2>. HIDE DEF N
  <2>3. /\ stats'.pc = stats.pc /\ stats'.counts = stats.counts /\ stats'.todo = stats.todo
        /\ stats'.moved = stats.moved \cup N /\ StatsTyped'
    BY <1>1, <2>1, <2>2 DEF StatsTyped
  <2>4. \A where : Here(where)' \ stats'.moved = Here(where) \ stats'.moved
    BY <1>2, <2>3 DEF Here
  <2>5. InScanned' = InScanned /\ Scanned' \ stats'.moved = Scanned \ stats'.moved
    BY <1>2, <2>3 DEF InScanned, Scanned
  <2>6. stats.moved \subseteq stats'.moved
    BY <2>3
  <2>7. \A n : Saw(n, Here("retry"), Copies, stats.moved) => Saw(n, Here("retry")', Copies, stats'.moved)
    BY <2>4, <2>6, SawMore
  <2>8. \A n : Saw(n, Here("dead"), Copies, stats.moved) => Saw(n, Here("dead")', Copies, stats'.moved)
    BY <2>4, <2>6, SawMore
  <2>9. \A n : Saw(n, Scanned, InScanned, stats.moved) => Saw(n, Scanned', InScanned', stats'.moved)
    <3>1. \A n : Saw(n, Scanned, InScanned, stats.moved) => Saw(n, Scanned', InScanned, stats'.moved)
      BY <2>5, <2>6, SawMore
    <3>. QED  BY <2>5, <3>1
  <2>10. CountsRight'
    BY <2>1, <2>3, <2>7, <2>8, <2>9 DEF CountsRight
  <2>. QED  BY <2>3, <2>10 DEF StatsInv
<1>. QED  BY <1>3, <1>4

\* Each command of GetStats adds a right count.
LEMMA StatsGoOn ==
  ASSUME StatsInv, StatsBegins \/ StatsCounts \/ StatsScans \/ StatsReturns
  PROVE  StatsInv'
<1>1. StatsTyped
  BY DEF StatsInv
<1>2. UNCHANGED place
  <2>1. StatsUnchanged
    BY DEF StatsBegins, StatsCounts, StatsScans, StatsReturns
  <2>. QED  BY <2>1 DEF StatsUnchanged, jobVars
<1>4. \A where : Here(where)' = Here(where) /\ Here(where) \in SUBSET Copies
  BY <1>2 DEF Here
<1>5. IsFiniteSet(Copies) /\ \A S \in SUBSET Copies : IsFiniteSet(S) /\ Cardinality(S) \in Nat
  BY RetrySetAssumption, FS_Subset, FS_CardinalityType
<1>6. CASE StatsBegins
  <2>1. /\ stats' = [stats EXCEPT !.pc = "count", !.counts = <<ZCard[1]>>, !.todo = Queues]
        /\ ZCard[1] = Cardinality(Here("retry"))
    BY <1>6 DEF StatsBegins, ZCard, At, Here
  <2>2. ZCard[1] \in Nat
    BY <1>4, <1>5, <2>1
  <2>3. /\ stats'.pc = "count" /\ stats'.counts = <<ZCard[1]>> /\ stats'.todo = Queues
        /\ stats'.moved = stats.moved /\ StatsTyped'
    <3>1. PICK c : c = <<ZCard[1]>>
      OBVIOUS
    <3>2. c \in Seq(Nat)
      BY <2>2, <3>1
    <3>3. stats' = [stats EXCEPT !.pc = "count", !.counts = c, !.todo = Queues]
      BY <2>1, <3>1
    <3>4. /\ stats'.pc = "count" /\ stats'.counts = c /\ stats'.todo = Queues
          /\ stats'.moved = stats.moved /\ StatsTyped'
      BY ONLY <1>1, <3>2, <3>3 DEF StatsTyped
    <3>. QED  BY <3>1, <3>4
  <2>4. Len(stats'.counts) = 1 /\ stats'.counts[1] = ZCard[1]
    BY <2>3
  <2>5. Saw(stats'.counts[1], Here("retry")', Copies, stats'.moved)
    BY <1>4, <2>1, <2>4, SawNow
  <2>6. CountsRight'
    BY <2>3, <2>4, <2>5 DEF CountsRight
  <2>. QED  BY <2>3, <2>6 DEF StatsInv
<1>7. CASE StatsCounts
  <2>1. /\ stats.pc = "count" /\ Len(stats.counts) = 1 /\ CountsRight
        /\ stats' = [stats EXCEPT !.counts = Append(@, ZCard[2])]
        /\ ZCard[2] = Cardinality(Here("dead"))
    BY <1>7 DEF StatsCounts, StatsInv, ZCard, At, Here
  <2>2. ZCard[2] \in Nat
    BY <1>4, <1>5, <2>1
  <2>3. /\ stats'.pc = "count" /\ stats'.counts = Append(stats.counts, ZCard[2])
        /\ stats'.todo = stats.todo /\ stats'.moved = stats.moved /\ stats.counts \in Seq(Nat)
    BY <1>1, <2>1 DEF StatsTyped
  <2>4. /\ stats'.counts \in Seq(Nat) /\ Len(stats'.counts) = 2
        /\ stats'.counts[1] = stats.counts[1] /\ stats'.counts[2] = ZCard[2]
    BY <2>1, <2>2, <2>3
  <2>5. StatsTyped'
    BY <1>1, <2>1, <2>3, <2>4 DEF StatsTyped
  <2>6. Saw(stats'.counts[2], Here("dead")', Copies, stats'.moved)
    BY <1>4, <2>1, <2>4, SawNow
  <2>7. CountsRight'
    BY <1>4, <2>1, <2>3, <2>4, <2>6 DEF CountsRight
  <2>. QED  BY <2>5, <2>7 DEF StatsInv
<1>8. CASE StatsScans
  <2>1. stats.pc = "count" /\ Len(stats.counts) \in {2, 3} /\ CountsRight
    BY <1>8 DEF StatsScans, StatsInv
  <2>2. PICK q \in stats.todo :
          stats' = [stats EXCEPT !.todo = @ \ {q},
                      !.counts = Append(SubSeq(@, 1, 2),
                                        LLen(q) + IF Len(stats.counts) = 3 THEN stats.counts[3] ELSE 0),
                      !.pc = IF stats.todo = {q} THEN "done" ELSE "count"]
    BY <1>8 DEF StatsScans
  <2>. DEFINE old == IF Len(stats.counts) = 3 THEN stats.counts[3] ELSE 0
              L == {c \in Copies : place[c] = "queue" /\ QueueOf[JobOf[c]] = q}
  <2>3. LLen(q) = Cardinality(L) /\ L \in SUBSET Copies
    BY DEF LLen
  <2>4. Saw(old, Scanned, InScanned, stats.moved) /\ old \in Nat
    <3>1. CASE Len(stats.counts) = 3
      <4>1. stats.counts \in Seq(Nat)
        BY <1>1 DEF StatsTyped
      <4>. QED  BY <2>1, <3>1, <4>1 DEF CountsRight
    <3>2. CASE Len(stats.counts) = 2
      <4>1. stats.todo = Queues /\ Len(stats.counts) # 3
        BY <2>1, <3>2 DEF CountsRight
      <4>2. InScanned = {} /\ Scanned = {}
        BY <4>1, RetrySetAssumption DEF InScanned, Scanned
      <4>3. Cardinality({}) = 0
        BY FS_EmptySet
      <4>. QED  BY <4>1, <4>2, <4>3 DEF Saw
    <3>. QED  BY <2>1, <3>1, <3>2
  <2>. HIDE DEF old, L
  <2>5. LLen(q) + old \in Nat
    BY <1>5, <2>3, <2>4
  <2>6. /\ stats'.counts = Append(SubSeq(stats.counts, 1, 2), LLen(q) + old)
        /\ stats'.pc = IF stats.todo = {q} THEN "done" ELSE "count"
        /\ stats'.todo = stats.todo \ {q} /\ stats'.moved = stats.moved /\ stats.counts \in Seq(Nat)
    BY <1>1, <2>2 DEF StatsTyped, old
  <2>7. /\ stats'.counts \in Seq(Nat) /\ Len(stats'.counts) = 3
        /\ stats'.counts[1] = stats.counts[1] /\ stats'.counts[2] = stats.counts[2]
        /\ stats'.counts[3] = LLen(q) + old
    <3>1. ASSUME NEW c \in Seq(Nat), Len(c) \in {2, 3}, NEW n \in Nat
          PROVE  LET d == Append(SubSeq(c, 1, 2), n) IN
                 d \in Seq(Nat) /\ Len(d) = 3 /\ d[1] = c[1] /\ d[2] = c[2] /\ d[3] = n
      BY <3>1
    <3>. QED  BY <2>1, <2>5, <2>6, <3>1
  <2>8. StatsTyped'
    BY <1>1, <2>2, <2>6, <2>7 DEF StatsTyped
  <2>9. InScanned \subseteq Copies /\ L \cap InScanned = {}
    BY DEF InScanned, L
  <2>10. Saw(LLen(q) + old, Scanned \cup L, InScanned \cup L, stats.moved)
    BY <1>5, <2>3, <2>4, <2>9, SawBoth
  <2>11. Scanned' = Scanned \cup L /\ InScanned \cup L \subseteq InScanned'
    BY <1>2, <2>6 DEF Scanned, InScanned, L
  <2>12. Saw(stats'.counts[3], Scanned', InScanned', stats'.moved)
    BY <2>6, <2>7, <2>10, <2>11 DEF Saw
  <2>13. stats'.pc = "done" => stats'.todo = {}
    BY <2>6
  <2>14. CountsRight'
    BY <1>4, <2>1, <2>6, <2>7, <2>12, <2>13 DEF CountsRight
  <2>. QED  BY <2>8, <2>14 DEF StatsInv
<1>9. CASE StatsReturns
  <2>1. stats' = NoStats
    BY <1>9 DEF StatsReturns
  <2>2. stats'.pc = "none" /\ StatsTyped'
    BY <2>1 DEF NoStats, StatsTyped
  <2>. QED  BY <2>2 DEF StatsInv
<1>. QED  BY <1>6, <1>7, <1>8, <1>9

\* Every step keeps the counts right.
LEMMA StepStats ==
  ASSUME StatsInv, [Next]_vars
  PROVE  StatsInv'
<1>1. CASE UNCHANGED <<place, stats>>
  BY <1>1 DEF StatsInv, StatsTyped, CountsRight, Saw, Here, InScanned, Scanned
<1>2. CASE \E new : Move(new)
  BY <1>2, MoveSeen
<1>3. CASE StatsBegins \/ StatsCounts \/ StatsScans \/ StatsReturns
  BY <1>3, StatsGoOn
<1>4. CASE UNCHANGED vars
  BY <1>1, <1>4 DEF vars, jobVars
<1>5. CASE Clock
  BY <1>1, <1>5 DEF Clock, jobVars
<1>6. ASSUME NEW c \in Copies, Begins(c) \/ Ends(c) \/ Fails(c) \/ MeetsOpenCircuit(c)
      PROVE  StatsInv'
  BY <1>2, <1>6 DEF Begins, Ends, Fails, MeetsOpenCircuit, AddToRetry, AddToDead, MoveTo
<1>7. ASSUME NEW e \in Engines, Stops(e) \/ GetRetryJobs(e) \/ RetrySkips(e)
      PROVE  StatsInv'
  BY <1>1, <1>7 DEF Stops, GetRetryJobs, RetrySkips, jobVars
<1>8. ASSUME NEW e \in Engines, RetryRemoves(e) \/ RetryRemoveFails(e)
      PROVE  StatsInv'
  <2>1. UNCHANGED <<place, stats>> \/ \E new : Move(new)
    BY <1>8 DEF RetryRemoves, RetryRemoveFails, MoveTo, jobVars
  <2>. QED  BY <1>1, <1>2, <2>1
<1>9. ASSUME NEW e \in Engines, RetryEnqueues(e) \/ RetryEnqueueFails(e) \/ RetryFallsBack(e)
      PROVE  StatsInv'
  BY <1>2, <1>9 DEF RetryEnqueues, RetryEnqueueFails, RetryFallsBack, AddToRetry, AddToDead, MoveTo
<1>. QED  BY <1>3, <1>4, <1>5, <1>6, <1>7, <1>8, <1>9 DEF Next, RetryLoop

\* GetStats takes its counts one after the other while jobs move: each has every job that
\* stayed in its place during the call, and beyond those at most the jobs that moved; over
\* any number of queues, scanned in any order.
THEOREM StatsAreNearlyExact == Spec => []StatsNearlyExact
<1>1. Init => StatsInv
  <2>. SUFFICES ASSUME Init PROVE StatsInv
    OBVIOUS
  <2>. QED  BY DEF Init, StatsInv, StatsTyped, NoStats
<1>2. StatsInv /\ [Next]_vars => StatsInv'
  BY StepStats
<1>3. StatsInv => StatsNearlyExact
  <2>. SUFFICES ASSUME StatsInv, stats.pc = "done" PROVE StatsNearlyExact
    BY DEF StatsNearlyExact
  <2>1. /\ CountsRight /\ Len(stats.counts) = 3 /\ stats.todo = {} /\ stats.moved \in SUBSET Copies
    BY DEF StatsInv, StatsTyped, CountsRight
  <2>2. InScanned = Copies /\ Scanned = Here("queue")
    BY <2>1 DEF InScanned, Scanned, Here
  <2>3. \A where : Steady(where) = Cardinality(Here(where) \ stats.moved) /\ Here(where) \subseteq Copies
    <3>. SUFFICES ASSUME NEW where
                  PROVE  /\ {c \in Copies \ stats.moved : place[c] = where} = Here(where) \ stats.moved
                         /\ Here(where) \subseteq Copies
      BY DEF Steady
    <3>. QED  BY DEF Here
  <2>4. IsFiniteSet(Copies) /\ IsFiniteSet(stats.moved)
    BY <2>1, RetrySetAssumption, FS_Subset
  <2>5. \A n, where : Saw(n, Here(where), Copies, stats.moved) =>
          n \in Steady(where)..Steady(where) + Cardinality(stats.moved)
    BY <2>3, <2>4, SawNearly
  <2>. QED  BY <2>1, <2>2, <2>5 DEF StatsNearlyExact, CountsRight
<1>. QED  BY <1>1, <1>2, <1>3, PTL DEF Spec
=============================================================================
