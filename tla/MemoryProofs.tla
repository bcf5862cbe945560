---------------------------- MODULE MemoryProofs ----------------------------
(***************************************************************************)
(* What the test engine over the in-memory broker promises for any number  *)
(* of jobs and workers, and every bound.                                   *)
(*                                                                         *)
(* Delivery (Carried) needs sets only: every accepted job is done, buried, *)
(* cleared, in a list or in a hand that has yet to store it.  It holds     *)
(* whatever leases run out, since the reaper only adds copies.             *)
(*                                                                         *)
(* Until a lease runs out (EvenInv) more is true, and it takes counting: a *)
(* job is in one place (OnePlace) because each call moves one entry, the   *)
(* lists and the hands together keep the sum; the retry loop's batch is in *)
(* the retry list still, each entry of it once (BatchInRetry), which is why *)
(* the loop moves what it read and duplicates nothing.                     *)
(*                                                                         *)
(* The lists are searched and filtered, and what a search does is a fact of *)
(* induction over positions.  The induction is done with a set in place of *)
(* the predicate (the least counterexample), in the first section.         *)
(***************************************************************************)
EXTENDS MemoryEngine, TLAPS, WellFoundedInduction, FiniteSetTheorems, SequenceTheorems

-----------------------------------------------------------------------------
(* Lists. *)

\* A set of numbers that is not empty has a least element.
LEMMA LeastNumber ==
  ASSUME NEW T \in SUBSET Nat, T # {}
  PROVE  \E m \in T : \A n \in T : m <= n
<1>. DEFINE R == OpToRel(<, Nat)
<1>1. IsWellFoundedOn(R, Nat)
  BY NatLessThanWellFounded
<1>2. \A x, y \in Nat : x < y => <<x, y>> \in R
  BY DEF OpToRel
<1>. HIDE DEF R
<1>3. PICK m \in T : \A n \in T : <<n, m>> \notin R
  BY <1>1, WFMin
<1>4. \A n \in T : ~(n < m)
  BY <1>2, <1>3
<1>5. m \in Nat /\ \A n \in T : n \in Nat
  OBVIOUS
<1>6. \A n \in T : m <= n
  BY <1>4, <1>5
<1>. QED  BY <1>6

\* Induction up to a number, with a set for the predicate.
LEMMA UpToInduction ==
  ASSUME NEW k \in Nat, NEW T, 0 \in T, \A n \in 0..(k - 1) : n \in T => n + 1 \in T
  PROVE  \A n \in 0..k : n \in T
<1>. SUFFICES ASSUME (0..k) \ T # {} PROVE FALSE
  OBVIOUS
<1>. DEFINE D == (0..k) \ T
<1>0. D \in SUBSET Nat /\ D # {}
  OBVIOUS
<1>1. PICK m \in D : \A n \in D : m <= n
  <2>. HIDE DEF D
  <2>. QED  BY <1>0, LeastNumber
<1>2. m \in 1..k
  BY <1>1
<1>3. m - 1 \in 0..(k - 1) /\ m - 1 \in 0..k
  BY <1>2
<1>4. m - 1 \in T
  BY <1>1, <1>2, <1>3
<1>5. (m - 1) + 1 \in T
  BY <1>3, <1>4
<1>. QED  BY <1>1, <1>2, <1>5

\* The step by which a sublist grows.
Grows(list, I, f, n) ==
  f[n] = IF n = 0 THEN <<>> ELSE IF n \in I THEN Append(f[n - 1], list[n]) ELSE f[n - 1]

\* The recursion has a solution.
LEMMA SublistDefined ==
  ASSUME NEW S, NEW list \in Seq(S), NEW I
  PROVE  \E f \in [0..Len(list) -> Seq(S)] :
           /\ \A n \in 0..Len(list) : Grows(list, I, f, n)
           /\ Sublist(list, I) = f[Len(list)]
<1>. DEFINE k == Len(list)
            Sol(n) == {f \in [0..n -> Seq(S)] : \A i \in 0..n : Grows(list, I, f, i)}
            T == {n \in 0..k : Sol(n) # {}}
<1>1. k \in Nat
  OBVIOUS
<1>2. 0 \in T
  <2>1. [i \in 0..0 |-> <<>>] \in Sol(0)
    BY DEF Grows
  <2>2. 0 \in 0..k
    BY <1>1
  <2>. HIDE DEF Sol
  <2>. QED  BY <2>1, <2>2
<1>3. ASSUME NEW n \in 0..(k - 1), n \in T
      PROVE  n + 1 \in T
  <2>1. PICK f \in [0..n -> Seq(S)] : \A i \in 0..n : Grows(list, I, f, i)
    BY <1>3
  <2>. DEFINE last == IF n + 1 \in I THEN Append(f[n], list[n + 1]) ELSE f[n]
              g == [i \in 0..(n + 1) |-> IF i = n + 1 THEN last ELSE f[i]]
  <2>2. last \in Seq(S)
    BY <1>1, <1>3, <2>1
  <2>3. g \in [0..(n + 1) -> Seq(S)]
    BY <1>3, <2>1, <2>2
  <2>4. \A i \in 0..n : g[i] = f[i] /\ i \in 0..(n + 1)
    BY <1>3
  <2>5. g[n + 1] = last
    BY <1>3
  <2>. HIDE DEF g, last
  <2>6. ASSUME NEW i \in 0..(n + 1) PROVE Grows(list, I, g, i)
    <3>1. CASE i = n + 1
      <4>1. n + 1 # 0 /\ (n + 1) - 1 = n /\ n \in 0..n
        BY <1>3
      <4>. QED  BY <3>1, <4>1, <2>4, <2>5 DEF Grows, last
    <3>2. CASE i \in 0..n
      <4>1. i # 0 => i - 1 \in 0..n
        BY <3>2, <1>3
      <4>. QED  BY <3>2, <4>1, <2>1, <2>4 DEF Grows
    <3>. QED  BY <3>1, <3>2, <1>3
  <2>7. g \in Sol(n + 1)
    BY <2>3, <2>6
  <2>8. n + 1 \in 0..k
    BY <1>1, <1>3
  <2>. QED  BY <2>7, <2>8
<1>4. k \in T
  <2>. HIDE DEF T
  <2>1. \A n \in 0..k : n \in T
    BY <1>1, <1>2, <1>3, UpToInduction
  <2>. QED  BY <1>1, <2>1
<1>5. PICK f \in [0..k -> Seq(S)] : \A i \in 0..k : Grows(list, I, f, i)
  BY <1>4
<1>. DEFINE Fix(h) == h = [n \in 0..k |-> IF n = 0 THEN <<>>
                                   ELSE IF n \in I THEN Append(h[n - 1], list[n]) ELSE h[n - 1]]
            F == CHOOSE h : Fix(h)
<1>6. Fix(f)
  BY <1>5 DEF Grows
<1>7. Fix(F)
  BY <1>6
<1>8. Sublist(list, I) = F[k]
  BY DEF Sublist
<1>. HIDE DEF F
<1>9. \A n \in 0..k : Grows(list, I, F, n)
  BY <1>7 DEF Grows
<1>. DEFINE U == {n \in 0..k : F[n] = f[n]}
<1>10. \A n \in 0..k : n \in U
  <2>1. 0 \in U
    BY <1>1, <1>5, <1>9 DEF Grows
  <2>2. ASSUME NEW n \in 0..(k - 1), n \in U PROVE n + 1 \in U
    <3>1. n + 1 \in 0..k /\ n + 1 # 0 /\ (n + 1) - 1 = n
      BY <1>1, <2>2
    <3>2. F[n + 1] = f[n + 1]
      BY <1>5, <1>9, <2>2, <3>1 DEF Grows
    <3>. QED  BY <3>1, <3>2
  <2>. HIDE DEF U
  <2>. QED  BY <1>1, <2>1, <2>2, UpToInduction
<1>. QED  BY <1>1, <1>5, <1>8, <1>10

\* Up to position n, part has the entries of the list at the positions in I, each once
\* and in their order.
Embeds(list, I, n, part, pos) ==
  /\ \A i \in 1..Len(part) : pos[i] \in I /\ pos[i] <= n /\ part[i] = list[pos[i]]
  /\ \A i, j \in 1..Len(part) : i < j => pos[i] < pos[j]
  /\ \A p \in I : p <= n => \E i \in 1..Len(part) : pos[i] = p

\* A sublist embeds in the list.
LEMMA SublistEmbeds ==
  ASSUME NEW S, NEW list \in Seq(S), NEW I \in SUBSET (1..Len(list))
  PROVE  /\ Sublist(list, I) \in Seq(S)
         /\ \E pos : Embeds(list, I, Len(list), Sublist(list, I), pos)
<1>. DEFINE k == Len(list)
<1>1. k \in Nat /\ \A p \in I : p \in Int /\ 1 <= p /\ p <= k
  OBVIOUS
<1>2. PICK f \in [0..k -> Seq(S)] :
        /\ \A n \in 0..k : Grows(list, I, f, n)
        /\ Sublist(list, I) = f[k]
  BY SublistDefined
<1>. DEFINE T == {n \in 0..k : \E pos : Embeds(list, I, n, f[n], pos)}
<1>3. 0 \in T
  <2>1. 0 \in 0..k
    BY <1>1
  <2>2. f[0] = <<>>
    BY <1>2, <2>1 DEF Grows
  <2>3. 1..Len(f[0]) = {}
    BY <2>2
  <2>4. Embeds(list, I, 0, f[0], <<>>)
    BY <1>1, <2>3 DEF Embeds
  <2>. QED  BY <2>1, <2>4
<1>4. ASSUME NEW n \in 0..(k - 1), n \in T
      PROVE  n + 1 \in T
  <2>1. PICK pos : Embeds(list, I, n, f[n], pos)
    BY <1>4
  <2>2. n \in Int /\ n \in 0..k /\ n + 1 \in 0..k /\ n + 1 # 0 /\ (n + 1) - 1 = n
    BY <1>1, <1>4
  <2>3. f[n] \in Seq(S) /\ f[n + 1] = IF n + 1 \in I THEN Append(f[n], list[n + 1]) ELSE f[n]
    BY <1>2, <2>2 DEF Grows
  <2>4. CASE n + 1 \notin I
    <3>1. \A p \in I : p <= n + 1 => p <= n
      BY <1>1, <2>2, <2>4
    <3>2. \A p \in I : p <= n => p <= n + 1
      BY <1>1, <2>2
    <3>3. Embeds(list, I, n + 1, f[n + 1], pos)
      BY <2>1, <2>3, <2>4, <3>1, <3>2 DEF Embeds
    <3>. QED  BY <2>2, <3>3
  <2>5. CASE n + 1 \in I
    <3>. DEFINE l == Len(f[n])
                new == [i \in 1..(l + 1) |-> IF i = l + 1 THEN n + 1 ELSE pos[i]]
    <3>1. list[n + 1] \in S /\ l \in Nat
      BY <2>2, <2>3, <2>5
    <3>2. /\ Len(f[n + 1]) = l + 1 /\ f[n + 1][l + 1] = list[n + 1]
          /\ \A i \in 1..l : f[n + 1][i] = f[n][i]
      BY <2>3, <2>5, <3>1
    <3>. HIDE DEF l
    <3>3. new[l + 1] = n + 1 /\ \A i \in 1..l : new[i] = pos[i]
      BY <3>1
    <3>. HIDE DEF new
    <3>4. \A i \in 1..l : /\ new[i] \in I /\ new[i] \in Int /\ new[i] < n + 1
                         /\ f[n + 1][i] = list[new[i]]
      <4>. SUFFICES ASSUME NEW i \in 1..l
                    PROVE  /\ new[i] \in I /\ new[i] \in Int /\ new[i] < n + 1
                           /\ f[n + 1][i] = list[new[i]]
        OBVIOUS
      <4>1. pos[i] \in I /\ pos[i] <= n /\ f[n][i] = list[pos[i]]
        BY <2>1 DEF Embeds, l
      <4>2. pos[i] \in Int /\ pos[i] < n + 1
        BY <1>1, <2>2, <4>1
      <4>. QED  BY <3>2, <3>3, <4>1, <4>2
    <3>5. \A i \in 1..(l + 1) : i = l + 1 \/ i \in 1..l
      BY <3>1
    <3>6. \A i \in 1..(l + 1) : new[i] \in I /\ new[i] <= n + 1 /\ f[n + 1][i] = list[new[i]]
      BY <2>2, <2>5, <3>2, <3>3, <3>4, <3>5
    <3>7. ASSUME NEW i \in 1..(l + 1), NEW j \in 1..(l + 1), i < j
          PROVE  new[i] < new[j]
      <4>1. i \in 1..l
        BY <3>1, <3>7
      <4>2. CASE j = l + 1
        BY <3>3, <3>4, <4>1, <4>2
      <4>3. CASE j \in 1..l
        BY <2>1, <3>3, <3>7, <4>1, <4>3 DEF Embeds, l
      <4>. QED  BY <3>5, <4>2, <4>3
    <3>8. ASSUME NEW p \in I, p <= n + 1 PROVE \E i \in 1..(l + 1) : new[i] = p
      <4>1. CASE p = n + 1
        BY <3>1, <3>3, <4>1
      <4>2. CASE p <= n
        <5>1. PICK i \in 1..l : pos[i] = p
          BY <2>1, <4>2 DEF Embeds, l
        <5>2. i \in 1..(l + 1)
          BY <3>1
        <5>. QED  BY <3>3, <5>1, <5>2
      <4>. QED  BY <1>1, <2>2, <3>8, <4>1, <4>2
    <3>9. Embeds(list, I, n + 1, f[n + 1], new)
      BY <3>2, <3>6, <3>7, <3>8 DEF Embeds
    <3>. QED  BY <2>2, <3>9
  <2>. QED  BY <2>4, <2>5
<1>5. k \in T
  <2>. HIDE DEF T
  <2>1. \A n \in 0..k : n \in T
    BY <1>1, <1>3, <1>4, UpToInduction
  <2>. QED  BY <1>1, <2>1
<1>. QED  BY <1>1, <1>2, <1>5

\* The JIDs of a list of entries.
Jids(list) == {list[i].jid : i \in DOMAIN list}

\* Of the list all is left but the entry at position p.
Drops(list, new, p) ==
  /\ Len(new) = Len(list) - 1
  /\ \A i \in 1..Len(new) : new[i] = list[IF i < p THEN i ELSE i + 1]

\* Removing at a position removes that entry.
LEMMA RemoveAtDrops ==
  ASSUME NEW S, NEW list \in Seq(S), NEW p \in 1..Len(list)
  PROVE  RemoveAt(list, p) \in Seq(S) /\ Drops(list, RemoveAt(list, p), p)
<1>. DEFINE k == Len(list)
            front == SubSeq(list, 1, p - 1)
            back == SubSeq(list, p + 1, k)
<1>1. k \in Nat /\ p \in Int /\ 1 <= p /\ p <= k
  OBVIOUS
<1>2. /\ front \in Seq(S) /\ Len(front) = p - 1
      /\ \A i \in 1..(p - 1) : front[i] = list[i]
  BY <1>1
<1>3. /\ back \in Seq(S) /\ Len(back) = k - p
      /\ \A i \in 1..(k - p) : back[i] = list[p + i]
  BY <1>1
<1>4. RemoveAt(list, p) = front \o back
  BY DEF RemoveAt
<1>. HIDE DEF k, front, back
<1>5. /\ front \o back \in Seq(S) /\ Len(front \o back) = k - 1
      /\ \A i \in 1..(k - 1) :
           (front \o back)[i] = IF i <= p - 1 THEN front[i] ELSE back[i - (p - 1)]
  <2>1. /\ front \o back \in Seq(S) /\ Len(front \o back) = Len(front) + Len(back)
        /\ \A i \in 1..(Len(front) + Len(back)) :
             (front \o back)[i] = IF i <= Len(front) THEN front[i] ELSE back[i - Len(front)]
    BY <1>2, <1>3, ConcatProperties
  <2>2. Len(front) + Len(back) = k - 1
    BY <1>1, <1>2, <1>3
  <2>. QED  BY <1>2, <2>1, <2>2
<1>6. ASSUME NEW i \in 1..(k - 1)
      PROVE  (front \o back)[i] = list[IF i < p THEN i ELSE i + 1]
  <2>1. CASE i < p
    BY <1>1, <1>2, <1>5, <2>1
  <2>2. CASE ~(i < p)
    <3>1. i - (p - 1) \in 1..(k - p) /\ p + (i - (p - 1)) = i + 1 /\ ~(i <= p - 1)
      BY <1>1, <2>2
    <3>. QED  BY <1>3, <1>5, <2>2, <3>1
  <2>. QED  BY <2>1, <2>2
<1>. QED  BY <1>4, <1>5, <1>6 DEF Drops, k

\* Ack and RemoveFromRetry remove one entry on the JID, if there is one.
LEMMA WithoutDrops ==
  ASSUME NEW S, NEW list \in Seq(S), NEW jid
  PROVE  /\ Without(list, jid) \in Seq(S)
         /\ \/ (\A i \in 1..Len(list) : list[i].jid # jid) /\ Without(list, jid) = list
            \/ \E p \in 1..Len(list) :
                 list[p].jid = jid /\ Drops(list, Without(list, jid), p)
<1>. DEFINE I == {i \in 1..Len(list) : list[i].jid = jid}
<1>1. CASE I = {}
  BY <1>1 DEF Without, RemoveFirstMatch
<1>2. CASE I # {}
  <2>1. I \in SUBSET Nat
    OBVIOUS
  <2>2. PICK m \in I : \A n \in I : m <= n
    <3>. HIDE DEF I
    <3>. QED  BY <1>2, <2>1, LeastNumber
  <2>3. Min(I) \in I
    <3>. HIDE DEF I
    <3>. QED  BY <2>2 DEF Min
  <2>4. Without(list, jid) = RemoveAt(list, Min(I))
    BY <1>2 DEF Without, RemoveFirstMatch, SelectInSeq
  <2>. QED  BY <2>3, <2>4, RemoveAtDrops
<1>. QED  BY <1>1, <1>2

\* What Append does to the JIDs of a list.
LEMMA AppendSets ==
  ASSUME NEW S, NEW list \in Seq(S), NEW x \in S
  PROVE  /\ ToSet(Append(list, x)) = ToSet(list) \cup {x}
         /\ Jids(Append(list, x)) = Jids(list) \cup {x.jid}
<1>. DEFINE new == Append(list, x)
            k == Len(list)
<1>1. /\ new[k + 1] = x /\ \A i \in 1..k : new[i] = list[i]
      /\ DOMAIN new = 1..(k + 1) /\ DOMAIN list = 1..k /\ k \in Nat
  OBVIOUS
<1>2. \A i : i \in 1..(k + 1) <=> (i \in 1..k \/ i = k + 1)
  BY <1>1
<1>. HIDE DEF new, k
<1>3. ToSet(new) = ToSet(list) \cup {x}
  BY <1>1, <1>2 DEF ToSet
<1>4. Jids(new) = Jids(list) \cup {x.jid}
  BY <1>1, <1>2 DEF Jids
<1>. QED  BY <1>3, <1>4 DEF new

\* What a removal does to them.
LEMMA DropSets ==
  ASSUME NEW S, NEW list \in Seq(S), NEW new \in Seq(S), NEW p \in 1..Len(list), Drops(list, new, p)
  PROVE  /\ ToSet(list) = ToSet(new) \cup {list[p]}
         /\ Jids(list) = Jids(new) \cup {list[p].jid}
<1>. DEFINE k == Len(list)
            D == DOMAIN list
            E == DOMAIN new
<1>1. /\ k \in Nat /\ p \in Int /\ 1 <= p /\ p <= k
      /\ D = 1..k /\ E = 1..(k - 1) /\ Len(new) = k - 1
  BY DEF Drops
<1>2. ASSUME NEW j \in E
      PROVE  new[j] = list[IF j < p THEN j ELSE j + 1]
  BY <1>1, <1>2 DEF Drops
<1>. HIDE DEF k, D, E
<1>3. ASSUME NEW i \in D, i # p
      PROVE  \E j \in E : new[j] = list[i]
  <2>1. CASE i < p
    <3>1. i \in E
      BY <1>1, <2>1
    <3>2. new[i] = list[i]
      BY <1>2, <2>1, <3>1
    <3>. QED  BY <3>1, <3>2
  <2>2. CASE i > p
    <3>1. i - 1 \in E /\ ~(i - 1 < p) /\ (i - 1) + 1 = i
      BY <1>1, <2>2
    <3>2. new[i - 1] = list[i]
      BY <1>2, <3>1
    <3>. QED  BY <3>1, <3>2
  <2>. QED  BY <1>1, <1>3, <2>1, <2>2
<1>4. ASSUME NEW j \in E
      PROVE  \E i \in D : new[j] = list[i]
  <2>1. j \in D /\ j + 1 \in D
    BY <1>1
  <2>. QED  BY <1>2, <2>1
<1>5. p \in D
  BY <1>1
<1>6. ToSet(list) = ToSet(new) \cup {list[p]}
  BY <1>3, <1>4, <1>5 DEF ToSet, D, E
<1>7. Jids(list) = Jids(new) \cup {list[p].jid}
  BY <1>3, <1>4, <1>5 DEF Jids, D, E
<1>. QED  BY <1>6, <1>7

\* What Tail does to them.
LEMMA TailSets ==
  ASSUME NEW S, NEW list \in Seq(S), list # <<>>
  PROVE  /\ Head(list) \in S /\ Tail(list) \in Seq(S)
         /\ Drops(list, Tail(list), 1) /\ Head(list) = list[1] /\ 1 \in 1..Len(list)
         /\ ToSet(list) = ToSet(Tail(list)) \cup {Head(list)}
<1>1. /\ Tail(list) \in Seq(S) /\ Head(list) = list[1] /\ Head(list) \in S
      /\ Len(Tail(list)) = Len(list) - 1 /\ 1 \in 1..Len(list)
      /\ \A i \in 1..Len(Tail(list)) : Tail(list)[i] = list[i + 1]
  <2>1. Len(list) \in Nat \ {0} /\ Head(list) = list[1]
    BY EmptySeq
  <2>. QED  BY <2>1, HeadTailProperties
<1>2. Drops(list, Tail(list), 1)
  <2>1. \A i \in 1..Len(Tail(list)) : (IF i < 1 THEN i ELSE i + 1) = i + 1
    BY <1>1
  <2>. QED  BY <1>1, <2>1 DEF Drops
<1>3. ToSet(list) = ToSet(Tail(list)) \cup {list[1]}
  <2>. DEFINE tail == Tail(list)
  <2>1. tail \in Seq(S) /\ Drops(list, tail, 1) /\ 1 \in 1..Len(list)
    BY <1>1, <1>2
  <2>. HIDE DEF tail
  <2>2. ToSet(list) = ToSet(tail) \cup {list[1]}
    BY <2>1, DropSets
  <2>. QED  BY <2>2 DEF tail
<1>. QED  BY <1>1, <1>2, <1>3

\* What Without does to them.
LEMMA WithoutSets ==
  ASSUME NEW S, NEW list \in Seq(S), NEW jid
  PROVE  /\ Jids(Without(list, jid)) \subseteq Jids(list)
         /\ Jids(list) \subseteq Jids(Without(list, jid)) \cup {jid}
BY WithoutDrops, DropSets

\* A flag that changes changes none of them.
LEMMA FlagSets ==
  ASSUME NEW list, NEW new, DOMAIN new = DOMAIN list,
         \A i \in DOMAIN list : new[i].jid = list[i].jid
  PROVE  Jids(new) = Jids(list)
BY DEF Jids

\* The JIDs of a sublist are those at its positions.
LEMMA SublistSets ==
  ASSUME NEW S, NEW list \in Seq(S), NEW I \in SUBSET (1..Len(list))
  PROVE  Jids(Sublist(list, I)) = {list[i].jid : i \in I}
<1>. DEFINE part == Sublist(list, I)
<1>1. part \in Seq(S)
  BY SublistEmbeds
<1>2. PICK pos : Embeds(list, I, Len(list), part, pos)
  BY SublistEmbeds
<1>3. DOMAIN part = 1..Len(part)
  BY <1>1
<1>4. \A p \in I : p <= Len(list)
  OBVIOUS
<1>. HIDE DEF part
<1>5. \A i \in DOMAIN part : pos[i] \in I /\ part[i] = list[pos[i]]
  BY <1>2, <1>3 DEF Embeds
<1>6. \A p \in I : \E i \in DOMAIN part : pos[i] = p
  BY <1>2, <1>3, <1>4 DEF Embeds
<1>7. Jids(part) = {list[i].jid : i \in I}
  BY <1>5, <1>6 DEF Jids
<1>. QED  BY <1>7 DEF part

-----------------------------------------------------------------------------
(* The calls of the broker. *)

\* Every list holds jobs that the client has enqueued.
BrokerType ==
  /\ queue \in Seq(accepted) /\ dead \in Seq(accepted)
  /\ processing \in Seq([jid : accepted, expired : BOOLEAN])
  /\ retry \in Seq([jid : accepted, due : BOOLEAN])
  /\ processed \in Nat /\ failed \in Nat

InQueue == ToSet(queue)
InRetry == Jids(retry)
InDead == ToSet(dead)
Leased == Jids(processing)

\* The lists stay as they are.
LEMMA BrokerIdles ==
  ASSUME BrokerType, accepted' = accepted, UNCHANGED brokerVars
  PROVE  BrokerType' /\ UNCHANGED <<InQueue, InRetry, InDead, Leased>>
BY DEF BrokerType, brokerVars, InQueue, InRetry, InDead, Leased

\* Enqueue adds its job to the queue.
LEMMA EnqueueDoes ==
  ASSUME BrokerType, accepted' = accepted, NEW jid \in accepted, Enqueue(jid)
  PROVE  /\ BrokerType' /\ InQueue' = InQueue \cup {jid}
         /\ UNCHANGED <<InRetry, InDead, Leased>>
<1>1. queue' = Append(queue, jid) /\ UNCHANGED <<processing, retry, dead, processed, failed>>
  BY DEF Enqueue
<1>2. InQueue' = InQueue \cup {jid}
  BY <1>1, AppendSets DEF BrokerType, InQueue
<1>. QED  BY <1>1, <1>2 DEF BrokerType, InRetry, InDead, Leased

\* Dequeue moves a job from the queue to the processing list.
LEMMA DequeueDoes ==
  ASSUME BrokerType, accepted' = accepted, Dequeue
  PROVE  /\ BrokerType' /\ Head(queue) \in accepted
         /\ InQueue = InQueue' \cup {Head(queue)} /\ Leased' = Leased \cup {Head(queue)}
         /\ UNCHANGED <<InRetry, InDead>>
<1>. DEFINE jid == Head(queue)
            entry == [jid |-> jid, expired |-> FALSE]
<1>1. /\ queue # <<>> /\ queue' = Tail(queue) /\ processing' = Append(processing, entry)
      /\ UNCHANGED <<retry, dead, processed, failed>>
  BY DEF Dequeue
<1>2. /\ jid \in accepted /\ Tail(queue) \in Seq(accepted)
      /\ ToSet(queue) = ToSet(Tail(queue)) \cup {jid}
  BY <1>1, TailSets DEF BrokerType
<1>3. entry \in [jid : accepted, expired : BOOLEAN] /\ entry.jid = jid
  BY <1>2
<1>. HIDE DEF entry, jid
<1>4. Leased' = Leased \cup {jid}
  <2>. DEFINE S == [jid : accepted, expired : BOOLEAN]
  <2>1. processing \in Seq(S) /\ entry \in S
    BY <1>3 DEF BrokerType
  <2>. HIDE DEF S
  <2>2. Jids(Append(processing, entry)) = Jids(processing) \cup {entry.jid}
    BY <2>1, AppendSets
  <2>. QED  BY <1>1, <1>3, <2>2 DEF Leased
<1>5. processing' \in Seq([jid : accepted, expired : BOOLEAN])
  BY <1>1, <1>3 DEF BrokerType
<1>6. InQueue = InQueue' \cup {jid}
  BY <1>1, <1>2 DEF InQueue
<1>7. BrokerType'
  BY <1>1, <1>2, <1>5 DEF BrokerType
<1>. QED  BY <1>1, <1>2, <1>4, <1>6, <1>7 DEF InRetry, InDead, jid

\* Ack takes a lease on its JID, and nothing else.
LEMMA AckDoes ==
  ASSUME BrokerType, accepted' = accepted, NEW jid, Ack(jid)
  PROVE  /\ BrokerType' /\ Leased' \subseteq Leased /\ Leased \subseteq Leased' \cup {jid}
         /\ UNCHANGED <<InQueue, InRetry, InDead>>
<1>1. /\ processing' = Without(processing, jid)
      /\ UNCHANGED <<queue, retry, dead, processed, failed>>
  BY DEF Ack
<1>2. Without(processing, jid) \in Seq([jid : accepted, expired : BOOLEAN])
  BY WithoutDrops DEF BrokerType
<1>3. Leased' \subseteq Leased /\ Leased \subseteq Leased' \cup {jid}
  BY <1>1, WithoutSets DEF BrokerType, Leased
<1>. QED  BY <1>1, <1>2, <1>3 DEF BrokerType, InQueue, InRetry, InDead

\* The reaper's call moves the expired leases to its batch.
LEMMA ReapDoes ==
  ASSUME BrokerType, accepted' = accepted, ReapOrphanedJobs
  PROVE  /\ BrokerType' /\ Orphans \in Seq(accepted) /\ Leased = Leased' \cup ToSet(Orphans)
         /\ UNCHANGED <<InQueue, InRetry, InDead>>
<1>. DEFINE S == [jid : accepted, expired : BOOLEAN]
            old == Sublist(processing, Expired)
            new == Sublist(processing, DOMAIN processing \ Expired)
<1>1. processing \in Seq(S) /\ DOMAIN processing = 1..Len(processing)
  BY DEF BrokerType
<1>2. Expired \in SUBSET (DOMAIN processing)
  BY DEF Expired
<1>. HIDE DEF S
<1>3. old \in Seq(S) /\ new \in Seq(S)
  BY <1>1, <1>2, SublistEmbeds
<1>4. /\ Jids(old) = {processing[i].jid : i \in Expired}
      /\ Jids(new) = {processing[i].jid : i \in DOMAIN processing \ Expired}
  BY <1>1, <1>2, SublistSets
<1>. HIDE DEF old, new
<1>5. Jids(processing) = Jids(new) \cup Jids(old)
  <2>1. Jids(processing) = {processing[i].jid : i \in DOMAIN processing}
    BY DEF Jids
  <2>. QED  BY <1>2, <1>4, <2>1
<1>6. Orphans = [i \in DOMAIN old |-> old[i].jid]
  BY DEF Orphans, old
<1>7. ToSet(Orphans) = Jids(old)
  BY <1>6 DEF ToSet, Jids
<1>8. Orphans \in Seq(accepted)
  <2>1. DOMAIN old = 1..Len(old) /\ Len(old) \in Nat /\ \A i \in DOMAIN old : old[i] \in S
    BY <1>3
  <2>2. \A i \in DOMAIN old : old[i].jid \in accepted
    BY <2>1 DEF S
  <2>. QED  BY <1>6, <2>1, <2>2
<1>9. processing' = new /\ UNCHANGED <<queue, retry, dead, processed, failed>>
  BY DEF ReapOrphanedJobs, new
<1>10. BrokerType'
  BY <1>3, <1>9 DEF BrokerType, S
<1>. QED  BY <1>5, <1>7, <1>8, <1>9, <1>10 DEF InQueue, InRetry, InDead, Leased

\* The retry loop's batch is of jobs in the retry list.
LEMMA RetryJobsDo ==
  ASSUME BrokerType, NEW limit \in Nat
  PROVE  RetryJobs(limit) \in Seq(accepted) /\ ToSet(RetryJobs(limit)) \subseteq InRetry
<1>. DEFINE S == [jid : accepted, due : BOOLEAN]
            I == {i \in DOMAIN retry : retry[i].due}
            due == Sublist(retry, I)
            n == IF Len(due) < limit THEN Len(due) ELSE limit
<1>1. retry \in Seq(S) /\ I \in SUBSET (1..Len(retry)) /\ DOMAIN retry = 1..Len(retry)
  BY DEF BrokerType
<1>. HIDE DEF S, I
<1>2. due \in Seq(S) /\ Jids(due) = {retry[i].jid : i \in I}
  BY <1>1, SublistEmbeds, SublistSets
<1>3. RetryJobs(limit) = [i \in 1..n |-> due[i].jid]
  BY DEF RetryJobs, Due, I
<1>. HIDE DEF due
<1>4. n \in Nat /\ \A i \in 1..n : i \in DOMAIN due
  BY <1>2
<1>. HIDE DEF n
<1>5. \A i \in 1..n : due[i].jid \in accepted /\ due[i].jid \in Jids(due)
  <2>1. \A i \in 1..n : due[i] \in S
    BY <1>2, <1>4
  <2>. QED  BY <1>4, <2>1 DEF S, Jids
<1>6. RetryJobs(limit) \in Seq(accepted)
  BY <1>3, <1>4, <1>5
<1>7. ToSet(RetryJobs(limit)) \subseteq Jids(due)
  BY <1>3, <1>5 DEF ToSet
<1>8. Jids(due) \subseteq InRetry
  BY <1>1, <1>2 DEF InRetry, Jids
<1>. QED  BY <1>6, <1>7, <1>8

\* AddToRetry adds its job to the retry list.
LEMMA AddToRetryDoes ==
  ASSUME BrokerType, accepted' = accepted, NEW jid \in accepted, AddToRetry(jid)
  PROVE  /\ BrokerType' /\ InRetry' = InRetry \cup {jid}
         /\ UNCHANGED <<InQueue, InDead, Leased>>
<1>. DEFINE entry == [jid |-> jid, due |-> FALSE]
<1>1. retry' = Append(retry, entry) /\ UNCHANGED <<queue, processing, dead, processed, failed>>
  BY DEF AddToRetry
<1>2. entry \in [jid : accepted, due : BOOLEAN] /\ entry.jid = jid
  OBVIOUS
<1>. HIDE DEF entry
<1>3. InRetry' = InRetry \cup {jid}
  <2>. DEFINE S == [jid : accepted, due : BOOLEAN]
  <2>1. retry \in Seq(S) /\ entry \in S
    BY <1>2 DEF BrokerType
  <2>. HIDE DEF S
  <2>2. Jids(Append(retry, entry)) = Jids(retry) \cup {entry.jid}
    BY <2>1, AppendSets
  <2>. QED  BY <1>1, <1>2, <2>2 DEF InRetry
<1>4. BrokerType'
  BY <1>1, <1>2 DEF BrokerType
<1>. QED  BY <1>1, <1>3, <1>4 DEF InQueue, InDead, Leased

\* RemoveFromRetry removes its job, and no other.
LEMMA RemoveFromRetryDoes ==
  ASSUME BrokerType, accepted' = accepted, NEW jid, RemoveFromRetry(jid)
  PROVE  /\ BrokerType' /\ InRetry' \subseteq InRetry /\ InRetry \subseteq InRetry' \cup {jid}
         /\ UNCHANGED <<InQueue, InDead, Leased>>
<1>1. /\ retry' = Without(retry, jid)
      /\ UNCHANGED <<queue, processing, dead, processed, failed>>
  BY DEF RemoveFromRetry
<1>2. Without(retry, jid) \in Seq([jid : accepted, due : BOOLEAN])
  BY WithoutDrops DEF BrokerType
<1>3. InRetry' \subseteq InRetry /\ InRetry \subseteq InRetry' \cup {jid}
  BY <1>1, WithoutSets DEF BrokerType, InRetry
<1>. QED  BY <1>1, <1>2, <1>3 DEF BrokerType, InQueue, InDead, Leased

\* AddToDead adds its job to the dead list.
LEMMA AddToDeadDoes ==
  ASSUME BrokerType, accepted' = accepted, NEW jid \in accepted, AddToDead(jid)
  PROVE  /\ BrokerType' /\ InDead' = InDead \cup {jid}
         /\ UNCHANGED <<InQueue, InRetry, Leased>>
<1>1. dead' = Append(dead, jid) /\ UNCHANGED <<queue, processing, retry, processed, failed>>
  BY DEF AddToDead
<1>2. InDead' = InDead \cup {jid}
  BY <1>1, AppendSets DEF BrokerType, InDead
<1>. QED  BY <1>1, <1>2 DEF BrokerType, InQueue, InRetry, Leased

\* Statistics and Close touch no list, and DeleteKey empties the queue.
LEMMA CountersDo ==
  ASSUME BrokerType, accepted' = accepted, RecordSuccess \/ RecordFailure \/ Close
  PROVE  BrokerType' /\ UNCHANGED <<InQueue, InRetry, InDead, Leased>>
<1>1. /\ UNCHANGED <<queue, processing, retry, dead>>
      /\ processed' \in Nat /\ failed' \in Nat
  BY DEF BrokerType, RecordSuccess, RecordFailure, Close
<1>. QED  BY <1>1 DEF BrokerType, InQueue, InRetry, InDead, Leased

\* DeleteKey empties the queue.
LEMMA DeleteKeyDoes ==
  ASSUME BrokerType, accepted' = accepted, DeleteKey
  PROVE  BrokerType' /\ InQueue' = {} /\ UNCHANGED <<InRetry, InDead, Leased>>
<1>1. queue' = <<>> /\ UNCHANGED <<processing, retry, dead, processed, failed>>
  BY DEF DeleteKey
<1>2. InQueue' = {}
  BY <1>1 DEF InQueue, ToSet
<1>. QED  BY <1>1, <1>2 DEF BrokerType, InRetry, InDead, Leased

\* A flag of an entry changes, and neither the number nor the JIDs of the entries.
LEMMA FlagsDo ==
  ASSUME BrokerType, accepted' = accepted, LeaseExpires \/ RetryFallsDue
  PROVE  BrokerType' /\ UNCHANGED <<InQueue, InRetry, InDead, Leased>>
<1>1. CASE LeaseExpires
  <2>1. PICK i \in DOMAIN processing : processing' = [processing EXCEPT ![i].expired = TRUE]
    BY <1>1 DEF LeaseExpires
  <2>2. UNCHANGED <<queue, retry, dead, processed, failed>>
    BY <1>1 DEF LeaseExpires
  <2>3. /\ processing' \in Seq([jid : accepted, expired : BOOLEAN])
        /\ DOMAIN processing' = DOMAIN processing
        /\ \A k \in DOMAIN processing : processing'[k].jid = processing[k].jid
    <3>. DEFINE S == [jid : accepted, expired : BOOLEAN]
                entry == [processing[i] EXCEPT !.expired = TRUE]
    <3>1. processing \in Seq(S) /\ processing[i] \in S
      <4>1. processing \in Seq(S)
        BY DEF BrokerType
      <4>. HIDE DEF S
      <4>. QED  BY <4>1
    <3>2. entry \in S /\ entry.jid = processing[i].jid
      BY <3>1
    <3>3. processing' = [processing EXCEPT ![i] = entry]
      BY <2>1
    <3>. HIDE DEF S, entry
    <3>4. processing' \in Seq(S) /\ DOMAIN processing' = DOMAIN processing
      BY <3>1, <3>2, <3>3
    <3>5. \A k \in DOMAIN processing : processing'[k] = IF k = i THEN entry ELSE processing[k]
      BY <3>3
    <3>. QED  BY <3>2, <3>4, <3>5 DEF S
  <2>4. Leased' = Leased
    BY <2>3, FlagSets DEF Leased
  <2>. QED  BY <2>2, <2>3, <2>4 DEF BrokerType, InQueue, InRetry, InDead
<1>2. CASE RetryFallsDue
  <2>1. PICK i \in DOMAIN retry : retry' = [retry EXCEPT ![i].due = TRUE]
    BY <1>2 DEF RetryFallsDue
  <2>2. UNCHANGED <<queue, processing, dead, processed, failed>>
    BY <1>2 DEF RetryFallsDue
  <2>3. /\ retry' \in Seq([jid : accepted, due : BOOLEAN])
        /\ DOMAIN retry' = DOMAIN retry
        /\ \A k \in DOMAIN retry : retry'[k].jid = retry[k].jid
    <3>. DEFINE S == [jid : accepted, due : BOOLEAN]
                entry == [retry[i] EXCEPT !.due = TRUE]
    <3>1. retry \in Seq(S) /\ retry[i] \in S
      <4>1. retry \in Seq(S)
        BY DEF BrokerType
      <4>. HIDE DEF S
      <4>. QED  BY <4>1
    <3>2. entry \in S /\ entry.jid = retry[i].jid
      BY <3>1
    <3>3. retry' = [retry EXCEPT ![i] = entry]
      BY <2>1
    <3>. HIDE DEF S, entry
    <3>4. retry' \in Seq(S) /\ DOMAIN retry' = DOMAIN retry
      BY <3>1, <3>2, <3>3
    <3>5. \A k \in DOMAIN retry : retry'[k] = IF k = i THEN entry ELSE retry[k]
      BY <3>3
    <3>. QED  BY <3>2, <3>4, <3>5 DEF S
  <2>4. InRetry' = InRetry
    BY <2>3, FlagSets DEF InRetry
  <2>. QED  BY <2>2, <2>3, <2>4 DEF BrokerType, InQueue, InDead, Leased
<1>. QED  BY <1>1, <1>2

-----------------------------------------------------------------------------
(* Types. *)

Active == {"perform", "postpone", "count", "schedule"}

Job == accepted \cup {NoJob}

JobsType ==
  /\ budget \in [JIDs -> Nat] /\ retryCount \in [JIDs -> Nat] /\ failures \in [JIDs -> Nat]
  /\ accepted \subseteq JIDs /\ succeeded \subseteq accepted /\ cleared \subseteq accepted
  /\ slow \in Nat

FetcherType ==
  /\ fetcher \in [pc : {"top", "poll", "send", "ack", "exited"}, job : Job]
  /\ fetcher.pc \in {"send", "ack"} <=> fetcher.job # NoJob

WorkerRecord(r) ==
  /\ r \in [pc : Active \cup {"idle", "ack", "exited"}, job : Job, count : Nat]
  /\ r.pc \in {"idle", "exited"} <=> r.job = NoJob

WorkersType ==
  worker = [w \in Workers |-> worker[w]] /\ \A w \in Workers : WorkerRecord(worker[w])

RetrierType ==
  /\ retrier \in [pc : {"loop", "enqueue", "count", "fallback", "exited"}, job : Job,
                  count : Nat, batch : Seq(accepted)]
  /\ retrier.pc \in {"enqueue", "count", "fallback"} <=> retrier.job # NoJob

ReaperType == reaper \in [pc : {"loop", "exited"}, batch : Seq(accepted)]

StatusType == status \in {"running", "stopping", "stopped"}

TypeInv ==
  BrokerType /\ JobsType /\ FetcherType /\ WorkersType /\ RetrierType /\ ReaperType /\ StatusType

\* What goroutines hold: the jobs they have yet to perform or to store.
FetcherHolds == IF fetcher.pc = "send" THEN {fetcher.job} ELSE {}
WorkersHold == {worker[w].job : w \in {x \in Workers : worker[x].pc \in Active}}
RetrierHolds == IF retrier.job = NoJob THEN {} ELSE {retrier.job}

\* NoJob is not a job.
LEMMA NoJobIsNone ==
  ASSUME JobsType
  PROVE  NoJob \notin accepted
BY MemoryAssumption DEF JobsType

\* A step of the fetcher.
LEMMA FetcherGoesTo ==
  ASSUME accepted' = accepted, JobsType,
         NEW pc \in {"top", "poll", "send", "ack", "exited"}, NEW jid \in Job,
         pc \in {"send", "ack"} <=> jid # NoJob, FetcherGoes(pc, jid)
  PROVE  /\ FetcherType' /\ FetcherHolds' = (IF pc = "send" THEN {jid} ELSE {})
         /\ fetcher'.pc = pc /\ fetcher'.job = jid
<1>1. fetcher' = [pc |-> pc, job |-> jid]
  BY DEF FetcherGoes
<1>2. fetcher'.pc = pc /\ fetcher'.job = jid
  BY <1>1
<1>3. fetcher' \in [pc : {"top", "poll", "send", "ack", "exited"}, job : Job]
  BY <1>1
<1>4. Job' = Job
  BY DEF Job
<1>. QED  BY <1>2, <1>3, <1>4 DEF FetcherType, FetcherHolds

\* A step of a worker.
LEMMA WorkerGoesTo ==
  ASSUME accepted' = accepted, WorkersType, NEW w \in Workers,
         NEW pc \in Active \cup {"idle", "ack", "exited"}, NEW jid \in Job, NEW count \in Nat,
         pc \in {"idle", "exited"} <=> jid = NoJob, WorkerGoes(w, pc, jid, count)
  PROVE  /\ WorkersType'
         /\ worker'[w].pc = pc /\ worker'[w].job = jid /\ worker'[w].count = count
         /\ \A v \in Workers : v # w => worker'[v] = worker[v]
<1>. DEFINE new == [pc |-> pc, job |-> jid, count |-> count]
<1>1. worker' = [worker EXCEPT ![w] = new]
  BY DEF WorkerGoes
<1>2. /\ new \in [pc : Active \cup {"idle", "ack", "exited"}, job : Job, count : Nat]
      /\ new.pc = pc /\ new.job = jid /\ new.count = count
  OBVIOUS
<1>3. WorkerRecord(new)
  BY <1>2 DEF WorkerRecord
<1>. HIDE DEF new
<1>4. worker' = [v \in Workers |-> IF v = w THEN new ELSE worker[v]]
  BY <1>1 DEF WorkersType
<1>5. \A r : WorkerRecord(r)' <=> WorkerRecord(r)
  BY DEF WorkerRecord, Job
<1>6. \A v \in Workers : WorkerRecord(worker'[v])
  BY <1>3, <1>4 DEF WorkersType
<1>7. worker' = [v \in Workers |-> worker'[v]]
  BY <1>4
<1>8. WorkersType'
  BY <1>6, <1>7 DEF WorkersType, WorkerRecord, Job
<1>. QED  BY <1>2, <1>4, <1>8

\* A worker that goes on with its job, sets it down or takes one up.
LEMMA WorkerHolds ==
  ASSUME WorkersType, NEW w \in Workers,
         \A v \in Workers : v # w => worker'[v] = worker[v]
  PROVE  /\ worker[w].pc \in Active /\ worker'[w].pc \in Active /\ worker'[w].job = worker[w].job
            => WorkersHold' = WorkersHold
         /\ worker'[w].pc \notin Active
            => WorkersHold' \subseteq WorkersHold /\ WorkersHold \subseteq WorkersHold' \cup {worker[w].job}
         /\ worker[w].pc \notin Active /\ worker'[w].pc \notin Active
            => WorkersHold' = WorkersHold
         /\ worker[w].pc \notin Active /\ worker'[w].pc \in Active
            => WorkersHold' = WorkersHold \cup {worker'[w].job}
<1>1. \A j : j \in WorkersHold <=> \E v \in Workers : worker[v].pc \in Active /\ worker[v].job = j
  BY DEF WorkersHold
<1>2. \A j : j \in WorkersHold' <=> \E v \in Workers : worker'[v].pc \in Active /\ worker'[v].job = j
  BY DEF WorkersHold, Active
<1>3. ASSUME worker[w].pc \in Active, worker'[w].pc \in Active, worker'[w].job = worker[w].job
      PROVE  WorkersHold' = WorkersHold
  <2>1. \A j : j \in WorkersHold' <=> j \in WorkersHold
    BY <1>1, <1>2, <1>3
  <2>. QED  BY <2>1
<1>4. ASSUME worker'[w].pc \notin Active
      PROVE  WorkersHold' \subseteq WorkersHold /\ WorkersHold \subseteq WorkersHold' \cup {worker[w].job}
  BY <1>1, <1>2, <1>4
<1>5. ASSUME worker[w].pc \notin Active, worker'[w].pc \notin Active
      PROVE  WorkersHold' = WorkersHold
  <2>1. \A j : j \in WorkersHold' <=> j \in WorkersHold
    BY <1>1, <1>2, <1>5
  <2>. QED  BY <2>1
<1>6. ASSUME worker[w].pc \notin Active, worker'[w].pc \in Active
      PROVE  WorkersHold' = WorkersHold \cup {worker'[w].job}
  <2>1. \A j : j \in WorkersHold' <=> (j \in WorkersHold \/ j = worker'[w].job)
    BY <1>1, <1>2, <1>6
  <2>. QED  BY <2>1
<1>. QED  BY <1>3, <1>4, <1>5, <1>6

\* A step of the retry loop.
LEMMA RetrierGoesTo ==
  ASSUME accepted' = accepted, JobsType,
         NEW pc \in {"loop", "enqueue", "count", "fallback", "exited"}, NEW jid \in Job,
         NEW count \in Nat, NEW batch \in Seq(accepted),
         pc \in {"enqueue", "count", "fallback"} <=> jid # NoJob,
         RetrierGoes(pc, jid, count, batch)
  PROVE  /\ RetrierType' /\ RetrierHolds' = (IF jid = NoJob THEN {} ELSE {jid})
         /\ retrier'.pc = pc /\ retrier'.job = jid /\ retrier'.count = count
         /\ retrier'.batch = batch
<1>1. retrier' = [pc |-> pc, job |-> jid, count |-> count, batch |-> batch]
  BY DEF RetrierGoes
<1>2. /\ retrier'.pc = pc /\ retrier'.job = jid /\ retrier'.count = count
      /\ retrier'.batch = batch
  BY <1>1
<1>3. retrier' \in [pc : {"loop", "enqueue", "count", "fallback", "exited"}, job : Job,
                    count : Nat, batch : Seq(accepted)]
  BY <1>1
<1>4. Job' = Job
  BY DEF Job
<1>. QED  BY <1>2, <1>3, <1>4 DEF RetrierType, RetrierHolds

\* What a step does not touch keeps its type and what it holds.
LEMMA SameFetcher ==
  ASSUME FetcherType, accepted' = accepted, fetcher' = fetcher
  PROVE  FetcherType' /\ FetcherHolds' = FetcherHolds
BY DEF FetcherType, FetcherHolds, Job

\* The same for the workers.
LEMMA SameWorkers ==
  ASSUME WorkersType, accepted' = accepted, worker' = worker
  PROVE  WorkersType' /\ WorkersHold' = WorkersHold
BY DEF WorkersType, WorkerRecord, WorkersHold, Job, Active

\* The same for the retry loop.
LEMMA SameRetrier ==
  ASSUME RetrierType, accepted' = accepted, retrier' = retrier
  PROVE  RetrierType' /\ RetrierHolds' = RetrierHolds
BY DEF RetrierType, RetrierHolds, Job

\* The same for the reaper.
LEMMA SameReaper ==
  ASSUME ReaperType, accepted' = accepted, reaper' = reaper
  PROVE  ReaperType'
BY DEF ReaperType

\* The same for the jobs.
LEMMA SameJobs ==
  ASSUME JobsType, UNCHANGED <<budget, retryCount, history>>
  PROVE  JobsType' /\ UNCHANGED <<accepted, succeeded, cleared>>
BY DEF JobsType, history

-----------------------------------------------------------------------------
(* Steps, by what they do to the jobs. *)

Holds == FetcherHolds \cup WorkersHold \cup RetrierHolds

\* Where a job is not lost. A lease is no such place: its job may have been settled by
\* somebody else; nor is a batch.
Safe == InQueue \cup InRetry \cup InDead \cup Holds \cup succeeded \cup cleared

Present == InQueue \cup InRetry \cup Leased \cup Holds
           \cup ToSet(retrier.batch) \cup ToSet(reaper.batch)

\* No job is lost, and of the jobs that are present at most those in jids go.
Goes(jids) ==
  Safe \subseteq Safe' /\ Present' \subseteq Present /\ Present \subseteq Present' \cup jids

Moves == UNCHANGED <<accepted, succeeded, cleared, InDead>> /\ \E jid : Goes({jid})

Performs ==
  \E jid \in Present : /\ succeeded' = succeeded \cup {jid} /\ Goes({jid})
                       /\ UNCHANGED <<accepted, cleared, InDead>>

Buries ==
  \E jid \in Present : /\ InDead' = InDead \cup {jid} /\ Goes({jid})
                       /\ UNCHANGED <<accepted, succeeded, cleared>>

Clears == /\ cleared' = cleared \cup InQueue /\ Goes(InQueue)
          /\ UNCHANGED <<accepted, succeeded, InDead>>

Accepts ==
  \E jid \in JIDs : /\ jid \notin accepted /\ accepted' = accepted \cup {jid}
                    /\ Safe' = Safe \cup {jid} /\ Present' = Present \cup {jid}
                    /\ UNCHANGED <<succeeded, cleared, InDead>>

\* The fetcher moves jobs.
LEMMA FetcherDoes ==
  ASSUME TypeInv, Fetcher
  PROVE  TypeInv' /\ Moves
<1>1. BrokerType /\ JobsType /\ FetcherType /\ WorkersType /\ RetrierType /\ ReaperType /\ StatusType
  BY DEF TypeInv
<1>2. /\ UNCHANGED <<budget, retryCount, status, retrier, reaper, history>>
      /\ accepted' = accepted
  BY DEF Fetcher, FetcherTop, FetcherPoll, FetcherSend, FetcherHandBack, FetcherAck, history
<1>3. /\ JobsType' /\ RetrierType' /\ ReaperType' /\ StatusType'
      /\ UNCHANGED <<accepted, succeeded, cleared, RetrierHolds>>
      /\ ToSet(retrier.batch)' = ToSet(retrier.batch) /\ ToSet(reaper.batch)' = ToSet(reaper.batch)
  BY <1>1, <1>2, SameJobs, SameRetrier, SameReaper DEF StatusType
<1>4. NoJob \in Job /\ fetcher.job \in Job /\ NoJob \notin accepted
      /\ (fetcher.pc \in {"send", "ack"} => fetcher.job \in accepted)
  BY <1>1, NoJobIsNone DEF FetcherType, Job
<1>5. CASE FetcherTop
  <2>1. PICK pc \in {"exited", "poll"} : FetcherGoes(pc, NoJob)
    BY <1>5 DEF FetcherTop
  <2>2. FetcherType' /\ FetcherHolds' = {} /\ FetcherHolds = {}
    BY <1>1, <1>2, <1>4, <1>5, <2>1, FetcherGoesTo DEF FetcherTop, FetcherHolds
  <2>3. BrokerType' /\ UNCHANGED <<InQueue, InRetry, InDead, Leased>>
    BY <1>1, <1>2, <1>5, BrokerIdles DEF FetcherTop
  <2>4. WorkersType' /\ WorkersHold' = WorkersHold
    BY <1>1, <1>2, <1>5, SameWorkers DEF FetcherTop
  <2>5. Goes({NoJob})
    BY <1>3, <2>2, <2>3, <2>4 DEF Goes, Safe, Present, Holds
  <2>. QED  BY <1>3, <2>2, <2>3, <2>4, <2>5 DEF TypeInv, Moves
<1>6. CASE FetcherPoll
  <2>1. WorkersType' /\ WorkersHold' = WorkersHold
    BY <1>1, <1>2, <1>6, SameWorkers DEF FetcherPoll
  <2>2. FetcherHolds = {}
    BY <1>6 DEF FetcherPoll, FetcherHolds
  <2>3. CASE Dequeue /\ FetcherGoes("send", Head(queue))
    <3>1. /\ BrokerType' /\ Head(queue) \in accepted
          /\ InQueue = InQueue' \cup {Head(queue)} /\ Leased' = Leased \cup {Head(queue)}
          /\ UNCHANGED <<InRetry, InDead>>
      BY <1>1, <1>2, <2>3, DequeueDoes
    <3>2. FetcherType' /\ FetcherHolds' = {Head(queue)}
      <4>1. Head(queue) \in Job /\ Head(queue) # NoJob
        BY <1>4, <3>1 DEF Job
      <4>. QED  BY <1>1, <1>2, <2>3, <4>1, FetcherGoesTo
    <3>3. Goes({NoJob})
      BY <1>3, <2>1, <2>2, <3>1, <3>2 DEF Goes, Safe, Present, Holds
    <3>. QED  BY <1>3, <2>1, <3>1, <3>2, <3>3 DEF TypeInv, Moves
  <2>4. CASE FetcherGoes("top", NoJob) /\ UNCHANGED brokerVars
    <3>1. FetcherType' /\ FetcherHolds' = {}
      BY <1>1, <1>2, <1>4, <2>4, FetcherGoesTo
    <3>2. BrokerType' /\ UNCHANGED <<InQueue, InRetry, InDead, Leased>>
      BY <1>1, <1>2, <2>4, BrokerIdles
    <3>3. Goes({NoJob})
      BY <1>3, <2>1, <2>2, <3>1, <3>2 DEF Goes, Safe, Present, Holds
    <3>. QED  BY <1>3, <2>1, <3>1, <3>2, <3>3 DEF TypeInv, Moves
  <2>. QED  BY <1>6, <2>3, <2>4 DEF FetcherPoll
<1>7. CASE FetcherSend
  <2>1. PICK w \in Workers : worker[w].pc = "idle" /\ WorkerGoes(w, "perform", fetcher.job, 0)
    BY <1>7 DEF FetcherSend, WorkerGoes
  <2>2. fetcher.pc = "send" /\ FetcherHolds = {fetcher.job} /\ fetcher.job \in accepted
    BY <1>4, <1>7 DEF FetcherSend, FetcherHolds
  <2>3. FetcherType' /\ FetcherHolds' = {}
    BY <1>1, <1>2, <1>4, <1>7, FetcherGoesTo DEF FetcherSend
  <2>4. /\ WorkersType' /\ worker'[w].pc = "perform" /\ worker'[w].job = fetcher.job
        /\ \A v \in Workers : v # w => worker'[v] = worker[v]
    <3>1. fetcher.job # NoJob /\ "perform" \in Active \cup {"idle", "ack", "exited"} /\ 0 \in Nat
      BY <1>4, <2>2 DEF Active
    <3>. QED  BY <1>1, <1>2, <1>4, <2>1, <3>1, WorkerGoesTo
  <2>5. WorkersHold' = WorkersHold \cup {fetcher.job}
    <3>1. worker[w].pc \notin Active /\ worker'[w].pc \in Active
      BY <2>1, <2>4 DEF Active
    <3>. QED  BY <1>1, <2>4, <3>1, WorkerHolds
  <2>6. BrokerType' /\ UNCHANGED <<InQueue, InRetry, InDead, Leased>>
    BY <1>1, <1>2, <1>7, BrokerIdles DEF FetcherSend
  <2>7. Goes({NoJob})
    BY <1>3, <2>2, <2>3, <2>5, <2>6 DEF Goes, Safe, Present, Holds
  <2>. QED  BY <1>3, <2>3, <2>4, <2>6, <2>7 DEF TypeInv, Moves
<1>8. CASE FetcherHandBack
  <2>1. fetcher.pc = "send" /\ FetcherHolds = {fetcher.job} /\ fetcher.job \in accepted
    BY <1>4, <1>8 DEF FetcherHandBack, FetcherHolds
  <2>2. FetcherType' /\ FetcherHolds' = {}
    BY <1>1, <1>2, <1>4, <1>8, <2>1, FetcherGoesTo DEF FetcherHandBack
  <2>3. WorkersType' /\ WorkersHold' = WorkersHold
    BY <1>1, <1>2, <1>8, SameWorkers DEF FetcherHandBack
  <2>4. /\ BrokerType' /\ InQueue' = InQueue \cup {fetcher.job}
        /\ UNCHANGED <<InRetry, InDead, Leased>>
    BY <1>1, <1>2, <1>8, <2>1, EnqueueDoes DEF FetcherHandBack
  <2>5. Goes({NoJob})
    BY <1>3, <2>1, <2>2, <2>3, <2>4 DEF Goes, Safe, Present, Holds
  <2>. QED  BY <1>3, <2>2, <2>3, <2>4, <2>5 DEF TypeInv, Moves
<1>9. CASE FetcherAck
  <2>1. FetcherType' /\ FetcherHolds' = {} /\ FetcherHolds = {}
    BY <1>1, <1>2, <1>4, <1>9, FetcherGoesTo DEF FetcherAck, FetcherHolds
  <2>2. WorkersType' /\ WorkersHold' = WorkersHold
    BY <1>1, <1>2, <1>9, SameWorkers DEF FetcherAck
  <2>3. /\ BrokerType' /\ Leased' \subseteq Leased /\ Leased \subseteq Leased' \cup {fetcher.job}
        /\ UNCHANGED <<InQueue, InRetry, InDead>>
    BY <1>1, <1>2, <1>9, AckDoes DEF FetcherAck
  <2>4. Goes({fetcher.job})
    BY <1>3, <2>1, <2>2, <2>3 DEF Goes, Safe, Present, Holds
  <2>. QED  BY <1>3, <2>1, <2>2, <2>3, <2>4 DEF TypeInv, Moves
<1>. QED  BY <1>5, <1>6, <1>7, <1>8, <1>9 DEF Fetcher

\* A worker moves, performs or buries its job.
LEMMA WorkerDoes ==
  ASSUME TypeInv, NEW w \in Workers, Worker(w)
  PROVE  TypeInv' /\ (Moves \/ Performs \/ Buries)
<1>. DEFINE jid == worker[w].job
<1>1. BrokerType /\ JobsType /\ FetcherType /\ WorkersType /\ RetrierType /\ ReaperType /\ StatusType
  BY DEF TypeInv
<1>2. UNCHANGED <<budget, status, fetcher, retrier, reaper, accepted, cleared, slow>>
  BY DEF Worker, JobSucceeds, JobFails, JobMeetsOpenCircuit, WorkerPostpones, WorkerCounts,
         WorkerSchedules, WorkerAcks, WorkerExits, history
<1>3. /\ FetcherType' /\ RetrierType' /\ ReaperType' /\ StatusType'
      /\ UNCHANGED <<accepted, cleared, FetcherHolds, RetrierHolds>>
      /\ ToSet(retrier.batch)' = ToSet(retrier.batch) /\ ToSet(reaper.batch)' = ToSet(reaper.batch)
  BY <1>1, <1>2, SameFetcher, SameRetrier, SameReaper DEF StatusType
<1>4. /\ NoJob \in Job /\ jid \in Job /\ NoJob \notin accepted /\ worker[w].count \in Nat
      /\ worker[w].pc \notin {"idle", "exited"} => jid \in accepted /\ jid \in JIDs /\ jid # NoJob
  BY <1>1, NoJobIsNone DEF WorkersType, WorkerRecord, Job, JobsType
<1>5. worker[w].pc \in Active => jid \in WorkersHold /\ jid \in Present
  BY DEF WorkersHold, Present, Holds
<1>. HIDE DEF jid
<1>6. ASSUME NEW pc \in Active, NEW count \in Nat, WorkerGoes(w, pc, jid, count),
             worker[w].pc \in Active
      PROVE  WorkersType' /\ WorkersHold' = WorkersHold
  <2>1. jid \in accepted /\ jid # NoJob /\ pc \in Active \cup {"idle", "ack", "exited"}
        /\ pc \notin {"idle", "exited"}
    BY <1>4, <1>6 DEF Active
  <2>2. /\ WorkersType' /\ worker'[w].pc = pc /\ worker'[w].job = jid
        /\ \A v \in Workers : v # w => worker'[v] = worker[v]
    BY <1>1, <1>2, <1>4, <1>6, <2>1, WorkerGoesTo
  <2>. QED  BY <1>1, <1>6, <2>2, WorkerHolds DEF jid
<1>7. ASSUME WorkerGoes(w, "ack", jid, 0), worker[w].pc \in Active
      PROVE  /\ WorkersType' /\ WorkersHold' \subseteq WorkersHold
             /\ WorkersHold \subseteq WorkersHold' \cup {jid}
  <2>1. jid \in accepted /\ jid # NoJob /\ "ack" \in Active \cup {"idle", "ack", "exited"} /\ 0 \in Nat
    BY <1>4, <1>7 DEF Active
  <2>2. /\ WorkersType' /\ worker'[w].pc = "ack" /\ worker'[w].job = jid
        /\ \A v \in Workers : v # w => worker'[v] = worker[v]
    BY <1>1, <1>2, <1>4, <1>7, <2>1, WorkerGoesTo
  <2>3. worker'[w].pc \notin Active
    BY <2>2 DEF Active
  <2>. QED  BY <1>1, <2>2, <2>3, WorkerHolds DEF jid
<1>8. ASSUME NEW pc \in {"idle", "exited"}, WorkerGoes(w, pc, NoJob, 0), worker[w].pc \notin Active
      PROVE  WorkersType' /\ WorkersHold' = WorkersHold
  <2>1. pc \in Active \cup {"idle", "ack", "exited"} /\ 0 \in Nat /\ pc \notin Active
    BY DEF Active
  <2>2. /\ WorkersType' /\ worker'[w].pc = pc
        /\ \A v \in Workers : v # w => worker'[v] = worker[v]
    BY <1>1, <1>2, <1>4, <1>8, <2>1, WorkerGoesTo
  <2>. QED  BY <1>1, <1>8, <2>1, <2>2, WorkerHolds
<1>9. CASE JobSucceeds(w)
  <2>1. /\ worker[w].pc \in Active /\ WorkerGoes(w, "ack", jid, 0)
        /\ succeeded' = succeeded \cup {jid} /\ RecordSuccess
        /\ UNCHANGED <<retryCount, failures>>
    BY <1>9 DEF JobSucceeds, Active, jid
  <2>2. BrokerType' /\ UNCHANGED <<InQueue, InRetry, InDead, Leased>>
    BY <1>1, <1>2, <2>1, CountersDo
  <2>3. jid \in accepted
    BY <1>4, <2>1 DEF Active
  <2>4. JobsType'
    BY <1>1, <1>2, <2>1, <2>3 DEF JobsType
  <2>5. /\ WorkersType' /\ WorkersHold' \subseteq WorkersHold
        /\ WorkersHold \subseteq WorkersHold' \cup {jid}
    BY <1>7, <2>1
  <2>6. Goes({jid})
    BY <1>3, <2>1, <2>2, <2>5 DEF Goes, Safe, Present, Holds
  <2>. QED  BY <1>3, <1>5, <2>1, <2>2, <2>4, <2>5, <2>6 DEF TypeInv, Performs
<1>10. CASE JobFails(w)
  <2>1. /\ worker[w].pc \in Active /\ WorkerGoes(w, "count", jid, retryCount[jid])
        /\ failures' = [failures EXCEPT ![jid] = @ + 1] /\ RecordFailure
        /\ UNCHANGED <<retryCount, succeeded>>
    BY <1>10 DEF JobFails, Active, jid
  <2>2. BrokerType' /\ UNCHANGED <<InQueue, InRetry, InDead, Leased>>
    BY <1>1, <1>2, <2>1, CountersDo
  <2>3. jid \in accepted /\ jid \in JIDs /\ retryCount[jid] \in Nat
    BY <1>1, <1>4, <2>1 DEF Active, JobsType
  <2>4. JobsType'
    BY <1>1, <1>2, <2>1, <2>3 DEF JobsType
  <2>5. WorkersType' /\ WorkersHold' = WorkersHold
    <3>1. "count" \in Active
      BY DEF Active
    <3>. QED  BY <1>6, <2>1, <2>3, <3>1
  <2>6. Goes({NoJob})
    BY <1>3, <2>1, <2>2, <2>5 DEF Goes, Safe, Present, Holds
  <2>. QED  BY <1>3, <2>1, <2>2, <2>4, <2>5, <2>6 DEF TypeInv, Moves
<1>11. CASE JobMeetsOpenCircuit(w)
  <2>1. /\ worker[w].pc \in Active /\ WorkerGoes(w, "postpone", jid, 0) /\ RecordFailure
        /\ UNCHANGED <<budget, retryCount, history>>
    BY <1>11 DEF JobMeetsOpenCircuit, Active, jid
  <2>2. BrokerType' /\ UNCHANGED <<InQueue, InRetry, InDead, Leased>>
    BY <1>1, <1>2, <2>1, CountersDo
  <2>3. JobsType' /\ succeeded' = succeeded
    BY <1>1, <2>1, SameJobs
  <2>4. WorkersType' /\ WorkersHold' = WorkersHold
    <3>1. "postpone" \in Active /\ 0 \in Nat
      BY DEF Active
    <3>. QED  BY <1>6, <2>1, <3>1
  <2>5. Goes({NoJob})
    BY <1>3, <2>2, <2>3, <2>4 DEF Goes, Safe, Present, Holds
  <2>. QED  BY <1>3, <2>2, <2>3, <2>4, <2>5 DEF TypeInv, Moves
<1>12. CASE WorkerCounts(w)
  <2>1. /\ worker[w].pc \in Active /\ WorkerGoes(w, "schedule", jid, worker[w].count + 1)
        /\ retryCount' = [retryCount EXCEPT ![jid] = worker[w].count + 1]
        /\ UNCHANGED <<brokerVars, budget, history>>
    BY <1>12 DEF WorkerCounts, Active, jid
  <2>2. BrokerType' /\ UNCHANGED <<InQueue, InRetry, InDead, Leased>>
    BY <1>1, <1>2, <2>1, BrokerIdles
  <2>3. worker[w].count + 1 \in Nat
    BY <1>4
  <2>4. JobsType' /\ succeeded' = succeeded
    BY <1>1, <2>1, <2>3 DEF JobsType, history
  <2>5. WorkersType' /\ WorkersHold' = WorkersHold
    <3>1. "schedule" \in Active
      BY DEF Active
    <3>. QED  BY <1>6, <2>1, <2>3, <3>1
  <2>6. Goes({NoJob})
    BY <1>3, <2>2, <2>4, <2>5 DEF Goes, Safe, Present, Holds
  <2>. QED  BY <1>3, <2>2, <2>4, <2>5, <2>6 DEF TypeInv, Moves
<1>13. ASSUME worker[w].pc \in Active, WorkerGoes(w, "ack", jid, 0), AddToRetry(jid),
              UNCHANGED <<budget, retryCount, history>>
       PROVE  TypeInv' /\ Moves
  <2>1. jid \in accepted
    BY <1>4, <1>13 DEF Active
  <2>2. BrokerType' /\ InRetry' = InRetry \cup {jid} /\ UNCHANGED <<InQueue, InDead, Leased>>
    BY <1>1, <1>2, <1>13, <2>1, AddToRetryDoes
  <2>3. JobsType' /\ succeeded' = succeeded
    BY <1>1, <1>13, SameJobs
  <2>4. /\ WorkersType' /\ WorkersHold' \subseteq WorkersHold
        /\ WorkersHold \subseteq WorkersHold' \cup {jid}
    BY <1>7, <1>13
  <2>5. Goes({NoJob})
    BY <1>3, <1>5, <1>13, <2>2, <2>3, <2>4 DEF Goes, Safe, Present, Holds
  <2>. QED  BY <1>3, <2>2, <2>3, <2>4, <2>5 DEF TypeInv, Moves
<1>14. ASSUME worker[w].pc \in Active, WorkerGoes(w, "ack", jid, 0), AddToDead(jid),
              UNCHANGED <<budget, retryCount, history>>
       PROVE  TypeInv' /\ Buries
  <2>1. jid \in accepted
    BY <1>4, <1>14 DEF Active
  <2>2. BrokerType' /\ InDead' = InDead \cup {jid} /\ UNCHANGED <<InQueue, InRetry, Leased>>
    BY <1>1, <1>2, <1>14, <2>1, AddToDeadDoes
  <2>3. JobsType' /\ succeeded' = succeeded
    BY <1>1, <1>14, SameJobs
  <2>4. /\ WorkersType' /\ WorkersHold' \subseteq WorkersHold
        /\ WorkersHold \subseteq WorkersHold' \cup {jid}
    BY <1>7, <1>14
  <2>5. Goes({jid})
    BY <1>3, <2>2, <2>3, <2>4 DEF Goes, Safe, Present, Holds
  <2>. QED  BY <1>3, <1>5, <1>14, <2>2, <2>3, <2>4, <2>5 DEF TypeInv, Buries
<1>15. CASE WorkerPostpones(w)
  BY <1>13, <1>15 DEF WorkerPostpones, Active, jid
<1>16. CASE WorkerSchedules(w)
  BY <1>13, <1>14, <1>16 DEF WorkerSchedules, Active, jid
<1>17. CASE WorkerAcks(w)
  <2>1. /\ worker[w].pc \notin Active /\ WorkerGoes(w, "idle", NoJob, 0) /\ Ack(jid)
        /\ UNCHANGED <<budget, retryCount, history>>
    BY <1>17 DEF WorkerAcks, Active, jid
  <2>2. /\ BrokerType' /\ Leased' \subseteq Leased /\ Leased \subseteq Leased' \cup {jid}
        /\ UNCHANGED <<InQueue, InRetry, InDead>>
    BY <1>1, <1>2, <2>1, AckDoes
  <2>3. JobsType' /\ succeeded' = succeeded
    BY <1>1, <2>1, SameJobs
  <2>4. WorkersType' /\ WorkersHold' = WorkersHold
    BY <1>8, <2>1
  <2>5. Goes({jid})
    BY <1>3, <2>2, <2>3, <2>4 DEF Goes, Safe, Present, Holds
  <2>. QED  BY <1>3, <2>2, <2>3, <2>4, <2>5 DEF TypeInv, Moves
<1>18. CASE WorkerExits(w)
  <2>1. /\ worker[w].pc \notin Active /\ WorkerGoes(w, "exited", NoJob, 0)
        /\ UNCHANGED <<brokerVars, budget, retryCount, history>>
    BY <1>18 DEF WorkerExits, Active
  <2>2. BrokerType' /\ UNCHANGED <<InQueue, InRetry, InDead, Leased>>
    BY <1>1, <1>2, <2>1, BrokerIdles
  <2>3. JobsType' /\ succeeded' = succeeded
    BY <1>1, <2>1, SameJobs
  <2>4. WorkersType' /\ WorkersHold' = WorkersHold
    BY <1>8, <2>1
  <2>5. Goes({NoJob})
    BY <1>3, <2>2, <2>3, <2>4 DEF Goes, Safe, Present, Holds
  <2>. QED  BY <1>3, <2>2, <2>3, <2>4, <2>5 DEF TypeInv, Moves
<1>. QED  BY <1>9, <1>10, <1>11, <1>12, <1>15, <1>16, <1>17, <1>18 DEF Worker

\* The retry loop moves or buries jobs.
LEMMA RetrierDoes ==
  ASSUME TypeInv, Retrier
  PROVE  TypeInv' /\ (Moves \/ Buries)
<1>. DEFINE jid == retrier.job
            batch == retrier.batch
<1>1. BrokerType /\ JobsType /\ FetcherType /\ WorkersType /\ RetrierType /\ ReaperType /\ StatusType
  BY DEF TypeInv
<1>2. UNCHANGED <<budget, status, fetcher, worker, reaper, history>> /\ accepted' = accepted
  BY DEF Retrier, RetryTick, RetryRemoves, RetryEnqueues, RetryCounts, RetryFallsBack,
         RetryExits, history
<1>3. /\ FetcherType' /\ WorkersType' /\ ReaperType' /\ StatusType'
      /\ UNCHANGED <<accepted, succeeded, cleared, FetcherHolds, WorkersHold>>
      /\ ToSet(reaper.batch)' = ToSet(reaper.batch)
  BY <1>1, <1>2, SameFetcher, SameWorkers, SameReaper DEF StatusType, history
<1>4. /\ NoJob \in Job /\ jid \in Job /\ NoJob \notin accepted /\ retrier.count \in Nat
      /\ batch \in Seq(accepted)
      /\ retrier.pc \in {"enqueue", "count", "fallback"} <=> jid # NoJob
      /\ jid # NoJob => jid \in accepted /\ jid \in JIDs
      /\ RetrierHolds = IF jid = NoJob THEN {} ELSE {jid}
  BY <1>1, NoJobIsNone DEF RetrierType, Job, JobsType, RetrierHolds
<1>. HIDE DEF jid, batch
<1>5. ASSUME UNCHANGED retryCount PROVE JobsType'
  BY <1>1, <1>2, <1>5, SameJobs
<1>6. CASE RetryTick
  <2>. DEFINE new == RetryJobs(RetryLimit)
  <2>1. /\ retrier.pc = "loop" /\ batch = <<>> /\ RetrierGoes("loop", NoJob, 0, new)
        /\ UNCHANGED <<brokerVars, retryCount>>
    BY <1>6 DEF RetryTick, batch
  <2>2. new \in Seq(accepted) /\ ToSet(new) \subseteq InRetry
    BY <1>1, RetryJobsDo, MemoryAssumption
  <2>3. BrokerType' /\ UNCHANGED <<InQueue, InRetry, InDead, Leased>>
    BY <1>1, <1>2, <2>1, BrokerIdles
  <2>. HIDE DEF new
  <2>4. RetrierType' /\ RetrierHolds' = {} /\ RetrierHolds = {} /\ retrier'.batch = new
    BY <1>1, <1>2, <1>4, <2>1, <2>2, RetrierGoesTo
  <2>5. ToSet(retrier.batch) = {}
    BY <2>1 DEF batch, ToSet
  <2>6. Goes({NoJob})
    BY <1>3, <2>2, <2>3, <2>4, <2>5 DEF Goes, Safe, Present, Holds
  <2>. QED  BY <1>3, <1>5, <2>1, <2>3, <2>4, <2>6 DEF TypeInv, Moves
<1>7. CASE RetryRemoves
  <2>. DEFINE head == Head(batch)
              tail == Tail(batch)
  <2>1. /\ retrier.pc = "loop" /\ batch # <<>> /\ RetrierGoes("enqueue", head, 0, tail)
        /\ RemoveFromRetry(head) /\ UNCHANGED retryCount
    BY <1>7 DEF RetryRemoves, batch
  <2>2. head \in accepted /\ tail \in Seq(accepted) /\ ToSet(batch) = ToSet(tail) \cup {head}
    BY <1>4, <2>1, TailSets
  <2>3. /\ BrokerType' /\ InRetry' \subseteq InRetry /\ InRetry \subseteq InRetry' \cup {head}
        /\ UNCHANGED <<InQueue, InDead, Leased>>
    BY <1>1, <1>2, <2>1, RemoveFromRetryDoes
  <2>. HIDE DEF head, tail
  <2>4. head \in Job /\ head # NoJob
    BY <1>4, <2>2 DEF Job
  <2>5. RetrierType' /\ RetrierHolds' = {head} /\ RetrierHolds = {} /\ retrier'.batch = tail
    BY <1>1, <1>2, <1>4, <2>1, <2>2, <2>4, RetrierGoesTo
  <2>6. Goes({NoJob})
    BY <1>3, <2>2, <2>3, <2>5 DEF Goes, Safe, Present, Holds, batch
  <2>. QED  BY <1>3, <1>5, <2>1, <2>3, <2>5, <2>6 DEF TypeInv, Moves
<1>8. CASE RetryEnqueues
  <2>1. retrier.pc = "enqueue" /\ UNCHANGED retryCount /\ jid # NoJob /\ jid \in accepted
    BY <1>4, <1>8 DEF RetryEnqueues
  <2>2. CASE Enqueue(jid) /\ RetrierGoes("loop", NoJob, 0, batch)
    <3>1. BrokerType' /\ InQueue' = InQueue \cup {jid} /\ UNCHANGED <<InRetry, InDead, Leased>>
      BY <1>1, <1>2, <2>1, <2>2, EnqueueDoes
    <3>2. RetrierType' /\ RetrierHolds' = {} /\ RetrierHolds = {jid} /\ retrier'.batch = batch
      BY <1>1, <1>2, <1>4, <2>1, <2>2, RetrierGoesTo
    <3>3. Goes({NoJob})
      BY <1>3, <3>1, <3>2 DEF Goes, Safe, Present, Holds, batch
    <3>. QED  BY <1>3, <1>5, <2>1, <3>1, <3>2, <3>3 DEF TypeInv, Moves
  <2>3. CASE RetrierGoes("count", jid, retryCount[jid], batch) /\ UNCHANGED brokerVars
    <3>1. BrokerType' /\ UNCHANGED <<InQueue, InRetry, InDead, Leased>>
      BY <1>1, <1>2, <2>3, BrokerIdles
    <3>2. retryCount[jid] \in Nat
      BY <1>1, <1>4, <2>1 DEF JobsType
    <3>3. RetrierType' /\ RetrierHolds' = {jid} /\ RetrierHolds = {jid} /\ retrier'.batch = batch
      BY <1>1, <1>2, <1>4, <2>1, <2>3, <3>2, RetrierGoesTo
    <3>4. Goes({NoJob})
      BY <1>3, <3>1, <3>3 DEF Goes, Safe, Present, Holds, batch
    <3>. QED  BY <1>3, <1>5, <2>1, <3>1, <3>3, <3>4 DEF TypeInv, Moves
  <2>. QED  BY <1>8, <2>2, <2>3 DEF RetryEnqueues, jid, batch
<1>9. CASE RetryCounts
  <2>. DEFINE count == retrier.count + 1
  <2>1. /\ retrier.pc = "count" /\ retryCount' = [retryCount EXCEPT ![jid] = count]
        /\ RetrierGoes("fallback", jid, count, batch) /\ UNCHANGED brokerVars
    BY <1>9 DEF RetryCounts, jid, batch
  <2>2. count \in Nat /\ jid \in accepted /\ jid # NoJob
    BY <1>4, <2>1
  <2>. HIDE DEF count
  <2>3. JobsType'
    BY <1>1, <1>2, <2>1, <2>2 DEF JobsType, history
  <2>4. BrokerType' /\ UNCHANGED <<InQueue, InRetry, InDead, Leased>>
    BY <1>1, <1>2, <2>1, BrokerIdles
  <2>5. RetrierType' /\ RetrierHolds' = {jid} /\ RetrierHolds = {jid} /\ retrier'.batch = batch
    BY <1>1, <1>2, <1>4, <2>1, <2>2, RetrierGoesTo
  <2>6. Goes({NoJob})
    BY <1>3, <2>4, <2>5 DEF Goes, Safe, Present, Holds, batch
  <2>. QED  BY <1>3, <2>3, <2>4, <2>5, <2>6 DEF TypeInv, Moves
<1>10. CASE RetryFallsBack
  <2>1. /\ retrier.pc = "fallback" /\ UNCHANGED retryCount /\ RetrierGoes("loop", NoJob, 0, batch)
        /\ (AddToRetry(jid) \/ AddToDead(jid))
    BY <1>10 DEF RetryFallsBack, jid, batch
  <2>2. jid \in accepted /\ jid # NoJob
    BY <1>4, <2>1
  <2>3. RetrierType' /\ RetrierHolds' = {} /\ RetrierHolds = {jid} /\ retrier'.batch = batch
    BY <1>1, <1>2, <1>4, <2>1, <2>2, RetrierGoesTo
  <2>4. CASE AddToRetry(jid)
    <3>1. BrokerType' /\ InRetry' = InRetry \cup {jid} /\ UNCHANGED <<InQueue, InDead, Leased>>
      BY <1>1, <1>2, <2>2, <2>4, AddToRetryDoes
    <3>2. Goes({NoJob})
      BY <1>3, <2>3, <3>1 DEF Goes, Safe, Present, Holds, batch
    <3>. QED  BY <1>3, <1>5, <2>1, <2>3, <3>1, <3>2 DEF TypeInv, Moves
  <2>5. CASE AddToDead(jid)
    <3>1. BrokerType' /\ InDead' = InDead \cup {jid} /\ UNCHANGED <<InQueue, InRetry, Leased>>
      BY <1>1, <1>2, <2>2, <2>5, AddToDeadDoes
    <3>2. Goes({jid}) /\ jid \in Present
      BY <1>3, <2>3, <3>1 DEF Goes, Safe, Present, Holds, batch
    <3>. QED  BY <1>3, <1>5, <2>1, <2>3, <3>1, <3>2 DEF TypeInv, Buries
  <2>. QED  BY <2>1, <2>4, <2>5
<1>11. CASE RetryExits
  <2>1. /\ retrier.pc = "loop" /\ batch = <<>> /\ RetrierGoes("exited", NoJob, 0, <<>>)
        /\ UNCHANGED <<brokerVars, retryCount>>
    BY <1>11 DEF RetryExits, batch
  <2>2. BrokerType' /\ UNCHANGED <<InQueue, InRetry, InDead, Leased>>
    BY <1>1, <1>2, <2>1, BrokerIdles
  <2>3. RetrierType' /\ RetrierHolds' = {} /\ RetrierHolds = {} /\ retrier'.batch = batch
    BY <1>1, <1>2, <1>4, <2>1, RetrierGoesTo
  <2>4. Goes({NoJob})
    BY <1>3, <2>2, <2>3 DEF Goes, Safe, Present, Holds, batch
  <2>. QED  BY <1>3, <1>5, <2>1, <2>2, <2>3, <2>4 DEF TypeInv, Moves
<1>. QED  BY <1>6, <1>7, <1>8, <1>9, <1>10, <1>11 DEF Retrier

\* The reaper moves jobs; those it passes over are not lost, since their holders live.
LEMMA ReaperDoes ==
  ASSUME TypeInv, Reaper
  PROVE  TypeInv' /\ Moves
<1>. DEFINE batch == reaper.batch
<1>1. BrokerType /\ JobsType /\ FetcherType /\ WorkersType /\ RetrierType /\ ReaperType /\ StatusType
  BY DEF TypeInv
<1>2. UNCHANGED <<budget, retryCount, status, fetcher, worker, retrier, history>> /\ accepted' = accepted
  BY DEF Reaper, ReaperTick, ReaperEnqueues, ReaperExits, history
<1>3. /\ JobsType' /\ FetcherType' /\ WorkersType' /\ RetrierType' /\ StatusType'
      /\ UNCHANGED <<accepted, succeeded, cleared, FetcherHolds, WorkersHold, RetrierHolds>>
      /\ ToSet(retrier.batch)' = ToSet(retrier.batch)
  BY <1>1, <1>2, SameJobs, SameFetcher, SameWorkers, SameRetrier DEF StatusType
<1>4. batch \in Seq(accepted) /\ reaper.pc \in {"loop", "exited"}
  BY <1>1 DEF ReaperType
<1>5. ASSUME NEW new \in Seq(accepted), reaper' = [reaper EXCEPT !.batch = new]
      PROVE  ReaperType' /\ reaper'.batch = new
  BY <1>1, <1>2, <1>5 DEF ReaperType
<1>. HIDE DEF batch
<1>6. CASE ReaperTick
  <2>1. batch = <<>> /\ ReapOrphanedJobs /\ reaper' = [reaper EXCEPT !.batch = Orphans]
    BY <1>6 DEF ReaperTick, batch
  <2>2. /\ BrokerType' /\ Orphans \in Seq(accepted) /\ Leased = Leased' \cup ToSet(Orphans)
        /\ UNCHANGED <<InQueue, InRetry, InDead>>
    BY <1>1, <1>2, <2>1, ReapDoes
  <2>3. ReaperType' /\ reaper'.batch = Orphans
    BY <1>5, <2>1, <2>2
  <2>4. ToSet(reaper.batch) = {} /\ ToSet(reaper.batch)' = ToSet(Orphans)
    BY <2>1, <2>3 DEF batch, ToSet
  <2>5. Goes({NoJob})
    BY <1>3, <2>2, <2>4 DEF Goes, Safe, Present, Holds
  <2>. QED  BY <1>3, <2>2, <2>3, <2>5 DEF TypeInv, Moves
<1>7. CASE ReaperEnqueues
  <2>. DEFINE head == Head(batch)
              tail == Tail(batch)
  <2>1. /\ batch # <<>> /\ reaper' = [reaper EXCEPT !.batch = tail]
        /\ (Enqueue(head) \/ UNCHANGED brokerVars)
    BY <1>7 DEF ReaperEnqueues, batch
  <2>2. head \in accepted /\ tail \in Seq(accepted) /\ ToSet(batch) = ToSet(tail) \cup {head}
    BY <1>4, <2>1, TailSets
  <2>. HIDE DEF head, tail
  <2>3. /\ BrokerType' /\ UNCHANGED <<InRetry, InDead, Leased>>
        /\ (InQueue' = InQueue \/ InQueue' = InQueue \cup {head})
    BY <1>1, <1>2, <2>1, <2>2, EnqueueDoes, BrokerIdles
  <2>4. ReaperType' /\ reaper'.batch = tail
    BY <1>5, <2>1, <2>2
  <2>5. Goes({head})
    BY <1>3, <2>2, <2>3, <2>4 DEF Goes, Safe, Present, Holds, batch
  <2>. QED  BY <1>3, <2>3, <2>4, <2>5 DEF TypeInv, Moves
<1>8. CASE ReaperExits
  <2>1. reaper' = [reaper EXCEPT !.pc = "exited"] /\ UNCHANGED brokerVars
    BY <1>8 DEF ReaperExits
  <2>2. ReaperType' /\ reaper'.batch = reaper.batch
    BY <1>1, <1>2, <2>1 DEF ReaperType
  <2>3. BrokerType' /\ UNCHANGED <<InQueue, InRetry, InDead, Leased>>
    BY <1>1, <1>2, <2>1, BrokerIdles
  <2>4. Goes({NoJob})
    BY <1>3, <2>2, <2>3 DEF Goes, Safe, Present, Holds
  <2>. QED  BY <1>3, <2>2, <2>3, <2>4 DEF TypeInv, Moves
<1>. QED  BY <1>6, <1>7, <1>8 DEF Reaper

\* The client brings a job into the system.
LEMMA ClientDoes ==
  ASSUME TypeInv, NEW jid \in JIDs, ClientEnqueue(jid)
  PROVE  TypeInv' /\ Accepts
<1>1. BrokerType /\ JobsType /\ FetcherType /\ WorkersType /\ RetrierType /\ ReaperType /\ StatusType
  BY DEF TypeInv
<1>2. /\ jid \notin accepted /\ accepted' = accepted \cup {jid} /\ queue' = Append(queue, jid)
      /\ UNCHANGED <<processing, retry, dead, processed, failed>>
      /\ UNCHANGED <<retryCount, status, fetcher, worker, retrier, reaper>>
      /\ UNCHANGED <<succeeded, cleared, failures, slow>>
  BY DEF ClientEnqueue, Enqueue, engineVars
<1>3. /\ Seq(accepted) \subseteq Seq(accepted')
      /\ Seq([jid : accepted, expired : BOOLEAN]) \subseteq Seq([jid : accepted', expired : BOOLEAN])
      /\ Seq([jid : accepted, due : BOOLEAN]) \subseteq Seq([jid : accepted', due : BOOLEAN])
  <2>1. accepted \subseteq accepted'
    BY <1>2
  <2>2. /\ [jid : accepted, expired : BOOLEAN] \subseteq [jid : accepted', expired : BOOLEAN]
        /\ [jid : accepted, due : BOOLEAN] \subseteq [jid : accepted', due : BOOLEAN]
    BY <2>1
  <2>. QED  BY <2>1, <2>2, SeqMonotonic
<1>4. BrokerType'
  <2>1. queue' \in Seq(accepted')
    BY <1>1, <1>2, <1>3 DEF BrokerType
  <2>. QED  BY <1>1, <1>2, <1>3, <2>1 DEF BrokerType
<1>5. JobsType'
  <2>1. budget' \in [JIDs -> Nat]
    BY <1>1, MemoryAssumption DEF JobsType, ClientEnqueue
  <2>. QED  BY <1>1, <1>2, <2>1 DEF JobsType
<1>6. FetcherType' /\ FetcherHolds' = FetcherHolds
  BY <1>1, <1>2 DEF FetcherType, FetcherHolds, Job
<1>7. WorkersType' /\ WorkersHold' = WorkersHold
  BY <1>1, <1>2 DEF WorkersType, WorkerRecord, WorkersHold, Job, Active
<1>8. RetrierType' /\ RetrierHolds' = RetrierHolds
  BY <1>1, <1>2, <1>3 DEF RetrierType, RetrierHolds, Job
<1>9. ReaperType' /\ StatusType'
  BY <1>1, <1>2, <1>3 DEF ReaperType, StatusType
<1>10. InQueue' = InQueue \cup {jid} /\ UNCHANGED <<InRetry, InDead, Leased>>
  <2>1. queue \in Seq(JIDs)
    BY <1>1, SeqMonotonic DEF BrokerType, JobsType
  <2>. QED  BY <1>2, <2>1, AppendSets DEF InQueue, InRetry, InDead, Leased
<1>11. /\ ToSet(retrier.batch)' = ToSet(retrier.batch)
       /\ ToSet(reaper.batch)' = ToSet(reaper.batch)
  BY <1>2
<1>12. Safe' = Safe \cup {jid} /\ Present' = Present \cup {jid}
  BY <1>2, <1>6, <1>7, <1>8, <1>10, <1>11 DEF Safe, Present, Holds
<1>. QED  BY <1>2, <1>4, <1>5, <1>6, <1>7, <1>8, <1>9, <1>10, <1>12 DEF TypeInv, Accepts

\* Stopping, clearing a queue and the passing of time.
LEMMA OthersDo ==
  ASSUME TypeInv,
         ClearQueue \/ Stop \/ StopReturns \/ LeaseRunsOut \/ BackoffEnds \/ UNCHANGED vars
  PROVE  TypeInv' /\ (Moves \/ Clears)
<1>1. BrokerType /\ JobsType /\ FetcherType /\ WorkersType /\ RetrierType /\ ReaperType /\ StatusType
  BY DEF TypeInv
<1>2. /\ UNCHANGED <<budget, retryCount, fetcher, worker, retrier, reaper>>
      /\ UNCHANGED <<accepted, succeeded, failures>>
      /\ slow' \in Nat /\ StatusType'
  BY <1>1 DEF ClearQueue, Stop, StopReturns, LeaseRunsOut, BackoffEnds, vars, engineVars, history,
              JobsType, StatusType
<1>3. /\ FetcherType' /\ WorkersType' /\ RetrierType' /\ ReaperType'
      /\ UNCHANGED <<FetcherHolds, WorkersHold, RetrierHolds>>
      /\ ToSet(retrier.batch)' = ToSet(retrier.batch) /\ ToSet(reaper.batch)' = ToSet(reaper.batch)
  BY <1>1, <1>2, SameFetcher, SameWorkers, SameRetrier, SameReaper
<1>4. CASE ClearQueue
  <2>1. DeleteKey /\ cleared' = cleared \cup InQueue
    BY <1>4 DEF ClearQueue, InQueue
  <2>2. BrokerType' /\ InQueue' = {} /\ UNCHANGED <<InRetry, InDead, Leased>>
    BY <1>1, <1>2, <2>1, DeleteKeyDoes
  <2>3. InQueue \subseteq accepted
    BY <1>1 DEF BrokerType, InQueue, ToSet
  <2>4. JobsType'
    BY <1>1, <1>2, <2>1, <2>3 DEF JobsType
  <2>5. Goes(InQueue)
    BY <1>2, <1>3, <2>1, <2>2 DEF Goes, Safe, Present, Holds
  <2>. QED  BY <1>2, <1>3, <2>1, <2>2, <2>4, <2>5 DEF TypeInv, Clears
<1>5. CASE ~ClearQueue
  <2>1. cleared' = cleared
    BY <1>5 DEF Stop, StopReturns, LeaseRunsOut, BackoffEnds, vars, history
  <2>2. JobsType'
    BY <1>1, <1>2, <2>1 DEF JobsType
  <2>3. \/ UNCHANGED brokerVars \/ Close \/ LeaseExpires \/ RetryFallsDue
    BY <1>5 DEF Stop, StopReturns, LeaseRunsOut, BackoffEnds, vars
  <2>4. BrokerType' /\ UNCHANGED <<InQueue, InRetry, InDead, Leased>>
    BY <1>1, <1>2, <2>3, BrokerIdles, CountersDo, FlagsDo
  <2>5. Goes({NoJob})
    BY <1>2, <1>3, <2>1, <2>4 DEF Goes, Safe, Present, Holds
  <2>. QED  BY <1>2, <1>3, <2>1, <2>2, <2>4, <2>5 DEF TypeInv, Moves
<1>. QED  BY <1>4, <1>5

\* Every step does one of these.
LEMMA StepDoes ==
  ASSUME TypeInv, [Next]_vars
  PROVE  TypeInv' /\ (Moves \/ Performs \/ Buries \/ Clears \/ Accepts)
<1>1. CASE \E jid \in JIDs : ClientEnqueue(jid)
  BY <1>1, ClientDoes
<1>2. CASE ClearQueue \/ Stop \/ StopReturns \/ Stopped \/ LeaseRunsOut \/ BackoffEnds \/ UNCHANGED vars
  BY <1>2, OthersDo DEF Stopped
<1>3. CASE Fetcher
  BY <1>3, FetcherDoes
<1>4. CASE Retrier
  BY <1>4, RetrierDoes
<1>5. CASE Reaper
  BY <1>5, ReaperDoes
<1>6. CASE \E w \in Workers : Worker(w)
  BY <1>6, WorkerDoes
<1>. QED  BY <1>1, <1>2, <1>3, <1>4, <1>5, <1>6 DEF Next

\* In the beginning there is no job.
LEMMA InitDoes ==
  ASSUME Init
  PROVE  TypeInv /\ accepted = {} /\ Present = {} /\ InDead = {}
<1>1. /\ queue = <<>> /\ processing = <<>> /\ retry = <<>> /\ dead = <<>>
      /\ processed = 0 /\ failed = 0 /\ accepted = {} /\ succeeded = {} /\ cleared = {}
      /\ retrier = [pc |-> "loop", job |-> NoJob, count |-> 0, batch |-> <<>>]
      /\ reaper = [pc |-> "loop", batch |-> <<>>]
      /\ fetcher = [pc |-> "top", job |-> NoJob]
      /\ worker = [w \in Workers |-> [pc |-> "idle", job |-> NoJob, count |-> 0]]
  BY DEF Init, BrokerInit
<1>2. BrokerType
  BY <1>1 DEF BrokerType
<1>3. JobsType /\ StatusType
  BY <1>1 DEF Init, JobsType, StatusType
<1>4. FetcherType /\ FetcherHolds = {}
  BY <1>1 DEF FetcherType, FetcherHolds, Job
<1>5. WorkersType /\ WorkersHold = {}
  <2>1. \A w \in Workers : worker[w] = [pc |-> "idle", job |-> NoJob, count |-> 0]
    BY <1>1
  <2>2. \A w \in Workers : WorkerRecord(worker[w]) /\ worker[w].pc \notin Active
    BY <2>1 DEF WorkerRecord, Job, Active
  <2>3. worker = [w \in Workers |-> worker[w]]
    BY <1>1
  <2>. QED  BY <2>2, <2>3 DEF WorkersType, WorkersHold
<1>6. RetrierType /\ RetrierHolds = {} /\ retrier.batch = <<>>
  BY <1>1 DEF RetrierType, RetrierHolds, Job
<1>7. ReaperType /\ reaper.batch = <<>>
  BY <1>1 DEF ReaperType
<1>8. InQueue = {} /\ InRetry = {} /\ InDead = {} /\ Leased = {} /\ ToSet(<<>>) = {}
  BY <1>1 DEF InQueue, InRetry, InDead, Leased, ToSet, Jids
<1>. QED  BY <1>1, <1>2, <1>3, <1>4, <1>5, <1>6, <1>7, <1>8 DEF TypeInv, Present, Holds

-----------------------------------------------------------------------------
(* Delivery. *)

Carried == accepted \subseteq Safe

\* An accepted job is never without a holder or a final place.
LEMMA StepCarried ==
  ASSUME TypeInv, Carried, [Next]_vars
  PROVE  Carried'
BY StepDoes DEF Carried, Moves, Performs, Buries, Clears, Accepts, Goes

\* A list that has a job counts it.
LEMMA EntriesPositive ==
  ASSUME NEW S, NEW list \in Seq(S), NEW jid
  PROVE  /\ Entries(list, jid) \in Nat /\ (Entries(list, jid) > 0 <=> jid \in Jids(list))
         /\ Pointers(list, jid) \in Nat /\ (Pointers(list, jid) > 0 <=> jid \in ToSet(list))
<1>. DEFINE E == {i \in DOMAIN list : list[i].jid = jid}
            P == {i \in DOMAIN list : list[i] = jid}
<1>1. IsFiniteSet(DOMAIN list)
  <2>1. DOMAIN list = 1..Len(list) /\ Len(list) \in Nat
    OBVIOUS
  <2>. QED  BY <2>1, FS_Interval
<1>2. /\ IsFiniteSet(E) /\ Cardinality(E) \in Nat /\ (Cardinality(E) = 0 <=> E = {})
      /\ IsFiniteSet(P) /\ Cardinality(P) \in Nat /\ (Cardinality(P) = 0 <=> P = {})
  <2>1. E \in SUBSET (DOMAIN list) /\ P \in SUBSET (DOMAIN list)
    OBVIOUS
  <2>. HIDE DEF E, P
  <2>2. IsFiniteSet(E) /\ IsFiniteSet(P)
    BY <1>1, <2>1, FS_Subset
  <2>. QED  BY <2>2, FS_CardinalityType, FS_EmptySet
<1>3. (E # {} <=> jid \in Jids(list)) /\ (P # {} <=> jid \in ToSet(list))
  BY DEF Jids, ToSet
<1>4. Entries(list, jid) = Cardinality(E) /\ Pointers(list, jid) = Cardinality(P)
  BY DEF Entries, Pointers
<1>. HIDE DEF E, P
<1>5. \A n \in Nat : n > 0 <=> ~(n = 0)
  OBVIOUS
<1>. QED  BY <1>2, <1>3, <1>4, <1>5

\* So do the goroutines that hold it.
LEMMA HandsPositive ==
  ASSUME TypeInv, NEW jid \in JIDs
  PROVE  Hands(jid) \in Nat /\ (Hands(jid) > 0 <=> jid \in Holds)
<1>. DEFINE W == {w \in Workers : worker[w].pc \in {"perform", "postpone", "count", "schedule"}
                                  /\ worker[w].job = jid}
            f == One(fetcher.pc = "send" /\ fetcher.job = jid)
            c == Cardinality(W)
            r == One(retrier.job = jid)
<1>1. W \in SUBSET Workers /\ IsFiniteSet(Workers)
  BY MemoryAssumption
<1>2. W # {} <=> jid \in WorkersHold
  BY DEF WorkersHold, Active
<1>3. c \in Nat /\ (c = 0 <=> W = {})
  <2>. HIDE DEF W
  <2>1. IsFiniteSet(W)
    BY <1>1, FS_Subset
  <2>. QED  BY <2>1, FS_CardinalityType, FS_EmptySet
<1>4. f \in Nat /\ (f = 0 <=> jid \notin FetcherHolds)
  BY DEF One, FetcherHolds
<1>5. jid # NoJob
  BY MemoryAssumption
<1>6. r \in Nat /\ (r = 0 <=> jid \notin RetrierHolds)
  BY <1>5 DEF One, RetrierHolds
<1>7. Hands(jid) = f + c + r
  BY DEF Hands
<1>. HIDE DEF W, f, c, r
<1>8. \A x, y, z \in Nat : x + y + z \in Nat /\ (x + y + z > 0 <=> ~(x = 0 /\ y = 0 /\ z = 0))
  OBVIOUS
<1>9. Hands(jid) \in Nat /\ (Hands(jid) > 0 <=> ~(f = 0 /\ c = 0 /\ r = 0))
  BY <1>3, <1>4, <1>6, <1>7, <1>8
<1>. QED  BY <1>2, <1>3, <1>4, <1>6, <1>9 DEF Holds

\* What the model calls kept is what is present.
LEMMA KeptIsPresent ==
  ASSUME TypeInv
  PROVE  Kept = Present
<1>1. BrokerType /\ JobsType /\ FetcherType /\ WorkersType /\ RetrierType
  BY DEF TypeInv
<1>2. ASSUME NEW jid \in JIDs
      PROVE  (Hands(jid) + Entries(retry, jid) + Entries(processing, jid) > 0)
             <=> jid \in Holds \cup InRetry \cup Leased
  <2>1. Hands(jid) \in Nat /\ (Hands(jid) > 0 <=> jid \in Holds)
    BY HandsPositive
  <2>2. /\ Entries(retry, jid) \in Nat /\ (Entries(retry, jid) > 0 <=> jid \in InRetry)
        /\ Entries(processing, jid) \in Nat /\ (Entries(processing, jid) > 0 <=> jid \in Leased)
    BY <1>1, EntriesPositive DEF BrokerType, InRetry, Leased
  <2>3. \A x, y, z \in Nat : x + y + z > 0 <=> (x > 0 \/ y > 0 \/ z > 0)
    OBVIOUS
  <2>. QED  BY <2>1, <2>2, <2>3
<1>3. Holds \subseteq JIDs
  <2>1. FetcherHolds \subseteq JIDs
    BY <1>1 DEF FetcherType, FetcherHolds, Job, JobsType
  <2>2. WorkersHold \subseteq JIDs
    <3>1. \A w \in Workers : worker[w].pc \in Active => worker[w].job \in JIDs
      BY <1>1 DEF WorkersType, WorkerRecord, Job, JobsType, Active
    <3>. QED  BY <3>1 DEF WorkersHold
  <2>3. RetrierHolds \subseteq JIDs
    BY <1>1 DEF RetrierType, RetrierHolds, Job, JobsType
  <2>. QED  BY <2>1, <2>2, <2>3 DEF Holds
<1>4. InRetry \subseteq JIDs /\ Leased \subseteq JIDs
  <2>. DEFINE R == [jid : accepted, due : BOOLEAN]
              P == [jid : accepted, expired : BOOLEAN]
  <2>0. retry \in Seq(R) /\ processing \in Seq(P)
    BY <1>1 DEF BrokerType
  <2>. HIDE DEF R, P
  <2>1. /\ \A i \in DOMAIN retry : retry[i] \in R
        /\ \A i \in DOMAIN processing : processing[i] \in P
    BY <2>0
  <2>2. /\ \A i \in DOMAIN retry : retry[i].jid \in JIDs
        /\ \A i \in DOMAIN processing : processing[i].jid \in JIDs
    BY <1>1, <2>1 DEF JobsType, R, P
  <2>. QED  BY <2>2 DEF InRetry, Leased, Jids
<1>5. {jid \in JIDs : Hands(jid) + Entries(retry, jid) + Entries(processing, jid) > 0}
      = Holds \cup InRetry \cup Leased
  BY <1>2, <1>3, <1>4
<1>. QED  BY <1>5 DEF Kept, Present, InQueue

\* The same one step later.
LEMMA KeptIsPresentNext == TypeInv' => (Kept = Present)'
<1>1. TypeInv => Kept = Present
  BY KeptIsPresent
<1>. QED  BY <1>1, PTL

\* Only accepted jobs are present.
LEMMA PresentAccepted ==
  ASSUME TypeInv
  PROVE  Present \subseteq accepted
<1>1. BrokerType /\ JobsType /\ FetcherType /\ WorkersType /\ RetrierType /\ ReaperType
  BY DEF TypeInv
<1>2. FetcherHolds \subseteq accepted
  BY <1>1 DEF FetcherType, FetcherHolds, Job
<1>3. WorkersHold \subseteq accepted
  <2>1. \A w \in Workers : worker[w].pc \in Active => worker[w].job \in accepted
    BY <1>1 DEF WorkersType, WorkerRecord, Job, Active
  <2>. QED  BY <2>1 DEF WorkersHold
<1>4. RetrierHolds \subseteq accepted
  BY <1>1 DEF RetrierType, RetrierHolds, Job
<1>5. InRetry \subseteq accepted /\ Leased \subseteq accepted
  <2>. DEFINE R == [jid : accepted, due : BOOLEAN]
              P == [jid : accepted, expired : BOOLEAN]
  <2>1. retry \in Seq(R) /\ processing \in Seq(P)
    BY <1>1 DEF BrokerType
  <2>. HIDE DEF R, P
  <2>2. /\ \A i \in DOMAIN retry : retry[i] \in R
        /\ \A i \in DOMAIN processing : processing[i] \in P
    BY <2>1
  <2>3. /\ \A i \in DOMAIN retry : retry[i].jid \in accepted
        /\ \A i \in DOMAIN processing : processing[i].jid \in accepted
    BY <2>2 DEF R, P
  <2>. QED  BY <2>3 DEF InRetry, Leased, Jids
<1>6. InQueue \subseteq accepted /\ ToSet(retrier.batch) \subseteq accepted
      /\ ToSet(reaper.batch) \subseteq accepted
  BY <1>1 DEF BrokerType, RetrierType, ReaperType, InQueue, ToSet
<1>. QED  BY <1>2, <1>3, <1>4, <1>5, <1>6 DEF Present, Holds

\* A step implements a step of Delivery, or none.
LEMMA StepImplements ==
  ASSUME TypeInv, Carried, [Next]_vars
  PROVE  [Promise!Next]_(Promise!vars)
<1>1. TypeInv' /\ Carried' /\ (Moves \/ Performs \/ Buries \/ Clears \/ Accepts)
  BY StepDoes, StepCarried
<1>2. Kept = Present /\ Kept' = Present'
  BY <1>1, KeptIsPresent, KeptIsPresentNext
<1>3. Present \subseteq accepted /\ accepted \subseteq JIDs
  BY PresentAccepted DEF TypeInv, JobsType
<1>4. ASSUME NEW jid, Goes({jid})
      PROVE  Kept' = Kept \/ (Kept' = Kept \ {jid} /\ jid \in Kept)
  BY <1>2, <1>4 DEF Goes
<1>5. CASE Moves
  <2>1. UNCHANGED <<accepted, succeeded, cleared, InDead>>
    BY <1>5 DEF Moves
  <2>2. PICK jid : Goes({jid})
    BY <1>5 DEF Moves
  <2>3. CASE Kept' = Kept
    BY <2>1, <2>3 DEF Promise!vars, InDead
  <2>4. CASE Kept' = Kept \ {jid} /\ jid \in Kept
    <3>1. jid \in accepted /\ jid \notin Present'
      BY <1>2, <1>3, <2>4
    <3>2. jid \in Safe'
      BY <1>1, <2>1, <3>1 DEF Carried
    <3>3. jid \in succeeded \cup InDead \cup cleared
      BY <2>1, <3>1, <3>2 DEF Safe, Present
    <3>4. Promise!Release(jid)
      BY <2>1, <2>4, <3>3 DEF Promise!Release, InDead
    <3>. QED  BY <1>3, <3>1, <3>4 DEF Promise!Next
  <2>. QED  BY <1>4, <2>2, <2>3, <2>4
<1>6. CASE Performs
  <2>1. PICK jid \in Present : /\ succeeded' = succeeded \cup {jid} /\ Goes({jid})
                               /\ UNCHANGED <<accepted, cleared, InDead>>
    BY <1>6 DEF Performs
  <2>2. Promise!Perform(jid)
    BY <1>2, <1>4, <2>1 DEF Promise!Perform, Promise!MayRelease, InDead
  <2>. QED  BY <1>3, <2>2 DEF Promise!Next
<1>7. CASE Buries
  <2>1. PICK jid \in Present : /\ InDead' = InDead \cup {jid} /\ Goes({jid})
                               /\ UNCHANGED <<accepted, succeeded, cleared>>
    BY <1>7 DEF Buries
  <2>2. Promise!Bury(jid)
    BY <1>2, <1>4, <2>1 DEF Promise!Bury, Promise!MayRelease, InDead
  <2>. QED  BY <1>3, <2>2 DEF Promise!Next
<1>8. CASE Clears
  <2>1. /\ cleared' = cleared \cup InQueue /\ Goes(InQueue)
        /\ UNCHANGED <<accepted, succeeded, InDead>>
    BY <1>8 DEF Clears
  <2>2. InQueue \subseteq Kept
    BY <1>2 DEF Present
  <2>3. Kept' = Kept \ (InQueue \ Kept')
    BY <1>2, <2>1 DEF Goes
  <2>4. \E gone \in SUBSET InQueue : Kept' = Kept \ gone
    BY <2>3
  <2>5. Promise!Withdraw(InQueue)
    BY <2>1, <2>2, <2>4 DEF Promise!Withdraw, InDead
  <2>6. InQueue \in SUBSET JIDs
    BY <1>2, <1>3, <2>2
  <2>. QED  BY <2>5, <2>6 DEF Promise!Next
<1>9. CASE Accepts
  <2>1. PICK jid \in JIDs : /\ jid \notin accepted /\ accepted' = accepted \cup {jid}
                            /\ Present' = Present \cup {jid}
                            /\ UNCHANGED <<succeeded, cleared, InDead>>
    BY <1>9 DEF Accepts
  <2>2. Promise!Accept(jid)
    BY <1>2, <2>1 DEF Promise!Accept, InDead
  <2>. QED  BY <2>2 DEF Promise!Next
<1>. QED  BY <1>1, <1>5, <1>6, <1>7, <1>8, <1>9

\* Types and delivery always hold.
LEMMA AlwaysCarried == Spec => [](TypeInv /\ Carried)
<1>1. Init => TypeInv /\ Carried
  BY InitDoes DEF Carried
<1>2. TypeInv /\ Carried /\ [Next]_vars => (TypeInv /\ Carried)'
  BY StepDoes, StepCarried
<1>. QED  BY <1>1, <1>2, PTL DEF Spec

\* The test engine implements delivery at least once, the specification Delivery,
\* with no restriction: whatever leases run out, whatever jobs run twice through one
\* pointer, whatever is passed over when the engine stops and whenever a queue is
\* cleared, an accepted job leaves the engine only performed, buried or cleared.
THEOREM TestEngineDelivers == Spec => AtLeastOnce
<1>1. Init => Promise!Init
  <2>. SUFFICES ASSUME Init PROVE Promise!Init
    OBVIOUS
  <2>1. Kept = {} /\ InDead = {} /\ accepted = {}
    BY InitDoes, KeptIsPresent
  <2>. QED  BY <2>1 DEF Init, Promise!Init, InDead
<1>2. TypeInv /\ Carried /\ [Next]_vars => [Promise!Next]_(Promise!vars)
  BY StepImplements
<1>. QED  BY <1>1, <1>2, AlwaysCarried, PTL DEF Spec, AtLeastOnce, Promise!Spec

-----------------------------------------------------------------------------
(* Attempts. *)

\* Before Stop nobody has counted an attempt that did not fail: neither RetryCount nor a
\* worker's copy of it is ahead of the failures.
CountsInv ==
  status = "running" =>
    /\ \A jid \in JIDs : retryCount[jid] <= failures[jid]
    /\ \A w \in Workers :
         /\ worker[w].pc = "count" => worker[w].count + 1 <= failures[worker[w].job]
         /\ worker[w].pc = "schedule" => worker[w].count <= failures[worker[w].job]
    /\ retrier.pc \notin {"count", "fallback"}

\* A step of a worker keeps the counts behind the failures.
LEMMA WorkerCountsRight ==
  ASSUME TypeInv, TypeInv', CountsInv, DeadAfterAllAttempts, status = "running",
         NEW w \in Workers, Worker(w)
  PROVE  CountsInv' /\ DeadAfterAllAttempts'
<1>. DEFINE jid == worker[w].job
            Behind(u) == /\ worker[u].pc = "count" => worker[u].count + 1 <= failures[worker[u].job]
                         /\ worker[u].pc = "schedule" => worker[u].count <= failures[worker[u].job]
<1>1. BrokerType /\ JobsType /\ WorkersType /\ RetrierType
  BY DEF TypeInv
<1>2. UNCHANGED <<budget, status, retrier, accepted>>
  BY DEF Worker, JobSucceeds, JobFails, JobMeetsOpenCircuit, WorkerPostpones, WorkerCounts,
         WorkerSchedules, WorkerAcks, WorkerExits, history
<1>3. /\ \A j \in JIDs : retryCount[j] <= failures[j]
      /\ \A u \in Workers : Behind(u)
      /\ retrier.pc \notin {"count", "fallback"}
      /\ \A i \in DOMAIN dead : failures[dead[i]] >= budget[dead[i]] + 1
  BY DEF CountsInv, DeadAfterAllAttempts
<1>4. \A u \in Workers : /\ worker[u].count \in Nat
                         /\ worker[u].pc \in Active => worker[u].job \in JIDs
  BY <1>1 DEF WorkersType, WorkerRecord, Job, JobsType, Active
<1>5. /\ budget \in [JIDs -> Nat] /\ retryCount \in [JIDs -> Nat] /\ failures \in [JIDs -> Nat]
      /\ dead \in Seq(JIDs)
  BY <1>1, SeqMonotonic DEF JobsType, BrokerType
<1>6. /\ \A u \in Workers : u # w => worker'[u] = worker[u]
      /\ w \in DOMAIN worker
  <2>1. DOMAIN worker = Workers
    BY <1>1 DEF WorkersType
  <2>. QED  BY <2>1 DEF Worker, JobSucceeds, JobFails, JobMeetsOpenCircuit, WorkerPostpones,
         WorkerCounts, WorkerSchedules, WorkerAcks, WorkerExits, WorkerGoes
<1>7. ASSUME NEW pc, NEW j, NEW n, WorkerGoes(w, pc, j, n)
      PROVE  worker'[w].pc = pc /\ worker'[w].job = j /\ worker'[w].count = n
  BY <1>6, <1>7 DEF WorkerGoes
<1>8. ASSUME \A j \in JIDs : retryCount'[j] <= failures'[j],
             \A u \in Workers : Behind(u)',
             \A i \in DOMAIN dead' : failures'[dead'[i]] >= budget[dead'[i]] + 1
      PROVE  CountsInv' /\ DeadAfterAllAttempts'
  BY <1>2, <1>3, <1>8 DEF CountsInv, DeadAfterAllAttempts
<1>9. CASE JobFails(w)
  <2>1. /\ worker[w].pc = "perform" /\ failures' = [failures EXCEPT ![jid] = @ + 1]
        /\ WorkerGoes(w, "count", jid, retryCount[jid]) /\ UNCHANGED <<retryCount, dead>>
    BY <1>9 DEF JobFails, RecordFailure
  <2>2. jid \in JIDs
    BY <1>4, <2>1 DEF Active
  <2>3. failures'[jid] = failures[jid] + 1 /\ \A j \in JIDs : failures'[j] >= failures[j]
    BY <1>5, <2>1, <2>2
  <2>4. failures' \in [JIDs -> Nat]
    BY <1>5, <2>1, <2>2
  <2>5. \A j \in JIDs : retryCount'[j] <= failures'[j]
    BY <1>3, <1>5, <2>1, <2>3, <2>4
  <2>6. Behind(w)'
    BY <1>3, <1>5, <1>7, <2>1, <2>2, <2>3
  <2>7. ASSUME NEW u \in Workers, u # w
        PROVE  Behind(u)'
    <3>1. worker'[u] = worker[u] /\ Behind(u) /\ worker[u].count \in Nat
      BY <1>3, <1>4, <1>6, <2>7
    <3>2. CASE worker[u].pc \in {"count", "schedule"}
      <4>1. worker[u].job \in JIDs
        BY <1>4, <3>2 DEF Active
      <4>. HIDE DEF jid
      <4>2. failures[worker[u].job] \in Nat /\ failures'[worker[u].job] \in Nat
            /\ failures'[worker[u].job] >= failures[worker[u].job]
        BY <1>5, <2>3, <2>4, <4>1
      <4>. QED  BY <3>1, <4>2
    <3>3. CASE worker[u].pc \notin {"count", "schedule"}
      BY <3>1, <3>3
    <3>. QED  BY <3>2, <3>3
  <2>8. ASSUME NEW i \in DOMAIN dead
        PROVE  failures'[dead[i]] >= budget[dead[i]] + 1
    <3>1. dead[i] \in JIDs
      BY <1>5
    <3>2. failures[dead[i]] >= budget[dead[i]] + 1
      BY <1>3
    <3>. HIDE DEF jid
    <3>3. failures'[dead[i]] >= failures[dead[i]] /\ failures[dead[i]] \in Nat
          /\ failures'[dead[i]] \in Nat /\ budget[dead[i]] \in Nat
      BY <1>5, <2>3, <2>4, <3>1
    <3>. QED  BY <3>2, <3>3
  <2>. QED  BY <1>8, <2>1, <2>5, <2>6, <2>7, <2>8
<1>10. CASE WorkerCounts(w)
  <2>1. /\ worker[w].pc = "count" /\ retryCount' = [retryCount EXCEPT ![jid] = worker[w].count + 1]
        /\ WorkerGoes(w, "schedule", jid, worker[w].count + 1) /\ UNCHANGED <<failures, dead>>
    BY <1>10 DEF WorkerCounts, brokerVars, history
  <2>2. jid \in JIDs /\ worker[w].count + 1 <= failures[jid]
    BY <1>3, <1>4, <2>1 DEF Active
  <2>3. \A j \in JIDs : retryCount'[j] <= failures'[j]
    BY <1>3, <1>5, <2>1, <2>2
  <2>4. Behind(w)'
    BY <1>7, <2>1, <2>2
  <2>5. \A u \in Workers : u # w => Behind(u)'
    BY <1>3, <1>6, <2>1
  <2>. QED  BY <1>3, <1>8, <2>1, <2>3, <2>4, <2>5
<1>11. CASE WorkerSchedules(w)
  <2>1. /\ worker[w].pc = "schedule" /\ WorkerGoes(w, "ack", jid, 0)
        /\ UNCHANGED <<failures, retryCount>>
    BY <1>11 DEF WorkerSchedules, history
  <2>2. \E count \in {worker[w].count, retryCount[jid]} :
          dead' = dead \/ (count > budget[jid] /\ dead' = Append(dead, jid))
    <3>1. jid \in JIDs
      BY <1>4, <2>1 DEF Active
    <3>2. PICK count \in {worker[w].count, retryCount[jid]} :
            IF count <= budget[jid] THEN AddToRetry(jid) ELSE AddToDead(jid)
      BY <1>11 DEF WorkerSchedules, CountSeen, MayRetry
    <3>3. count \in Nat /\ budget[jid] \in Nat
      BY <1>4, <1>5, <3>1
    <3>. QED  BY <3>2, <3>3 DEF AddToRetry, AddToDead
  <2>3. jid \in JIDs /\ \A count \in {worker[w].count, retryCount[jid]} : count <= failures[jid]
    BY <1>3, <1>4, <2>1 DEF Active
  <2>4. Behind(w)'
    BY <1>7, <2>1
  <2>5. \A u \in Workers : u # w => Behind(u)'
    BY <1>3, <1>6, <2>1
  <2>6. dead' = dead \/ (failures[jid] >= budget[jid] + 1 /\ dead' = Append(dead, jid))
    <3>1. budget[jid] \in Nat /\ failures[jid] \in Nat /\ worker[w].count \in Nat
          /\ retryCount[jid] \in Nat
      BY <1>4, <1>5, <2>3
    <3>. HIDE DEF jid
    <3>. QED  BY <2>2, <2>3, <3>1
  <2>7. \A i \in DOMAIN dead' : failures[dead'[i]] >= budget[dead'[i]] + 1
    <3>1. CASE dead' = dead
      BY <1>3, <3>1
    <3>2. CASE failures[jid] >= budget[jid] + 1 /\ dead' = Append(dead, jid)
      <4>. HIDE DEF jid
      <4>0. dead' = Append(dead, jid) /\ jid \in JIDs
        BY <2>3, <3>2
      <4>1. \A i \in DOMAIN dead' : (i \in DOMAIN dead /\ dead'[i] = dead[i]) \/ dead'[i] = jid
        BY <1>5, <4>0
      <4>. QED  BY <1>3, <3>2, <4>1
    <3>. QED  BY <2>6, <3>1, <3>2
  <2>. QED  BY <1>3, <1>8, <2>1, <2>4, <2>5, <2>7
<1>12. CASE JobSucceeds(w) \/ JobMeetsOpenCircuit(w) \/ WorkerPostpones(w) \/ WorkerAcks(w)
            \/ WorkerExits(w)
  <2>1. /\ UNCHANGED <<failures, retryCount, dead>>
        /\ \E pc \in {"ack", "postpone", "idle", "exited"} : \E j, n : WorkerGoes(w, pc, j, n)
    BY <1>12 DEF JobSucceeds, JobMeetsOpenCircuit, WorkerPostpones, WorkerAcks, WorkerExits,
                 RecordSuccess, RecordFailure, AddToRetry, Ack, brokerVars, history
  <2>2. Behind(w)'
    BY <1>7, <2>1
  <2>3. \A u \in Workers : u # w => Behind(u)'
    BY <1>3, <1>6, <2>1
  <2>. QED  BY <1>3, <1>8, <2>1, <2>2, <2>3
<1>. QED  BY <1>9, <1>10, <1>11, <1>12 DEF Worker

\* Every step does.
LEMMA StepCountsRight ==
  ASSUME TypeInv, CountsInv, DeadAfterAllAttempts, [Next]_vars
  PROVE  CountsInv' /\ DeadAfterAllAttempts'
<1>1. TypeInv'
  BY StepDoes
<1>. SUFFICES ASSUME status' = "running"
              PROVE  CountsInv' /\ DeadAfterAllAttempts'
  BY DEF CountsInv, DeadAfterAllAttempts
<1>2. status = "running"
  BY DEF Next, vars, engineVars, ClientEnqueue, ClearQueue, Stop, StopReturns, Stopped, LeaseRunsOut,
         BackoffEnds, Fetcher, FetcherTop, FetcherPoll, FetcherSend, FetcherHandBack, FetcherAck,
         Retrier, RetryTick, RetryRemoves, RetryEnqueues, RetryCounts, RetryFallsBack, RetryExits,
         Reaper, ReaperTick, ReaperEnqueues, ReaperExits, Worker, JobSucceeds, JobFails,
         JobMeetsOpenCircuit, WorkerPostpones, WorkerCounts, WorkerSchedules, WorkerAcks, WorkerExits
<1>3. CASE \E w \in Workers : Worker(w)
  BY <1>1, <1>2, <1>3, WorkerCountsRight
<1>4. CASE \E jid \in JIDs : ClientEnqueue(jid)
  <2>1. PICK jid \in JIDs : ClientEnqueue(jid)
    BY <1>4
  <2>2. /\ jid \notin accepted /\ UNCHANGED <<retryCount, worker, retrier, failures, dead>>
        /\ \E n \in Budgets : budget' = [budget EXCEPT ![jid] = n]
    BY <2>1 DEF ClientEnqueue, Enqueue, engineVars
  <2>3. \A i \in DOMAIN dead : dead[i] \in accepted /\ dead[i] \in JIDs
    BY DEF TypeInv, BrokerType, JobsType
  <2>4. \A i \in DOMAIN dead : budget'[dead[i]] = budget[dead[i]]
    BY <2>2, <2>3 DEF TypeInv, JobsType
  <2>. QED  BY <1>2, <2>2, <2>4 DEF CountsInv, DeadAfterAllAttempts
<1>5. CASE Fetcher
  <2>1. UNCHANGED <<budget, retryCount, retrier, failures, dead>>
    BY <1>5 DEF Fetcher, FetcherTop, FetcherPoll, FetcherSend, FetcherHandBack, FetcherAck, Dequeue,
                Enqueue, Ack, brokerVars, history
  <2>2. \A w \in Workers : worker'[w] = worker[w] \/ worker'[w].pc = "perform"
    BY <1>5 DEF Fetcher, FetcherTop, FetcherPoll, FetcherSend, FetcherHandBack, FetcherAck, TypeInv,
                WorkersType
  <2>. QED  BY <1>2, <2>1, <2>2 DEF CountsInv, DeadAfterAllAttempts
<1>6. CASE Retrier
  <2>1. retrier.pc \notin {"count", "fallback"}
    BY <1>2 DEF CountsInv
  <2>2. /\ UNCHANGED <<budget, retryCount, worker, failures, dead>>
        /\ retrier'.pc \notin {"count", "fallback"}
    BY <1>2, <1>6, <2>1 DEF Retrier, RetryTick, RetryRemoves, RetryEnqueues, RetryCounts,
         RetryFallsBack, RetryExits, RetrierGoes, RemoveFromRetry, Enqueue, brokerVars, history
  <2>. QED  BY <1>2, <2>2 DEF CountsInv, DeadAfterAllAttempts
<1>7. CASE \/ Reaper \/ ClearQueue \/ Stop \/ StopReturns \/ Stopped \/ LeaseRunsOut \/ BackoffEnds
           \/ UNCHANGED vars
  <2>1. UNCHANGED <<budget, retryCount, worker, retrier, failures, dead>>
    BY <1>7 DEF Reaper, ReaperTick, ReaperEnqueues, ReaperExits, ClearQueue, Stop, StopReturns, Stopped,
                LeaseRunsOut, BackoffEnds, vars, engineVars, history, brokerVars, ReapOrphanedJobs,
                Enqueue, DeleteKey, Close, LeaseExpires, RetryFallsDue
  <2>. QED  BY <1>2, <2>1 DEF CountsInv, DeadAfterAllAttempts
<1>. QED  BY <1>3, <1>4, <1>5, <1>6, <1>7 DEF Next

\* In the test engine too a job goes to the dead list only after it has failed retry + 1
\* times, as long as the engine is not stopped: two workers that count one job's attempts
\* without a lock lose updates and see each other's, and never count one too many.
THEOREM TestEngineDeadAfterFailures == Spec => []DeadAfterAllAttempts
<1>1. Init => CountsInv /\ DeadAfterAllAttempts
  <2>. SUFFICES ASSUME Init PROVE CountsInv /\ DeadAfterAllAttempts
    OBVIOUS
  <2>1. /\ \A jid \in JIDs : retryCount[jid] = 0 /\ failures[jid] = 0
        /\ \A w \in Workers : worker[w].pc = "idle"
        /\ retrier.pc = "loop" /\ dead = <<>>
    BY DEF Init, BrokerInit
  <2>. QED  BY <2>1 DEF CountsInv, DeadAfterAllAttempts
<1>2. TypeInv /\ CountsInv /\ DeadAfterAllAttempts /\ [Next]_vars
        => CountsInv' /\ DeadAfterAllAttempts'
  BY StepCountsRight
<1>. QED  BY <1>1, <1>2, AlwaysCarried, PTL DEF Spec

-----------------------------------------------------------------------------
(* How often a list has a job. *)

\* One entry of a list goes, and those behind it move up by one.
LEMMA CountShifted ==
  ASSUME NEW k \in Nat, NEW p \in 1..k, NEW J \in SUBSET (1..k), NEW K \in SUBSET (1..(k - 1)),
         \A i \in 1..(k - 1) : i \in K <=> (IF i < p THEN i ELSE i + 1) \in J
  PROVE  Cardinality(K) \in Nat /\ Cardinality(J) = Cardinality(K) + One(p \in J)
<1>. DEFINE up(i) == IF i < p THEN i ELSE i + 1
            L == J \ {p}
            f == [i \in K |-> up(i)]
<1>1. IsFiniteSet(J) /\ IsFiniteSet(K)
  <2>1. 1 \in Int /\ k \in Int /\ k - 1 \in Int
    OBVIOUS
  <2>2. IsFiniteSet(1..k) /\ IsFiniteSet(1..(k - 1))
    BY <2>1, FS_Interval
  <2>. QED  BY <2>2, FS_Subset
<1>2. \A i \in K : up(i) \in L
  OBVIOUS
<1>3. \A i, j \in K : up(i) = up(j) => i = j
  OBVIOUS
<1>4. ASSUME NEW n \in L
      PROVE  \E i \in K : up(i) = n
  <2>1. CASE n < p
    <3>1. n \in 1..(k - 1) /\ up(n) = n
      BY <2>1
    <3>. QED  BY <3>1
  <2>2. CASE n > p
    <3>1. n - 1 \in 1..(k - 1) /\ up(n - 1) = n
      BY <2>2
    <3>. QED  BY <3>1
  <2>. QED  BY <2>1, <2>2
<1>. HIDE DEF up, L
<1>5. f \in Bijection(K, L)
  <2>1. f \in [K -> L] /\ \A i \in K : f[i] = up(i)
    BY <1>2
  <2>. HIDE DEF f
  <2>2. f \in Injection(K, L)
    BY <1>3, <2>1 DEF Injection, IsInjective
  <2>3. f \in Surjection(K, L)
    BY <1>4, <2>1 DEF Surjection
  <2>. QED  BY <2>2, <2>3 DEF Bijection
<1>. HIDE DEF f
<1>6. Cardinality(L) = Cardinality(K)
  BY <1>1, <1>5, FS_Bijection DEF ExistsBijection
<1>7. Cardinality(L) = IF p \in J THEN Cardinality(J) - 1 ELSE Cardinality(J)
  BY <1>1, FS_RemoveElement DEF L
<1>8. Cardinality(K) \in Nat /\ Cardinality(J) \in Nat
  BY <1>1, FS_CardinalityType
<1>. QED  BY <1>6, <1>7, <1>8 DEF One

\* What Append does to the number of entries on a job.
LEMMA CountAppend ==
  ASSUME NEW S, NEW list \in Seq(S), NEW x \in S, NEW jid
  PROVE  /\ Pointers(Append(list, x), jid) = Pointers(list, jid) + One(x = jid)
         /\ Entries(Append(list, x), jid) = Entries(list, jid) + One(x.jid = jid)
<1>. DEFINE new == Append(list, x)
            k == Len(list)
            P == {i \in DOMAIN list : list[i] = jid}
            Q == {i \in DOMAIN new : new[i] = jid}
            E == {i \in DOMAIN list : list[i].jid = jid}
            F == {i \in DOMAIN new : new[i].jid = jid}
<1>1. /\ new[k + 1] = x /\ \A i \in 1..k : new[i] = list[i]
      /\ DOMAIN new = 1..(k + 1) /\ DOMAIN list = 1..k /\ k \in Nat
  OBVIOUS
<1>2. \A i : i \in 1..(k + 1) <=> (i \in 1..k \/ i = k + 1)
  BY <1>1
<1>3. k + 1 \notin 1..k
  BY <1>1
<1>4. P \in SUBSET (1..k) /\ E \in SUBSET (1..k)
  BY <1>1
<1>. HIDE DEF new, k
<1>5. Q = IF x = jid THEN P \cup {k + 1} ELSE P
  BY <1>1, <1>2, <1>3
<1>6. F = IF x.jid = jid THEN E \cup {k + 1} ELSE E
  BY <1>1, <1>2, <1>3
<1>7. Pointers(new, jid) = Cardinality(Q) /\ Pointers(list, jid) = Cardinality(P)
      /\ Entries(new, jid) = Cardinality(F) /\ Entries(list, jid) = Cardinality(E)
  BY DEF Pointers, Entries
<1>. HIDE DEF P, Q, E, F
<1>8. IsFiniteSet(P) /\ IsFiniteSet(E)
  <2>1. 1 \in Int /\ k \in Int
    BY <1>1
  <2>2. IsFiniteSet(1..k)
    BY <2>1, FS_Interval
  <2>. QED  BY <1>4, <2>2, FS_Subset
<1>9. Cardinality(P \cup {k + 1}) = Cardinality(P) + 1 /\ Cardinality(E \cup {k + 1}) = Cardinality(E) + 1
      /\ Cardinality(P) \in Nat /\ Cardinality(E) \in Nat
  BY <1>3, <1>4, <1>8, FS_AddElement, FS_CardinalityType
<1>. QED  BY <1>5, <1>6, <1>7, <1>9 DEF One, new

\* What a removal does to it.
LEMMA CountDrop ==
  ASSUME NEW S, NEW list \in Seq(S), NEW new \in Seq(S), NEW p \in 1..Len(list),
         Drops(list, new, p), NEW jid
  PROVE  /\ Pointers(list, jid) = Pointers(new, jid) + One(list[p] = jid)
         /\ Entries(list, jid) = Entries(new, jid) + One(list[p].jid = jid)
<1>. DEFINE k == Len(list)
            P == {i \in DOMAIN list : list[i] = jid}
            Q == {i \in DOMAIN new : new[i] = jid}
            E == {i \in DOMAIN list : list[i].jid = jid}
            F == {i \in DOMAIN new : new[i].jid = jid}
<1>1. /\ k \in Nat /\ p \in 1..k /\ Len(new) = k - 1
      /\ DOMAIN list = 1..k /\ DOMAIN new = 1..(k - 1)
      /\ \A i \in 1..(k - 1) : new[i] = list[IF i < p THEN i ELSE i + 1]
  BY DEF Drops
<1>. HIDE DEF k
<1>2. \A i \in 1..(k - 1) : (IF i < p THEN i ELSE i + 1) \in 1..k
  BY <1>1
<1>3. \A i \in 1..(k - 1) : /\ (i \in Q) <=> (IF i < p THEN i ELSE i + 1) \in P
                            /\ (i \in F) <=> (IF i < p THEN i ELSE i + 1) \in E
  <2>. SUFFICES ASSUME NEW i \in 1..(k - 1)
                PROVE  /\ (i \in Q) <=> (IF i < p THEN i ELSE i + 1) \in P
                       /\ (i \in F) <=> (IF i < p THEN i ELSE i + 1) \in E
    OBVIOUS
  <2>. DEFINE n == IF i < p THEN i ELSE i + 1
  <2>1. new[i] = list[n] /\ n \in DOMAIN list /\ i \in DOMAIN new
    BY <1>1, <1>2
  <2>. HIDE DEF n
  <2>2. (i \in Q <=> n \in P) /\ (i \in F <=> n \in E)
    BY <2>1
  <2>. QED  BY <2>2 DEF n
<1>4. /\ P \in SUBSET (1..k) /\ E \in SUBSET (1..k)
      /\ Q \in SUBSET (1..(k - 1)) /\ F \in SUBSET (1..(k - 1))
      /\ (p \in P <=> list[p] = jid) /\ (p \in E <=> list[p].jid = jid)
  BY <1>1
<1>5. Pointers(new, jid) = Cardinality(Q) /\ Pointers(list, jid) = Cardinality(P)
      /\ Entries(new, jid) = Cardinality(F) /\ Entries(list, jid) = Cardinality(E)
  BY DEF Pointers, Entries
<1>. HIDE DEF P, Q, E, F
<1>6. Cardinality(P) = Cardinality(Q) + One(p \in P)
  <2>1. \A i \in 1..(k - 1) : i \in Q <=> (IF i < p THEN i ELSE i + 1) \in P
    BY <1>3
  <2>2. k \in Nat /\ p \in 1..k /\ P \in SUBSET (1..k) /\ Q \in SUBSET (1..(k - 1))
    BY <1>1, <1>4
  <2>. QED  BY ONLY <2>1, <2>2, CountShifted
<1>7. Cardinality(E) = Cardinality(F) + One(p \in E)
  <2>1. \A i \in 1..(k - 1) : i \in F <=> (IF i < p THEN i ELSE i + 1) \in E
    BY <1>3
  <2>2. k \in Nat /\ p \in 1..k /\ E \in SUBSET (1..k) /\ F \in SUBSET (1..(k - 1))
    BY <1>1, <1>4
  <2>. QED  BY ONLY <2>1, <2>2, CountShifted
<1>. QED  BY <1>4, <1>5, <1>6, <1>7 DEF One

\* What Tail does to it.
LEMMA CountTail ==
  ASSUME NEW S, NEW list \in Seq(S), list # <<>>, NEW jid
  PROVE  Pointers(list, jid) = Pointers(Tail(list), jid) + One(Head(list) = jid)
<1>. DEFINE tail == Tail(list)
<1>1. tail \in Seq(S) /\ Drops(list, tail, 1) /\ Head(list) = list[1] /\ 1 \in 1..Len(list)
  BY TailSets
<1>. HIDE DEF tail
<1>2. Pointers(list, jid) = Pointers(tail, jid) + One(list[1] = jid)
  BY <1>1, CountDrop
<1>. QED  BY <1>1, <1>2 DEF tail

\* What Without does to it: one entry goes if there is one, and none of another job.
LEMMA CountWithout ==
  ASSUME NEW S, NEW list \in Seq(S), NEW gone, Entries(list, gone) > 0, NEW jid
  PROVE  Entries(list, jid) = Entries(Without(list, gone), jid) + One(jid = gone)
<1>. DEFINE new == Without(list, gone)
<1>1. \E i \in 1..Len(list) : list[i].jid = gone
  <2>1. gone \in Jids(list)
    BY EntriesPositive
  <2>. QED  BY <2>1 DEF Jids
<1>2. new \in Seq(S) /\ \E p \in 1..Len(list) : list[p].jid = gone /\ Drops(list, new, p)
  BY <1>1, WithoutDrops
<1>. HIDE DEF new
<1>3. PICK p \in 1..Len(list) : list[p].jid = gone /\ Drops(list, new, p)
  BY <1>2
<1>4. Entries(list, jid) = Entries(new, jid) + One(list[p].jid = jid)
  BY <1>2, <1>3, CountDrop
<1>. QED  BY <1>3, <1>4 DEF new, One

\* A flag does not count.
LEMMA CountFlags ==
  ASSUME NEW list, NEW new, DOMAIN new = DOMAIN list,
         \A i \in DOMAIN list : new[i].jid = list[i].jid, NEW jid
  PROVE  Entries(new, jid) = Entries(list, jid)
<1>1. {i \in DOMAIN new : new[i].jid = jid} = {i \in DOMAIN list : list[i].jid = jid}
  OBVIOUS
<1>. QED  BY <1>1 DEF Entries

\* One worker changes.
LEMMA CountWorkers ==
  ASSUME NEW A \in SUBSET Workers, NEW B \in SUBSET Workers, NEW w \in Workers,
         \A v \in Workers : v # w => (v \in A <=> v \in B)
  PROVE  /\ Cardinality(A) \in Nat /\ Cardinality(B) \in Nat
         /\ Cardinality(A) + One(w \in B) = Cardinality(B) + One(w \in A)
<1>1. IsFiniteSet(A) /\ IsFiniteSet(B)
  BY MemoryAssumption, FS_Subset
<1>2. A \ {w} = B \ {w}
  OBVIOUS
<1>3. /\ Cardinality(A \ {w}) = IF w \in A THEN Cardinality(A) - 1 ELSE Cardinality(A)
      /\ Cardinality(B \ {w}) = IF w \in B THEN Cardinality(B) - 1 ELSE Cardinality(B)
  BY <1>1, FS_RemoveElement
<1>4. Cardinality(A) \in Nat /\ Cardinality(B) \in Nat
  BY <1>1, FS_CardinalityType
<1>. QED  BY <1>2, <1>3, <1>4 DEF One

-----------------------------------------------------------------------------
(* One place for each job. *)

\* The workers that have yet to perform or to store the job, and all that have it.
Working(jid) == {w \in Workers : worker[w].pc \in Active /\ worker[w].job = jid}
Holding(jid) == {w \in Workers : worker[w].job = jid}

FetcherSends(jid) == One(fetcher.pc = "send" /\ fetcher.job = jid)

OnePlace == \A jid \in JIDs : Copies(jid) = One(jid \in accepted)

OneLease ==
  \A jid \in JIDs :
    Entries(processing, jid) = One(fetcher.job = jid) + Cardinality(Holding(jid))

NoneExpired == \A i \in DOMAIN processing : ~processing[i].expired

\* The jobs of the batch are still in the retry list, each once.
BatchInRetry ==
  /\ \A i \in DOMAIN retrier.batch : Entries(retry, retrier.batch[i]) = 1
  /\ \A i, k \in DOMAIN retrier.batch : retrier.batch[i] = retrier.batch[k] => i = k

\* What holds as long as no lease runs out.
Even == OnePlace /\ OneLease /\ NoneExpired /\ reaper.batch = <<>> /\ BatchInRetry

\* Copies is a sum of numbers.
LEMMA CopiesSum ==
  ASSUME TypeInv, NEW jid
  PROVE  /\ Pointers(queue, jid) \in Nat /\ Entries(retry, jid) \in Nat
         /\ Pointers(dead, jid) \in Nat /\ Entries(processing, jid) \in Nat
         /\ Cardinality(Working(jid)) \in Nat /\ Cardinality(Holding(jid)) \in Nat
<1>1. BrokerType
  BY DEF TypeInv
<1>2. /\ Pointers(queue, jid) \in Nat /\ Entries(retry, jid) \in Nat
      /\ Pointers(dead, jid) \in Nat /\ Entries(processing, jid) \in Nat
  BY <1>1, EntriesPositive DEF BrokerType
<1>3. Working(jid) \in SUBSET Workers /\ Holding(jid) \in SUBSET Workers
  BY DEF Working, Holding
<1>4. Cardinality(Working(jid)) \in Nat /\ Cardinality(Holding(jid)) \in Nat
  BY <1>3, MemoryAssumption, FS_Subset, FS_CardinalityType
<1>. QED  BY <1>2, <1>4

\* Its terms, before and after a step.
LEMMA CopiesAre ==
  ASSUME NEW jid
  PROVE  /\ Copies(jid) = Pointers(queue, jid) + Entries(retry, jid) + Pointers(dead, jid)
                          + (FetcherSends(jid) + Cardinality(Working(jid)) + One(retrier.job = jid))
                          + One(jid \in succeeded) + One(jid \in cleared)
         /\ Copies(jid)' = Pointers(queue', jid) + Entries(retry', jid) + Pointers(dead', jid)
                           + (FetcherSends(jid)' + Cardinality(Working(jid)') + One(retrier'.job = jid))
                           + One(jid \in succeeded') + One(jid \in cleared')
BY DEF Copies, Hands, Working, Active, FetcherSends

\* A worker takes up a job, goes on with it or sets it down.
LEMMA WorkerCounted ==
  ASSUME WorkersType, NEW w \in Workers, NEW pc, NEW job, NEW count,
         WorkerGoes(w, pc, job, count), NEW jid
  PROVE  /\ Cardinality(Working(jid)) + One(pc \in Active /\ job = jid)
            = Cardinality(Working(jid)') + One(worker[w].pc \in Active /\ worker[w].job = jid)
         /\ Cardinality(Holding(jid)) + One(job = jid)
            = Cardinality(Holding(jid)') + One(worker[w].job = jid)
<1>1. /\ worker'[w].pc = pc /\ worker'[w].job = job
      /\ \A v \in Workers : v # w => worker'[v] = worker[v]
  BY DEF WorkersType, WorkerGoes
<1>2. /\ Working(jid) \in SUBSET Workers /\ Holding(jid) \in SUBSET Workers
      /\ Working(jid)' \in SUBSET Workers /\ Holding(jid)' \in SUBSET Workers
  BY DEF Working, Holding
<1>3. /\ \A v \in Workers : v # w => (v \in Working(jid) <=> v \in Working(jid)')
      /\ \A v \in Workers : v # w => (v \in Holding(jid) <=> v \in Holding(jid)')
  BY <1>1 DEF Working, Holding, Active
<1>4. /\ w \in Working(jid)' <=> (pc \in Active /\ job = jid)
      /\ w \in Working(jid) <=> (worker[w].pc \in Active /\ worker[w].job = jid)
      /\ w \in Holding(jid)' <=> job = jid
      /\ w \in Holding(jid) <=> worker[w].job = jid
  BY <1>1 DEF Working, Holding, Active
<1>5. Cardinality(Working(jid)) + One(w \in Working(jid)')
      = Cardinality(Working(jid)') + One(w \in Working(jid))
  BY <1>2, <1>3, CountWorkers
<1>6. Cardinality(Holding(jid)) + One(w \in Holding(jid)')
      = Cardinality(Holding(jid)') + One(w \in Holding(jid))
  BY <1>2, <1>3, CountWorkers
<1>. QED  BY <1>4, <1>5, <1>6 DEF One

\* Ack takes one lease of its job, and leaves none expired that was not.
LEMMA AckCounted ==
  ASSUME BrokerType, NEW gone, Ack(gone), NoneExpired, NEW jid
  PROVE  /\ NoneExpired'
         /\ Entries(processing, gone) > 0
            => Entries(processing, jid) = Entries(processing', jid) + One(jid = gone)
<1>. DEFINE S == [jid : accepted, expired : BOOLEAN]
<1>1. processing \in Seq(S) /\ processing' = Without(processing, gone)
  BY DEF BrokerType, Ack
<1>. HIDE DEF S
<1>2. NoneExpired'
  <2>1. /\ processing' \in Seq(S)
        /\ \/ processing' = processing
           \/ \E p \in 1..Len(processing) : Drops(processing, processing', p)
    BY <1>1, WithoutDrops
  <2>2. CASE processing' = processing
    BY <2>2 DEF NoneExpired
  <2>3. ASSUME NEW p \in 1..Len(processing), Drops(processing, processing', p)
        PROVE  NoneExpired'
    <3>. SUFFICES ASSUME NEW i \in 1..Len(processing')
                  PROVE  ~processing'[i].expired
      BY <2>1 DEF NoneExpired
    <3>. DEFINE n == IF i < p THEN i ELSE i + 1
    <3>1. processing'[i] = processing[n] /\ Len(processing') = Len(processing) - 1
      BY <2>3 DEF Drops
    <3>2. n \in DOMAIN processing
      BY <1>1, <2>1, <3>1
    <3>. HIDE DEF n
    <3>. QED  BY <3>1, <3>2 DEF NoneExpired
  <2>. QED  BY <2>1, <2>2, <2>3
<1>3. Entries(processing, gone) > 0
      => Entries(processing, jid) = Entries(processing', jid) + One(jid = gone)
  BY <1>1, CountWithout
<1>. QED  BY <1>2, <1>3

\* A job that somebody has in hand is in no list, neither done nor cleared, and not in
\* the hands of another.
LEMMA HeldOnly ==
  ASSUME TypeInv, OnePlace, NEW jid \in JIDs,
         FetcherSends(jid) + Cardinality(Working(jid)) + One(retrier.job = jid) > 0
  PROVE  /\ Pointers(queue, jid) = 0 /\ Entries(retry, jid) = 0 /\ Pointers(dead, jid) = 0
         /\ jid \notin succeeded /\ jid \notin cleared /\ jid \in accepted
         /\ FetcherSends(jid) + Cardinality(Working(jid)) + One(retrier.job = jid) = 1
<1>. DEFINE q == Pointers(queue, jid)
            r == Entries(retry, jid)
            d == Pointers(dead, jid)
            h == FetcherSends(jid) + Cardinality(Working(jid)) + One(retrier.job = jid)
<1>1. q \in Nat /\ r \in Nat /\ d \in Nat /\ h \in Nat
  BY CopiesSum DEF FetcherSends, One
<1>2. Copies(jid) = q + r + d + h + One(jid \in succeeded) + One(jid \in cleared)
  BY CopiesAre
<1>3. Copies(jid) = One(jid \in accepted) /\ h > 0
  BY DEF OnePlace
<1>. HIDE DEF q, r, d, h
<1>4. q = 0 /\ r = 0 /\ d = 0 /\ h = 1 /\ jid \notin succeeded /\ jid \notin cleared /\ jid \in accepted
  BY <1>1, <1>2, <1>3 DEF One
<1>. QED  BY <1>4 DEF q, r, d, h

\* The batch stays right when the jobs in it keep their entries.
LEMMA SameBatch ==
  ASSUME BatchInRetry, retrier'.batch = retrier.batch,
         \A i \in DOMAIN retrier.batch :
           Entries(retry', retrier.batch[i]) = Entries(retry, retrier.batch[i])
  PROVE  BatchInRetry'
BY DEF BatchInRetry

\* The fetcher carries a job from the queue to a worker, or back, and its lease with it.
LEMMA FetcherConserves ==
  ASSUME TypeInv, Even, Fetcher
  PROVE  Even'
<1>1. BrokerType /\ JobsType /\ FetcherType /\ WorkersType /\ RetrierType
  BY DEF TypeInv
<1>2. /\ UNCHANGED <<retrier, reaper, retry, dead, accepted, succeeded, cleared>>
      /\ BatchInRetry' /\ (reaper.batch = <<>>)'
  <2>1. UNCHANGED <<retrier, reaper, retry, dead, accepted, succeeded, cleared>>
    BY DEF Fetcher, FetcherTop, FetcherPoll, FetcherSend, FetcherHandBack, FetcherAck, Dequeue,
           Enqueue, Ack, brokerVars, history
  <2>. QED  BY <2>1, SameBatch DEF Even
<1>3. NoJob \notin JIDs /\ (fetcher.pc \in {"send", "ack"} => fetcher.job \in JIDs)
      /\ (fetcher.pc \notin {"send", "ack"} => fetcher.job = NoJob)
  BY <1>1, MemoryAssumption DEF FetcherType, Job, JobsType
<1>4. OnePlace /\ OneLease /\ NoneExpired
  BY DEF Even
<1>5. ASSUME NEW jid \in JIDs
      PROVE  /\ Pointers(queue, jid) \in Nat /\ Entries(retry, jid) \in Nat
             /\ Pointers(dead, jid) \in Nat /\ Entries(processing, jid) \in Nat
             /\ Cardinality(Working(jid)) \in Nat /\ Cardinality(Holding(jid)) \in Nat
  BY CopiesSum
<1>6. ASSUME NEW jid \in JIDs,
             Pointers(queue, jid) + FetcherSends(jid) + Cardinality(Working(jid))
             = Pointers(queue', jid) + FetcherSends(jid)' + Cardinality(Working(jid)'),
             Pointers(queue', jid) \in Int, Cardinality(Working(jid)') \in Int
      PROVE  Copies(jid)' = One(jid \in accepted')
  <2>. DEFINE h == FetcherSends(jid)
              k == FetcherSends(jid)'
              W == Cardinality(Working(jid))
              V == Cardinality(Working(jid)')
              q == Pointers(queue, jid)
              p == Pointers(queue', jid)
              r == Entries(retry, jid)
              d == Pointers(dead, jid)
              t == One(retrier.job = jid)
              s == One(jid \in succeeded)
              c == One(jid \in cleared)
  <2>1. /\ h \in Int /\ k \in Int /\ W \in Int /\ V \in Int /\ q \in Int /\ p \in Int
        /\ r \in Int /\ d \in Int /\ t \in Int /\ s \in Int /\ c \in Int
        /\ q + h + W = p + k + V
    BY <1>5, <1>6 DEF FetcherSends, One
  <2>2. Copies(jid) = q + r + d + (h + W + t) + s + c /\ Copies(jid)' = p + r + d + (k + V + t) + s + c
    BY <1>2, CopiesAre
  <2>3. Copies(jid) = One(jid \in accepted)
    BY <1>4 DEF OnePlace
  <2>. HIDE DEF h, k, W, V, q, p, r, d, t, s, c
  <2>4. Copies(jid)' = Copies(jid)
    BY <2>1, <2>2
  <2>. QED  BY <1>2, <2>3, <2>4
<1>7. CASE FetcherTop
  <2>1. fetcher.pc = "top" /\ UNCHANGED <<queue, processing, worker>>
        /\ fetcher'.pc # "send" /\ fetcher'.job = NoJob
    BY <1>7 DEF FetcherTop, FetcherGoes, brokerVars
  <2>2. fetcher.job = NoJob
    BY <1>3, <2>1
  <2>3. \A jid \in JIDs : Working(jid)' = Working(jid) /\ Holding(jid)' = Holding(jid)
                          /\ FetcherSends(jid)' = FetcherSends(jid)
    BY <2>1, <2>2 DEF Working, Holding, FetcherSends, Active
  <2>4. OnePlace'
    BY <1>5, <1>6, <2>1, <2>3 DEF OnePlace
  <2>5. OneLease' /\ NoneExpired'
    BY <1>4, <2>1, <2>2, <2>3 DEF OneLease, NoneExpired
  <2>. QED  BY <1>2, <2>4, <2>5 DEF Even
<1>8. CASE FetcherPoll /\ ~Dequeue
  <2>1. fetcher.pc = "poll" /\ UNCHANGED <<queue, processing, worker>>
        /\ fetcher'.pc = "top" /\ fetcher'.job = NoJob
    BY <1>8 DEF FetcherPoll, FetcherGoes, brokerVars
  <2>2. fetcher.job = NoJob
    BY <1>3, <2>1
  <2>3. \A jid \in JIDs : Working(jid)' = Working(jid) /\ Holding(jid)' = Holding(jid)
                          /\ FetcherSends(jid)' = FetcherSends(jid)
    BY <2>1, <2>2 DEF Working, Holding, FetcherSends, Active
  <2>4. OnePlace'
    BY <1>5, <1>6, <2>1, <2>3 DEF OnePlace
  <2>5. OneLease' /\ NoneExpired'
    BY <1>4, <2>1, <2>2, <2>3 DEF OneLease, NoneExpired
  <2>. QED  BY <1>2, <2>4, <2>5 DEF Even
<1>9. CASE FetcherPoll /\ Dequeue
  <2>. DEFINE head == Head(queue)
              entry == [jid |-> head, expired |-> FALSE]
              S == [jid : accepted, expired : BOOLEAN]
  <2>1. /\ fetcher.pc = "poll" /\ worker' = worker /\ queue # <<>> /\ queue' = Tail(queue)
        /\ processing' = Append(processing, entry) /\ fetcher'.pc = "send" /\ fetcher'.job = head
    BY <1>9 DEF FetcherPoll, FetcherGoes, Dequeue
  <2>2. head \in accepted /\ queue' \in Seq(accepted)
    BY <1>1, <2>1, TailSets DEF BrokerType
  <2>3. entry \in S /\ entry.jid = head /\ ~entry.expired /\ processing \in Seq(S)
    BY <1>1, <2>2 DEF BrokerType
  <2>4. fetcher.job = NoJob
    BY <1>3, <2>1
  <2>. HIDE DEF head, entry, S
  <2>5. ASSUME NEW jid \in JIDs
        PROVE  /\ Pointers(queue, jid) = Pointers(queue', jid) + One(head = jid)
               /\ Pointers(queue', jid) \in Nat
               /\ Entries(processing', jid) = Entries(processing, jid) + One(head = jid)
               /\ FetcherSends(jid) = 0 /\ FetcherSends(jid)' = One(head = jid)
               /\ Working(jid)' = Working(jid) /\ Holding(jid)' = Holding(jid)
    <3>1. Pointers(queue, jid) = Pointers(queue', jid) + One(head = jid)
      BY <1>1, <2>1, CountTail DEF BrokerType, head
    <3>2. Pointers(queue', jid) \in Nat
      BY <2>2, EntriesPositive
    <3>3. Entries(processing', jid) = Entries(processing, jid) + One(head = jid)
      BY <2>1, <2>3, CountAppend
    <3>4. FetcherSends(jid) = 0 /\ FetcherSends(jid)' = One(head = jid)
      BY <2>1 DEF FetcherSends, One
    <3>5. Working(jid)' = Working(jid) /\ Holding(jid)' = Holding(jid)
      BY <2>1 DEF Working, Holding, Active
    <3>. QED  BY <3>1, <3>2, <3>3, <3>4, <3>5
  <2>6. ASSUME NEW jid \in JIDs
        PROVE  Copies(jid)' = One(jid \in accepted')
    <3>1. One(head = jid) \in Nat
      BY DEF One
    <3>2. Pointers(queue, jid) + FetcherSends(jid) + Cardinality(Working(jid))
          = Pointers(queue', jid) + FetcherSends(jid)' + Cardinality(Working(jid)')
      BY <1>5, <2>5, <3>1
    <3>3. Pointers(queue', jid) \in Int /\ Cardinality(Working(jid)') \in Int
      BY <1>5, <2>5
    <3>. QED  BY <1>6, <3>2, <3>3
  <2>7. ASSUME NEW jid \in JIDs
        PROVE  Entries(processing', jid) = One(fetcher'.job = jid) + Cardinality(Holding(jid)')
    <3>1. Entries(processing, jid) = 0 + Cardinality(Holding(jid))
      BY <1>3, <1>4, <2>4 DEF OneLease, One
    <3>2. One(head = jid) \in Nat
      BY DEF One
    <3>. QED  BY <1>5, <2>1, <2>5, <3>1, <3>2
  <2>8. NoneExpired'
    <3>1. \A i \in DOMAIN processing' : (i \in DOMAIN processing /\ processing'[i] = processing[i])
                                        \/ processing'[i] = entry
      BY <2>1, <2>3
    <3>. QED  BY <1>4, <2>3, <3>1 DEF NoneExpired
  <2>. QED  BY <1>2, <2>6, <2>7, <2>8 DEF Even, OnePlace, OneLease
<1>10. CASE FetcherSend
  <2>1. PICK w \in Workers : worker[w].pc = "idle" /\ WorkerGoes(w, "perform", fetcher.job, 0)
    BY <1>10 DEF FetcherSend, WorkerGoes
  <2>2. /\ fetcher.pc = "send" /\ fetcher'.pc = "top" /\ fetcher'.job = NoJob
        /\ UNCHANGED <<queue, processing>>
    BY <1>10 DEF FetcherSend, FetcherGoes, brokerVars
  <2>3. worker[w].job = NoJob /\ worker[w].pc \notin Active /\ "perform" \in Active
    BY <1>1, <2>1 DEF WorkersType, WorkerRecord, Active
  <2>4. ASSUME NEW jid \in JIDs
        PROVE  /\ Cardinality(Working(jid)') = Cardinality(Working(jid)) + One(fetcher.job = jid)
               /\ Cardinality(Holding(jid)') = Cardinality(Holding(jid)) + One(fetcher.job = jid)
               /\ FetcherSends(jid) = One(fetcher.job = jid) /\ FetcherSends(jid)' = 0
               /\ One(fetcher.job = jid) \in Nat
    <3>1. /\ Cardinality(Working(jid)) + One("perform" \in Active /\ fetcher.job = jid)
             = Cardinality(Working(jid)') + One(worker[w].pc \in Active /\ worker[w].job = jid)
          /\ Cardinality(Holding(jid)) + One(fetcher.job = jid)
             = Cardinality(Holding(jid)') + One(worker[w].job = jid)
      BY <1>1, <2>1, WorkerCounted
    <3>2. Cardinality(Working(jid)') \in Nat /\ Cardinality(Holding(jid)') \in Nat
      <4>1. Working(jid)' \in SUBSET Workers /\ Holding(jid)' \in SUBSET Workers
        BY DEF Working, Holding
      <4>. QED  BY <4>1, MemoryAssumption, FS_Subset, FS_CardinalityType
    <3>3. One(worker[w].pc \in Active /\ worker[w].job = jid) = 0 /\ One(worker[w].job = jid) = 0
          /\ One("perform" \in Active /\ fetcher.job = jid) = One(fetcher.job = jid)
          /\ One(fetcher.job = jid) \in Nat
      BY <1>3, <2>3 DEF One
    <3>4. FetcherSends(jid) = One(fetcher.job = jid) /\ FetcherSends(jid)' = 0
      BY <2>2 DEF FetcherSends, One
    <3>. QED  BY <1>5, <3>1, <3>2, <3>3, <3>4
  <2>5. ASSUME NEW jid \in JIDs
        PROVE  Copies(jid)' = One(jid \in accepted')
    <3>1. Pointers(queue, jid) + FetcherSends(jid) + Cardinality(Working(jid))
          = Pointers(queue', jid) + FetcherSends(jid)' + Cardinality(Working(jid)')
      BY <1>5, <2>2, <2>4
    <3>2. Pointers(queue', jid) \in Int /\ Cardinality(Working(jid)') \in Int
      BY <1>5, <2>2, <2>4
    <3>. QED  BY <1>6, <3>1, <3>2
  <2>6. ASSUME NEW jid \in JIDs
        PROVE  Entries(processing', jid) = One(fetcher'.job = jid) + Cardinality(Holding(jid)')
    <3>1. Entries(processing, jid) = One(fetcher.job = jid) + Cardinality(Holding(jid))
          /\ One(fetcher'.job = jid) = 0
      BY <1>3, <1>4, <2>2 DEF OneLease, One
    <3>. QED  BY <1>5, <2>2, <2>4, <3>1
  <2>7. NoneExpired'
    BY <1>4, <2>2 DEF NoneExpired
  <2>. QED  BY <1>2, <2>5, <2>6, <2>7 DEF Even, OnePlace, OneLease
<1>11. CASE FetcherHandBack
  <2>1. /\ fetcher.pc = "send" /\ fetcher'.pc = "ack" /\ fetcher'.job = fetcher.job
        /\ queue' = Append(queue, fetcher.job) /\ UNCHANGED <<processing, worker>>
    BY <1>11 DEF FetcherHandBack, FetcherGoes, Enqueue
  <2>2. fetcher.job \in accepted
    BY <1>1, <2>1 DEF FetcherType, Job
  <2>3. ASSUME NEW jid \in JIDs
        PROVE  Copies(jid)' = One(jid \in accepted')
    <3>1. Pointers(queue', jid) = Pointers(queue, jid) + One(fetcher.job = jid)
      BY <1>1, <2>1, <2>2, CountAppend DEF BrokerType
    <3>2. FetcherSends(jid) = One(fetcher.job = jid) /\ FetcherSends(jid)' = 0
          /\ One(fetcher.job = jid) \in Nat
      BY <2>1 DEF FetcherSends, One
    <3>3. Working(jid)' = Working(jid)
      BY <2>1 DEF Working, Active
    <3>4. Pointers(queue, jid) + FetcherSends(jid) + Cardinality(Working(jid))
          = Pointers(queue', jid) + FetcherSends(jid)' + Cardinality(Working(jid)')
      BY <1>5, <3>1, <3>2, <3>3
    <3>5. Pointers(queue', jid) \in Int /\ Cardinality(Working(jid)') \in Int
      BY <1>5, <3>1, <3>2, <3>3
    <3>. QED  BY <1>6, <3>4, <3>5
  <2>4. OneLease' /\ NoneExpired'
    BY <1>4, <2>1 DEF OneLease, NoneExpired, Holding
  <2>. QED  BY <1>2, <2>3, <2>4 DEF Even, OnePlace
<1>12. CASE FetcherAck
  <2>1. /\ fetcher.pc = "ack" /\ fetcher'.pc = "exited" /\ fetcher'.job = NoJob
        /\ Ack(fetcher.job) /\ UNCHANGED <<queue, worker>>
    BY <1>12 DEF FetcherAck, FetcherGoes, Ack
  <2>2. fetcher.job \in JIDs
    BY <1>3, <2>1
  <2>3. Entries(processing, fetcher.job) > 0
    <3>1. Entries(processing, fetcher.job) = 1 + Cardinality(Holding(fetcher.job))
      BY <1>4, <2>2 DEF OneLease, One
    <3>2. Cardinality(Holding(fetcher.job)) \in Nat
      BY <1>5, <2>2
    <3>. QED  BY <3>1, <3>2
  <2>4. ASSUME NEW jid \in JIDs
        PROVE  Entries(processing', jid) = One(fetcher'.job = jid) + Cardinality(Holding(jid)')
    <3>1. Entries(processing, jid) = Entries(processing', jid) + One(jid = fetcher.job)
      BY <1>1, <1>4, <2>1, <2>3, AckCounted
    <3>2. Entries(processing, jid) = One(fetcher.job = jid) + Cardinality(Holding(jid))
          /\ One(fetcher'.job = jid) = 0 /\ Holding(jid)' = Holding(jid)
          /\ One(jid = fetcher.job) = One(fetcher.job = jid) /\ One(fetcher.job = jid) \in Nat
      BY <1>3, <1>4, <2>1 DEF OneLease, One, Holding
    <3>3. Entries(processing', jid) \in Nat
      <4>1. processing' \in Seq([jid : accepted, expired : BOOLEAN])
        BY <1>1, <2>1, WithoutDrops DEF Ack, BrokerType
      <4>. QED  BY <4>1, EntriesPositive
    <3>. QED  BY <1>5, <3>1, <3>2, <3>3
  <2>5. \A jid \in JIDs : Working(jid)' = Working(jid) /\ FetcherSends(jid)' = FetcherSends(jid)
    BY <2>1 DEF Working, FetcherSends, Active
  <2>6. OnePlace'
    BY <1>5, <1>6, <2>1, <2>5 DEF OnePlace
  <2>7. NoneExpired'
    BY <1>1, <1>4, <2>1, AckCounted
  <2>. QED  BY <1>2, <2>4, <2>6, <2>7 DEF Even, OneLease
<1>. QED  BY <1>7, <1>8, <1>9, <1>10, <1>11, <1>12 DEF Fetcher

\* A worker carries its job to its outcome, and only then gives the lease up.
LEMMA WorkerConserves ==
  ASSUME TypeInv, Even, NEW w \in Workers, Worker(w)
  PROVE  Even'
<1>. DEFINE job == worker[w].job
<1>1. BrokerType /\ JobsType /\ WorkersType
  BY DEF TypeInv
<1>2. UNCHANGED <<fetcher, retrier, reaper, queue, accepted, cleared>>
  BY DEF Worker, JobSucceeds, JobFails, JobMeetsOpenCircuit, WorkerPostpones, WorkerCounts,
         WorkerSchedules, WorkerAcks, WorkerExits, history, brokerVars, RecordSuccess, RecordFailure,
         AddToRetry, AddToDead, Ack
<1>3. /\ OnePlace /\ OneLease /\ NoneExpired /\ BatchInRetry /\ (reaper.batch = <<>>)'
      /\ \A jid \in JIDs : FetcherSends(jid)' = FetcherSends(jid)
  BY <1>2 DEF Even, FetcherSends
<1>4. /\ NoJob \notin JIDs
      /\ worker[w].pc \in {"idle", "exited"} => job = NoJob
      /\ worker[w].pc \notin {"idle", "exited"} => job \in JIDs /\ job \in accepted
  BY <1>1, MemoryAssumption DEF WorkersType, WorkerRecord, Job, JobsType
<1>5. ASSUME NEW jid \in JIDs
      PROVE  /\ Pointers(queue, jid) \in Nat /\ Entries(retry, jid) \in Nat
             /\ Pointers(dead, jid) \in Nat /\ Entries(processing, jid) \in Nat
             /\ Cardinality(Working(jid)) \in Nat /\ Cardinality(Holding(jid)) \in Nat
             /\ Cardinality(Working(jid)') \in Nat /\ Cardinality(Holding(jid)') \in Nat
  <2>1. Working(jid)' \in SUBSET Workers /\ Holding(jid)' \in SUBSET Workers
    BY DEF Working, Holding
  <2>2. Cardinality(Working(jid)') \in Nat /\ Cardinality(Holding(jid)') \in Nat
    BY <2>1, MemoryAssumption, FS_Subset, FS_CardinalityType
  <2>. QED  BY <2>2, CopiesSum
<1>6. ASSUME NEW jid \in JIDs,
             Entries(retry, jid) + Pointers(dead, jid) + Cardinality(Working(jid)) + One(jid \in succeeded)
             = Entries(retry', jid) + Pointers(dead', jid) + Cardinality(Working(jid)')
               + One(jid \in succeeded'),
             Entries(retry', jid) \in Int, Pointers(dead', jid) \in Int
      PROVE  Copies(jid)' = One(jid \in accepted')
  <2>. DEFINE f == FetcherSends(jid)
              W == Cardinality(Working(jid))
              V == Cardinality(Working(jid)')
              q == Pointers(queue, jid)
              r == Entries(retry, jid)
              r2 == Entries(retry', jid)
              d == Pointers(dead, jid)
              d2 == Pointers(dead', jid)
              t == One(retrier.job = jid)
              s == One(jid \in succeeded)
              s2 == One(jid \in succeeded')
              c == One(jid \in cleared)
  <2>1. /\ f \in Int /\ W \in Int /\ V \in Int /\ q \in Int /\ r \in Int /\ r2 \in Int
        /\ d \in Int /\ d2 \in Int /\ t \in Int /\ s \in Int /\ s2 \in Int /\ c \in Int
        /\ r + d + W + s = r2 + d2 + V + s2
    BY <1>5, <1>6 DEF FetcherSends, One
  <2>2. Copies(jid) = q + r + d + (f + W + t) + s + c /\ Copies(jid)' = q + r2 + d2 + (f + V + t) + s2 + c
    BY <1>2, <1>3, CopiesAre
  <2>3. Copies(jid) = One(jid \in accepted)
    BY <1>3 DEF OnePlace
  <2>. HIDE DEF f, W, V, q, r, r2, d, d2, t, s, s2, c
  <2>4. Copies(jid)' = Copies(jid)
    BY <2>1, <2>2
  <2>. QED  BY <1>2, <2>3, <2>4
<1>7. worker[w].pc \in Active => Entries(retry, job) = 0 /\ job \notin succeeded
  <2>. SUFFICES ASSUME worker[w].pc \in Active
                PROVE  Entries(retry, job) = 0 /\ job \notin succeeded
    OBVIOUS
  <2>1. job \in JIDs /\ w \in Working(job)
    BY <1>4 DEF Active, Working
  <2>2. IsFiniteSet(Working(job))
    <3>1. Working(job) \in SUBSET Workers
      BY DEF Working
    <3>. QED  BY <3>1, MemoryAssumption, FS_Subset
  <2>. HIDE DEF job
  <2>3. Cardinality(Working(job)) # 0 /\ Cardinality(Working(job)) \in Nat
    BY <2>1, <2>2, FS_EmptySet, FS_CardinalityType
  <2>4. FetcherSends(job) + Cardinality(Working(job)) + One(retrier.job = job) > 0
    BY <2>3 DEF FetcherSends, One
  <2>. QED  BY <1>3, <2>1, <2>4, HeldOnly
<1>8. ASSUME NEW pc, NEW count, WorkerGoes(w, pc, job, count), NEW jid \in JIDs,
             worker[w].pc \in Active
      PROVE  /\ Cardinality(Holding(jid)') = Cardinality(Holding(jid))
             /\ pc \in Active => Cardinality(Working(jid)') = Cardinality(Working(jid))
             /\ pc \notin Active
                => Cardinality(Working(jid)) = Cardinality(Working(jid)') + One(job = jid)
  <2>1. /\ Cardinality(Working(jid)) + One(pc \in Active /\ job = jid)
           = Cardinality(Working(jid)') + One(worker[w].pc \in Active /\ worker[w].job = jid)
        /\ Cardinality(Holding(jid)) + One(job = jid)
           = Cardinality(Holding(jid)') + One(worker[w].job = jid)
    BY <1>1, <1>8, WorkerCounted
  <2>2. /\ One(worker[w].pc \in Active /\ worker[w].job = jid) = One(job = jid)
        /\ One(worker[w].job = jid) = One(job = jid) /\ One(job = jid) \in Nat
        /\ pc \in Active => One(pc \in Active /\ job = jid) = One(job = jid)
        /\ pc \notin Active => One(pc \in Active /\ job = jid) = 0
    BY <1>8 DEF One
  <2>. QED  BY <1>5, <2>1, <2>2
<1>9. ASSUME processing' = processing, \A jid \in JIDs : Cardinality(Holding(jid)') = Cardinality(Holding(jid))
      PROVE  OneLease' /\ NoneExpired'
  BY <1>2, <1>3, <1>9 DEF OneLease, NoneExpired
<1>. HIDE DEF job
<1>10. CASE JobSucceeds(w)
  <2>1. /\ worker[w].pc \in Active /\ WorkerGoes(w, "ack", job, 0) /\ "ack" \notin Active
        /\ succeeded' = succeeded \cup {job} /\ UNCHANGED <<processing, retry, dead>>
    BY <1>10 DEF JobSucceeds, RecordSuccess, Active, job
  <2>2. ASSUME NEW jid \in JIDs
        PROVE  Copies(jid)' = One(jid \in accepted')
    <3>1. Cardinality(Working(jid)) = Cardinality(Working(jid)') + One(job = jid)
      BY <1>8, <2>1
    <3>2. One(jid \in succeeded') = One(jid \in succeeded) + One(job = jid)
          /\ One(jid \in succeeded) \in Nat /\ One(job = jid) \in Nat
      BY <1>7, <2>1 DEF One
    <3>3. Entries(retry, jid) + Pointers(dead, jid) + Cardinality(Working(jid)) + One(jid \in succeeded)
          = Entries(retry', jid) + Pointers(dead', jid) + Cardinality(Working(jid)')
            + One(jid \in succeeded')
      BY <1>5, <2>1, <3>1, <3>2
    <3>4. Entries(retry', jid) \in Int /\ Pointers(dead', jid) \in Int
      BY <1>5, <2>1
    <3>. QED  BY <1>6, <3>3, <3>4
  <2>3. OneLease' /\ NoneExpired'
    BY <1>8, <1>9, <2>1
  <2>4. BatchInRetry'
    BY <1>2, <1>3, <2>1, SameBatch
  <2>. QED  BY <1>3, <2>2, <2>3, <2>4 DEF Even, OnePlace
<1>11. CASE JobFails(w) \/ JobMeetsOpenCircuit(w) \/ WorkerCounts(w)
  <2>1. PICK pc, count : pc \in Active /\ WorkerGoes(w, pc, job, count)
    BY <1>11 DEF JobFails, JobMeetsOpenCircuit, WorkerCounts, Active, job
  <2>2. worker[w].pc \in Active /\ UNCHANGED <<processing, retry, dead, succeeded>>
    BY <1>11 DEF JobFails, JobMeetsOpenCircuit, WorkerCounts, RecordFailure, Active, brokerVars, history
  <2>3. ASSUME NEW jid \in JIDs
        PROVE  Copies(jid)' = One(jid \in accepted')
    <3>1. Cardinality(Working(jid)') = Cardinality(Working(jid))
      BY <1>8, <2>1, <2>2
    <3>2. Entries(retry, jid) + Pointers(dead, jid) + Cardinality(Working(jid)) + One(jid \in succeeded)
          = Entries(retry', jid) + Pointers(dead', jid) + Cardinality(Working(jid)')
            + One(jid \in succeeded')
      BY <2>2, <3>1
    <3>3. Entries(retry', jid) \in Int /\ Pointers(dead', jid) \in Int
      BY <1>5, <2>2
    <3>. QED  BY <1>6, <3>2, <3>3
  <2>4. OneLease' /\ NoneExpired'
    BY <1>8, <1>9, <2>1, <2>2
  <2>5. BatchInRetry'
    BY <1>2, <1>3, <2>2, SameBatch
  <2>. QED  BY <1>3, <2>3, <2>4, <2>5 DEF Even, OnePlace
<1>12. CASE WorkerPostpones(w) \/ WorkerSchedules(w)
  <2>1. /\ worker[w].pc \in Active /\ WorkerGoes(w, "ack", job, 0) /\ "ack" \notin Active
        /\ UNCHANGED <<processing, succeeded>> /\ (AddToRetry(job) \/ AddToDead(job))
    BY <1>12 DEF WorkerPostpones, WorkerSchedules, AddToRetry, AddToDead, Active, history, job
  <2>2. job \in accepted /\ Entries(retry, job) = 0
    BY <1>4, <1>7, <2>1 DEF Active
  <2>3. \A jid \in JIDs : One(job = jid) \in Nat
    BY DEF One
  <2>4. \/ /\ dead' = dead
           /\ \A jid \in JIDs : Entries(retry', jid) = Entries(retry, jid) + One(job = jid)
        \/ /\ retry' = retry
           /\ \A jid \in JIDs : Pointers(dead', jid) = Pointers(dead, jid) + One(job = jid)
    <3>1. CASE AddToRetry(job)
      <4>. DEFINE S == [jid : accepted, due : BOOLEAN]
                  entry == [jid |-> job, due |-> FALSE]
      <4>1. retry \in Seq(S) /\ entry \in S /\ entry.jid = job /\ retry' = Append(retry, entry) /\ dead' = dead
        BY <1>1, <2>2, <3>1 DEF BrokerType, AddToRetry
      <4>. HIDE DEF S, entry
      <4>2. \A jid \in JIDs : Entries(retry', jid) = Entries(retry, jid) + One(job = jid)
        BY <4>1, CountAppend
      <4>. QED  BY <4>1, <4>2
    <3>2. CASE AddToDead(job)
      BY <1>1, <2>2, <3>2, CountAppend DEF BrokerType, AddToDead
    <3>. QED  BY <2>1, <3>1, <3>2
  <2>5. ASSUME NEW jid \in JIDs
        PROVE  Copies(jid)' = One(jid \in accepted')
    <3>1. Cardinality(Working(jid)) = Cardinality(Working(jid)') + One(job = jid)
      BY <1>8, <2>1
    <3>2. One(job = jid) \in Nat /\ One(jid \in succeeded) \in Nat
      BY DEF One
    <3>3. Entries(retry', jid) \in Int /\ Pointers(dead', jid) \in Int
      BY <1>5, <2>4, <3>2
    <3>4. Entries(retry, jid) + Pointers(dead, jid) + Cardinality(Working(jid)) + One(jid \in succeeded)
          = Entries(retry', jid) + Pointers(dead', jid) + Cardinality(Working(jid)')
            + One(jid \in succeeded')
      <4>1. Entries(retry', jid) + Pointers(dead', jid)
            = Entries(retry, jid) + Pointers(dead, jid) + One(job = jid)
        BY <1>5, <2>4, <3>2
      <4>. QED  BY <1>5, <2>1, <3>1, <3>2, <3>3, <4>1
    <3>. QED  BY <1>6, <3>3, <3>4
  <2>6. OneLease' /\ NoneExpired'
    BY <1>8, <1>9, <2>1
  <2>7. BatchInRetry'
    <3>1. ASSUME NEW i \in DOMAIN retrier.batch
          PROVE  Entries(retry', retrier.batch[i]) = Entries(retry, retrier.batch[i])
      <4>1. retrier.batch[i] \in JIDs /\ Entries(retry, retrier.batch[i]) = 1
        BY <1>3 DEF TypeInv, RetrierType, JobsType, BatchInRetry
      <4>2. One(job = retrier.batch[i]) = 0
        BY <2>2, <4>1 DEF One
      <4>. QED  BY <2>4, <4>1, <4>2
    <3>. QED  BY <1>2, <1>3, <3>1, SameBatch
  <2>. QED  BY <1>3, <2>5, <2>6, <2>7 DEF Even, OnePlace
<1>13. CASE WorkerAcks(w) \/ WorkerExits(w)
  <2>1. /\ UNCHANGED <<retry, dead, succeeded>> /\ worker[w].pc \notin Active
        /\ \E pc \in {"idle", "exited"} : WorkerGoes(w, pc, NoJob, 0)
    BY <1>13 DEF WorkerAcks, WorkerExits, Ack, Active, brokerVars, history
  <2>2. ASSUME NEW jid \in JIDs
        PROVE  /\ Cardinality(Working(jid)') = Cardinality(Working(jid))
               /\ Cardinality(Holding(jid)) = Cardinality(Holding(jid)') + One(job = jid)
    <3>1. PICK pc \in {"idle", "exited"} : WorkerGoes(w, pc, NoJob, 0)
      BY <2>1
    <3>2. /\ Cardinality(Working(jid)) + One(pc \in Active /\ NoJob = jid)
             = Cardinality(Working(jid)') + One(worker[w].pc \in Active /\ worker[w].job = jid)
          /\ Cardinality(Holding(jid)) + One(NoJob = jid)
             = Cardinality(Holding(jid)') + One(worker[w].job = jid)
      BY <1>1, <3>1, WorkerCounted
    <3>3. One(pc \in Active /\ NoJob = jid) = 0 /\ One(NoJob = jid) = 0
          /\ One(worker[w].pc \in Active /\ worker[w].job = jid) = 0
          /\ One(worker[w].job = jid) = One(job = jid) /\ One(job = jid) \in Nat
      BY <1>4, <2>1 DEF One, job
    <3>. QED  BY <1>5, <3>2, <3>3
  <2>3. ASSUME NEW jid \in JIDs
        PROVE  Copies(jid)' = One(jid \in accepted')
    <3>1. Entries(retry, jid) + Pointers(dead, jid) + Cardinality(Working(jid)) + One(jid \in succeeded)
          = Entries(retry', jid) + Pointers(dead', jid) + Cardinality(Working(jid)')
            + One(jid \in succeeded')
      BY <2>1, <2>2
    <3>2. Entries(retry', jid) \in Int /\ Pointers(dead', jid) \in Int
      BY <1>5, <2>1
    <3>. QED  BY <1>6, <3>1, <3>2
  <2>4. BatchInRetry'
    BY <1>2, <1>3, <2>1, SameBatch
  <2>5. OneLease' /\ NoneExpired'
    <3>1. CASE WorkerExits(w)
      <4>1. job = NoJob /\ processing' = processing
        BY <1>4, <3>1 DEF WorkerExits, brokerVars
      <4>2. \A jid \in JIDs : One(job = jid) = 0
        BY <1>4, <4>1 DEF One
      <4>3. \A jid \in JIDs : Cardinality(Holding(jid)') = Cardinality(Holding(jid))
        BY <1>5, <2>2, <4>2
      <4>. QED  BY <1>9, <4>1, <4>3
    <3>2. CASE WorkerAcks(w)
      <4>1. Ack(job) /\ job \in JIDs
        BY <1>4, <3>2 DEF WorkerAcks, job
      <4>2. Entries(processing, job) > 0
        <5>1. PICK jid \in JIDs : jid = job
          BY <4>1
        <5>2. Entries(processing, jid) = One(fetcher.job = jid) + Cardinality(Holding(jid))
          BY <1>3 DEF OneLease
        <5>3. Cardinality(Holding(jid)) = Cardinality(Holding(jid)') + One(job = jid)
          BY <2>2
        <5>4. One(job = jid) = 1 /\ One(fetcher.job = jid) \in Nat /\ Cardinality(Holding(jid)') \in Nat
          BY <1>5, <5>1 DEF One
        <5>5. Entries(processing, jid) > 0
          BY <5>2, <5>3, <5>4
        <5>. QED  BY <5>1, <5>5
      <4>3. ASSUME NEW jid \in JIDs
            PROVE  Entries(processing', jid) = One(fetcher.job = jid) + Cardinality(Holding(jid)')
        <5>1. Entries(processing, jid) = Entries(processing', jid) + One(jid = job)
          BY <1>1, <1>3, <4>1, <4>2, AckCounted
        <5>2. Entries(processing, jid) = One(fetcher.job = jid) + Cardinality(Holding(jid))
          BY <1>3 DEF OneLease
        <5>3. Entries(processing', jid) \in Nat
          <6>1. processing' \in Seq([jid : accepted, expired : BOOLEAN])
            BY <1>1, <4>1, WithoutDrops DEF Ack, BrokerType
          <6>. QED  BY <6>1, EntriesPositive
        <5>4. One(jid = job) = One(job = jid) /\ One(job = jid) \in Nat /\ One(fetcher.job = jid) \in Nat
          BY DEF One
        <5>5. Cardinality(Holding(jid)) = Cardinality(Holding(jid)') + One(job = jid)
              /\ Cardinality(Holding(jid)') \in Nat
          BY <1>5, <2>2
        <5>. QED  BY <5>1, <5>2, <5>3, <5>4, <5>5
      <4>4. NoneExpired'
        BY <1>1, <1>3, <4>1, AckCounted
      <4>. QED  BY <1>2, <4>3, <4>4 DEF OneLease
    <3>. QED  BY <1>13, <3>1, <3>2
  <2>. QED  BY <1>3, <2>3, <2>4, <2>5 DEF Even, OnePlace
<1>. QED  BY <1>10, <1>11, <1>12, <1>13 DEF Worker

\* No job is in the retry list twice.
LEMMA RetryOnce ==
  ASSUME TypeInv, OnePlace, NEW jid \in JIDs
  PROVE  Entries(retry, jid) \in {0, 1}
<1>. DEFINE q == Pointers(queue, jid)
            r == Entries(retry, jid)
            d == Pointers(dead, jid)
            h == FetcherSends(jid) + Cardinality(Working(jid)) + One(retrier.job = jid)
<1>1. q \in Nat /\ r \in Nat /\ d \in Nat /\ h \in Nat
  BY CopiesSum DEF FetcherSends, One
<1>2. q + r + d + h + One(jid \in succeeded) + One(jid \in cleared) = One(jid \in accepted)
  BY CopiesAre DEF OnePlace
<1>. HIDE DEF q, r, d, h
<1>3. r \in {0, 1}
  BY <1>1, <1>2 DEF One
<1>. QED  BY <1>3 DEF r

\* What GetRetryJobs returns are entries of the retry list, each once.
LEMMA TickBatch ==
  ASSUME TypeInv, OnePlace
  PROVE  LET batch == RetryJobs(RetryLimit) IN
         /\ \A i \in DOMAIN batch : Entries(retry, batch[i]) = 1
         /\ \A i, k \in DOMAIN batch : batch[i] = batch[k] => i = k
<1>. DEFINE S == [jid : accepted, due : BOOLEAN]
            I == {i \in DOMAIN retry : retry[i].due}
            due == Sublist(retry, I)
            n == IF Len(due) < RetryLimit THEN Len(due) ELSE RetryLimit
            batch == RetryJobs(RetryLimit)
<1>1. retry \in Seq(S) /\ I \in SUBSET (1..Len(retry)) /\ BrokerType /\ RetryLimit \in Nat
      /\ batch = [i \in 1..n |-> due[i].jid]
  BY MemoryAssumption DEF TypeInv, BrokerType, RetryJobs, Due
<1>2. \A i \in DOMAIN retry : retry[i].jid \in JIDs
  <2>. HIDE DEF S
  <2>1. \A i \in DOMAIN retry : retry[i] \in S
    BY <1>1
  <2>. QED  BY <2>1 DEF S, TypeInv, JobsType
<1>. HIDE DEF S, I, batch
<1>3. due \in Seq(S) /\ \E pos : Embeds(retry, I, Len(retry), due, pos)
  BY <1>1, SublistEmbeds
<1>. HIDE DEF due
<1>4. PICK pos : Embeds(retry, I, Len(retry), due, pos)
  BY <1>3
<1>5. n \in Nat /\ DOMAIN batch = 1..n /\ \A i \in 1..n : i \in 1..Len(due) /\ batch[i] = due[i].jid
  BY <1>1, <1>3
<1>. HIDE DEF n
<1>6. ASSUME NEW i \in DOMAIN batch
      PROVE  pos[i] \in DOMAIN retry /\ pos[i] \in Int /\ batch[i] = retry[pos[i]].jid /\ batch[i] \in JIDs
             /\ i \in 1..Len(due) /\ i \in Int
  <2>1. i \in 1..n /\ i \in 1..Len(due) /\ i \in Int
    BY <1>5
  <2>2. pos[i] \in I /\ due[i] = retry[pos[i]]
    BY <1>4, <2>1 DEF Embeds
  <2>3. pos[i] \in DOMAIN retry /\ pos[i] \in Int
    <3>1. I \in SUBSET (1..Len(retry))
      BY <1>1
    <3>2. pos[i] \in 1..Len(retry)
      BY <2>2, <3>1, Zenon
    <3>3. DOMAIN retry = 1..Len(retry)
      BY <1>1
    <3>. QED  BY <3>2, <3>3
  <2>. QED  BY <1>2, <1>5, <2>1, <2>2, <2>3
<1>7. ASSUME NEW i \in DOMAIN batch
      PROVE  Entries(retry, batch[i]) = 1
  <2>1. batch[i] \in JIDs /\ batch[i] \in Jids(retry)
    BY <1>6 DEF Jids
  <2>2. Entries(retry, batch[i]) > 0
    BY <1>1, <2>1, EntriesPositive
  <2>. QED  BY <2>1, <2>2, RetryOnce
<1>8. ASSUME NEW i \in DOMAIN batch, NEW k \in DOMAIN batch, batch[i] = batch[k]
      PROVE  i = k
  <2>. DEFINE E == {x \in DOMAIN retry : retry[x].jid = batch[i]}
  <2>1. Cardinality(E) = 1
    BY <1>7 DEF Entries
  <2>2. pos[i] \in E /\ pos[k] \in E
    BY <1>6, <1>8
  <2>3. IsFiniteSet(E)
    <3>1. DOMAIN retry = 1..Len(retry) /\ Len(retry) \in Int /\ 1 \in Int
      BY <1>1
    <3>2. IsFiniteSet(DOMAIN retry)
      BY <3>1, FS_Interval
    <3>3. E \in SUBSET (DOMAIN retry)
      OBVIOUS
    <3>. QED  BY <3>2, <3>3, FS_Subset
  <2>. HIDE DEF E
  <2>4. \E x : E = {x}
    BY <2>1, <2>3, FS_Singleton
  <2>5. pos[i] = pos[k]
    BY <2>2, <2>4
  <2>6. /\ i < k => pos[i] < pos[k]
        /\ k < i => pos[k] < pos[i]
    BY <1>4, <1>6 DEF Embeds
  <2>. QED  BY <1>6, <2>5, <2>6
<1>. QED  BY <1>7, <1>8 DEF batch

\* The retry loop carries a job from the retry list to the queue, or back.
LEMMA RetrierConserves ==
  ASSUME TypeInv, Even, Retrier
  PROVE  Even'
<1>. DEFINE job == retrier.job
            batch == retrier.batch
<1>1. BrokerType /\ JobsType /\ RetrierType /\ OnePlace /\ BatchInRetry
  BY DEF TypeInv, Even
<1>2. UNCHANGED <<fetcher, worker, reaper, processing, accepted, succeeded, cleared>>
  BY DEF Retrier, RetryTick, RetryRemoves, RetryEnqueues, RetryCounts, RetryFallsBack, RetryExits,
         RemoveFromRetry, Enqueue, AddToRetry, AddToDead, brokerVars, history
<1>3. /\ OneLease' /\ NoneExpired' /\ (reaper.batch = <<>>)'
      /\ \A jid \in JIDs : FetcherSends(jid)' = FetcherSends(jid) /\ Working(jid)' = Working(jid)
  BY <1>2 DEF Even, OneLease, NoneExpired, Holding, Working, FetcherSends, Active
<1>4. /\ NoJob \notin JIDs
      /\ retrier.pc \in {"loop", "exited"} => job = NoJob
      /\ retrier.pc \notin {"loop", "exited"} => job \in JIDs /\ job \in accepted
      /\ batch \in Seq(accepted) /\ accepted \subseteq JIDs
  BY <1>1, MemoryAssumption DEF RetrierType, Job, JobsType
<1>5. ASSUME NEW jid \in JIDs
      PROVE  /\ Pointers(queue, jid) \in Nat /\ Entries(retry, jid) \in Nat
             /\ Pointers(dead, jid) \in Nat /\ Cardinality(Working(jid)) \in Nat
  BY CopiesSum
<1>6. ASSUME NEW jid \in JIDs,
             Pointers(queue, jid) + Entries(retry, jid) + Pointers(dead, jid) + One(job = jid)
             = Pointers(queue', jid) + Entries(retry', jid) + Pointers(dead', jid) + One(retrier'.job = jid),
             Pointers(queue', jid) \in Int, Entries(retry', jid) \in Int, Pointers(dead', jid) \in Int
      PROVE  Copies(jid)' = One(jid \in accepted')
  <2>. DEFINE h == FetcherSends(jid) + Cardinality(Working(jid))
              q == Pointers(queue, jid)
              q2 == Pointers(queue', jid)
              r == Entries(retry, jid)
              r2 == Entries(retry', jid)
              d == Pointers(dead, jid)
              d2 == Pointers(dead', jid)
              t == One(job = jid)
              t2 == One(retrier'.job = jid)
              s == One(jid \in succeeded)
              c == One(jid \in cleared)
  <2>1. /\ h \in Int /\ q \in Int /\ q2 \in Int /\ r \in Int /\ r2 \in Int
        /\ d \in Int /\ d2 \in Int /\ t \in Int /\ t2 \in Int /\ s \in Int /\ c \in Int
        /\ q + r + d + t = q2 + r2 + d2 + t2
    BY <1>5, <1>6 DEF FetcherSends, One
  <2>2. Copies(jid) = q + r + d + (h + t) + s + c /\ Copies(jid)' = q2 + r2 + d2 + (h + t2) + s + c
    BY <1>2, <1>3, CopiesAre
  <2>3. Copies(jid) = One(jid \in accepted)
    BY <1>1 DEF OnePlace
  <2>. HIDE DEF h, q, q2, r, r2, d, d2, t, t2, s, c
  <2>4. Copies(jid)' = Copies(jid)
    BY <2>1, <2>2
  <2>. QED  BY <1>2, <2>3, <2>4
<1>7. ASSUME UNCHANGED <<queue, retry, dead>>, retrier'.job = job
      PROVE  OnePlace'
  <2>1. ASSUME NEW jid \in JIDs
        PROVE  Copies(jid)' = One(jid \in accepted')
    <3>1. Pointers(queue, jid) + Entries(retry, jid) + Pointers(dead, jid) + One(job = jid)
          = Pointers(queue', jid) + Entries(retry', jid) + Pointers(dead', jid) + One(retrier'.job = jid)
      BY <1>7
    <3>2. Pointers(queue', jid) \in Int /\ Entries(retry', jid) \in Int /\ Pointers(dead', jid) \in Int
      BY <1>5, <1>7
    <3>. QED  BY <1>6, <3>1, <3>2
  <2>. QED  BY <2>1 DEF OnePlace
<1>8. job \in JIDs => Entries(retry, job) = 0
  <2>. SUFFICES ASSUME job \in JIDs PROVE Entries(retry, job) = 0
    OBVIOUS
  <2>1. FetcherSends(job) + Cardinality(Working(job)) + One(retrier.job = job) > 0
    BY <1>5 DEF FetcherSends, One
  <2>. QED  BY <1>1, <2>1, HeldOnly
<1>. HIDE DEF job, batch
<1>9. CASE RetryTick
  <2>1. /\ retrier.pc = "loop" /\ UNCHANGED <<queue, retry, dead>>
        /\ retrier'.job = NoJob /\ retrier'.batch = RetryJobs(RetryLimit)
    BY <1>9 DEF RetryTick, RetrierGoes, brokerVars
  <2>2. OnePlace'
    BY <1>4, <1>7, <2>1
  <2>3. BatchInRetry'
    BY <1>1, <2>1, TickBatch DEF BatchInRetry
  <2>. QED  BY <1>3, <2>2, <2>3 DEF Even
<1>10. CASE RetryRemoves
  <2>. DEFINE head == Head(batch)
              tail == Tail(batch)
  <2>1. /\ retrier.pc = "loop" /\ batch # <<>> /\ retry' = Without(retry, head)
        /\ UNCHANGED <<queue, dead>> /\ retrier'.job = head /\ retrier'.batch = tail
    BY <1>10 DEF RetryRemoves, RetrierGoes, RemoveFromRetry, batch
  <2>2. /\ head \in JIDs /\ tail \in Seq(accepted) /\ head = batch[1] /\ 1 \in DOMAIN batch
        /\ DOMAIN tail = 1..Len(tail)
        /\ \A i \in 1..Len(tail) : i + 1 \in DOMAIN batch /\ tail[i] = batch[i + 1]
    <3>1. head \in accepted /\ tail \in Seq(accepted) /\ Drops(batch, tail, 1) /\ head = batch[1]
          /\ 1 \in 1..Len(batch)
      BY <1>4, <2>1, TailSets
    <3>. HIDE DEF tail
    <3>2. Len(tail) = Len(batch) - 1 /\ \A i \in 1..Len(tail) : tail[i] = batch[i + 1]
      <4>1. \A i \in 1..Len(tail) : (IF i < 1 THEN i ELSE i + 1) = i + 1
        OBVIOUS
      <4>. QED  BY <3>1, <4>1 DEF Drops
    <3>3. DOMAIN batch = 1..Len(batch) /\ Len(batch) \in Nat /\ DOMAIN tail = 1..Len(tail)
      BY <1>4, <3>1
    <3>. QED  BY <1>4, <3>1, <3>2, <3>3
  <2>. HIDE DEF head, tail
  <2>3. /\ \A i \in DOMAIN batch : Entries(retry, batch[i]) = 1
        /\ \A i, k \in DOMAIN batch : batch[i] = batch[k] => i = k
    BY <1>1 DEF BatchInRetry, batch
  <2>4. job = NoJob
    BY <1>4, <2>1
  <2>5. ASSUME NEW jid
        PROVE  Entries(retry, jid) = Entries(retry', jid) + One(jid = head) /\ Entries(retry', jid) \in Nat
    <3>1. Entries(retry, head) > 0
      BY <2>2, <2>3
    <3>2. retry \in Seq([jid : accepted, due : BOOLEAN])
      BY <1>1 DEF BrokerType
    <3>3. Without(retry, head) \in Seq([jid : accepted, due : BOOLEAN])
      BY <3>2, WithoutDrops
    <3>. QED  BY <2>1, <3>1, <3>2, <3>3, CountWithout, EntriesPositive
  <2>6. ASSUME NEW jid \in JIDs
        PROVE  Copies(jid)' = One(jid \in accepted')
    <3>1. One(job = jid) = 0 /\ One(retrier'.job = jid) = One(jid = head) /\ One(jid = head) \in Nat
      BY <1>4, <2>1, <2>4 DEF One
    <3>2. Pointers(queue, jid) + Entries(retry, jid) + Pointers(dead, jid) + One(job = jid)
          = Pointers(queue', jid) + Entries(retry', jid) + Pointers(dead', jid) + One(retrier'.job = jid)
      BY <1>5, <2>1, <2>5, <3>1
    <3>3. Pointers(queue', jid) \in Int /\ Entries(retry', jid) \in Int /\ Pointers(dead', jid) \in Int
      BY <1>5, <2>1, <2>5
    <3>. QED  BY <1>6, <3>2, <3>3
  <2>7. BatchInRetry'
    <3>1. ASSUME NEW i \in DOMAIN tail
          PROVE  Entries(retry', tail[i]) = 1
      <4>1. i \in Nat /\ i + 1 \in DOMAIN batch /\ i + 1 # 1 /\ tail[i] = batch[i + 1]
        BY <2>2
      <4>2. tail[i] # head /\ Entries(retry, tail[i]) = 1
        BY <2>2, <2>3, <4>1
      <4>3. One(tail[i] = head) = 0
        BY <4>2 DEF One
      <4>4. Entries(retry, tail[i]) = Entries(retry', tail[i]) + One(tail[i] = head)
            /\ Entries(retry', tail[i]) \in Nat
        BY <2>5
      <4>. QED  BY <4>2, <4>3, <4>4
    <3>2. ASSUME NEW i \in DOMAIN tail, NEW k \in DOMAIN tail, tail[i] = tail[k]
          PROVE  i = k
      <4>1. i + 1 = k + 1 /\ i \in Nat /\ k \in Nat
        BY <2>2, <2>3, <3>2
      <4>. QED  BY <4>1
    <3>. QED  BY <2>1, <3>1, <3>2 DEF BatchInRetry
  <2>. QED  BY <1>3, <2>6, <2>7 DEF Even, OnePlace
<1>11. CASE RetryEnqueues /\ Enqueue(job) /\ retrier'.job = NoJob
  <2>1. /\ retrier.pc = "enqueue" /\ queue' = Append(queue, job) /\ UNCHANGED <<retry, dead>>
        /\ retrier'.batch = batch
    BY <1>11 DEF RetryEnqueues, RetrierGoes, Enqueue, batch
  <2>2. job \in accepted
    BY <1>4, <2>1
  <2>3. ASSUME NEW jid \in JIDs
        PROVE  Copies(jid)' = One(jid \in accepted')
    <3>1. Pointers(queue', jid) = Pointers(queue, jid) + One(job = jid)
      BY <1>1, <2>1, <2>2, CountAppend DEF BrokerType
    <3>2. One(retrier'.job = jid) = 0 /\ One(job = jid) \in Nat
      BY <1>4, <1>11 DEF One
    <3>3. Pointers(queue, jid) + Entries(retry, jid) + Pointers(dead, jid) + One(job = jid)
          = Pointers(queue', jid) + Entries(retry', jid) + Pointers(dead', jid) + One(retrier'.job = jid)
      BY <1>5, <2>1, <3>1, <3>2
    <3>4. Pointers(queue', jid) \in Int /\ Entries(retry', jid) \in Int /\ Pointers(dead', jid) \in Int
      BY <1>5, <2>1, <3>1, <3>2
    <3>. QED  BY <1>6, <3>3, <3>4
  <2>4. BatchInRetry'
    BY <1>1, <2>1, SameBatch DEF batch
  <2>. QED  BY <1>3, <2>3, <2>4 DEF Even, OnePlace
<1>12. CASE /\ RetryEnqueues \/ RetryCounts \/ RetryExits
            /\ UNCHANGED brokerVars /\ retrier'.job = job /\ retrier'.batch = batch
  <2>1. UNCHANGED <<queue, retry, dead>>
    BY <1>12 DEF brokerVars
  <2>2. OnePlace'
    BY <1>7, <1>12, <2>1
  <2>3. BatchInRetry'
    BY <1>1, <1>12, <2>1, SameBatch DEF batch
  <2>. QED  BY <1>3, <2>2, <2>3 DEF Even
<1>13. CASE RetryFallsBack
  <2>1. /\ retrier.pc = "fallback" /\ queue' = queue /\ retrier'.job = NoJob /\ retrier'.batch = batch
        /\ (AddToRetry(job) \/ AddToDead(job))
    BY <1>13 DEF RetryFallsBack, RetrierGoes, AddToRetry, AddToDead, job, batch
  <2>2. job \in accepted /\ Entries(retry, job) = 0
    BY <1>4, <1>8, <2>1
  <2>4. \/ /\ dead' = dead
           /\ \A jid \in JIDs : Entries(retry', jid) = Entries(retry, jid) + One(job = jid)
        \/ /\ retry' = retry
           /\ \A jid \in JIDs : Pointers(dead', jid) = Pointers(dead, jid) + One(job = jid)
    <3>1. CASE AddToRetry(job)
      <4>. DEFINE S == [jid : accepted, due : BOOLEAN]
                  entry == [jid |-> job, due |-> FALSE]
      <4>1. retry \in Seq(S) /\ entry \in S /\ entry.jid = job /\ retry' = Append(retry, entry) /\ dead' = dead
        BY <1>1, <2>2, <3>1 DEF BrokerType, AddToRetry
      <4>. HIDE DEF S, entry
      <4>2. \A jid \in JIDs : Entries(retry', jid) = Entries(retry, jid) + One(job = jid)
        BY <4>1, CountAppend
      <4>. QED  BY <4>1, <4>2
    <3>2. CASE AddToDead(job)
      BY <1>1, <2>2, <3>2, CountAppend DEF BrokerType, AddToDead
    <3>. QED  BY <2>1, <3>1, <3>2
  <2>5. ASSUME NEW jid \in JIDs
        PROVE  Copies(jid)' = One(jid \in accepted')
    <3>1. One(retrier'.job = jid) = 0 /\ One(job = jid) \in Nat
      BY <1>4, <2>1 DEF One
    <3>2. Entries(retry', jid) \in Int /\ Pointers(dead', jid) \in Int /\ Pointers(queue', jid) \in Int
      BY <1>5, <2>1, <2>4, <3>1
    <3>3. Entries(retry', jid) + Pointers(dead', jid)
          = Entries(retry, jid) + Pointers(dead, jid) + One(job = jid)
      BY <1>5, <2>4, <3>1
    <3>4. Pointers(queue, jid) + Entries(retry, jid) + Pointers(dead, jid) + One(job = jid)
          = Pointers(queue', jid) + Entries(retry', jid) + Pointers(dead', jid) + One(retrier'.job = jid)
      BY <1>5, <2>1, <3>1, <3>2, <3>3
    <3>. QED  BY <1>6, <3>2, <3>4
  <2>6. BatchInRetry'
    <3>1. ASSUME NEW i \in DOMAIN batch
          PROVE  Entries(retry', batch[i]) = Entries(retry, batch[i])
      <4>1. batch[i] \in JIDs /\ Entries(retry, batch[i]) = 1
        BY <1>1, <1>4 DEF BatchInRetry, batch
      <4>2. One(job = batch[i]) = 0
        BY <2>2, <4>1 DEF One
      <4>. QED  BY <2>4, <4>1, <4>2
    <3>. QED  BY <1>1, <2>1, <3>1, SameBatch DEF batch
  <2>. QED  BY <1>3, <2>5, <2>6 DEF Even, OnePlace
<1>14. RetryEnqueues => \/ Enqueue(job) /\ retrier'.job = NoJob
                        \/ UNCHANGED brokerVars /\ retrier'.job = job /\ retrier'.batch = batch
  BY DEF RetryEnqueues, RetrierGoes, job, batch
<1>15. RetryCounts => UNCHANGED brokerVars /\ retrier'.job = job /\ retrier'.batch = batch
  BY DEF RetryCounts, RetrierGoes, job, batch
<1>16. RetryExits => UNCHANGED brokerVars /\ retrier'.job = job /\ retrier'.batch = batch
  BY <1>4 DEF RetryExits, RetrierGoes, batch
<1>. QED  BY <1>9, <1>10, <1>11, <1>12, <1>13, <1>14, <1>15, <1>16 DEF Retrier

\* While no lease runs out, the reaper finds nothing.
LEMMA ReaperConserves ==
  ASSUME TypeInv, Even, Reaper
  PROVE  Even'
<1>1. Orphans = <<>>
  <2>. DEFINE S == [jid : accepted, expired : BOOLEAN]
              part == Sublist(processing, {})
  <2>1. processing \in Seq(S) /\ {} \in SUBSET (1..Len(processing)) /\ Expired = {}
    BY DEF TypeInv, BrokerType, Even, NoneExpired, Expired
  <2>. HIDE DEF S
  <2>2. part \in Seq(S) /\ \E pos : Embeds(processing, {}, Len(processing), part, pos)
    BY <2>1, SublistEmbeds
  <2>3. Orphans = [i \in DOMAIN part |-> part[i].jid]
    BY <2>1 DEF Orphans
  <2>. HIDE DEF part
  <2>4. \A i \in 1..Len(part) : FALSE
    BY <2>2 DEF Embeds
  <2>5. DOMAIN part = {}
    BY <2>2, <2>4
  <2>. QED  BY <2>3, <2>5
<1>2. ReaperExits
  BY <1>1 DEF Reaper, ReaperTick, ReaperEnqueues, Even
<1>3. /\ UNCHANGED <<queue, processing, retry, dead, fetcher, worker, retrier, accepted, succeeded, cleared>>
      /\ reaper'.batch = reaper.batch
  BY <1>2 DEF ReaperExits, brokerVars, history, TypeInv, ReaperType
<1>4. \A jid : Copies(jid)' = Copies(jid)
  BY <1>3 DEF Copies, Hands
<1>5. OnePlace' /\ OneLease' /\ NoneExpired' /\ BatchInRetry'
  BY <1>3, <1>4 DEF Even, OnePlace, OneLease, NoneExpired, BatchInRetry, Holding
<1>. QED  BY <1>3, <1>5 DEF Even

\* The client puts a new job into one place.
LEMMA ClientConserves ==
  ASSUME TypeInv, Even, NEW new \in JIDs, ClientEnqueue(new)
  PROVE  Even'
<1>1. /\ new \notin accepted /\ accepted' = accepted \cup {new} /\ queue' = Append(queue, new)
      /\ UNCHANGED <<processing, retry, dead, fetcher, worker, retrier, reaper, succeeded, cleared>>
  BY DEF ClientEnqueue, Enqueue, engineVars
<1>2. queue \in Seq(JIDs)
  BY SeqMonotonic DEF TypeInv, BrokerType, JobsType
<1>3. ASSUME NEW jid \in JIDs
      PROVE  Copies(jid)' = One(jid \in accepted')
  <2>. DEFINE q == Pointers(queue, jid)
              r == Entries(retry, jid)
              d == Pointers(dead, jid)
              h == FetcherSends(jid) + Cardinality(Working(jid)) + One(retrier.job = jid)
              s == One(jid \in succeeded)
              c == One(jid \in cleared)
  <2>1. q \in Nat /\ r \in Nat /\ d \in Nat /\ h \in Nat /\ s \in Nat /\ c \in Nat
    BY CopiesSum DEF FetcherSends, One
  <2>2. Pointers(queue', jid) = q + One(new = jid)
    BY <1>1, <1>2, CountAppend
  <2>3. Working(jid)' = Working(jid) /\ FetcherSends(jid)' = FetcherSends(jid)
    BY <1>1 DEF Working, FetcherSends, Active
  <2>4. Copies(jid) = q + r + d + h + s + c /\ Copies(jid)' = (q + One(new = jid)) + r + d + h + s + c
    BY <1>1, <2>2, <2>3, CopiesAre
  <2>5. Copies(jid) = One(jid \in accepted)
    BY DEF Even, OnePlace
  <2>6. One(jid \in accepted') = One(jid \in accepted) + One(new = jid) /\ One(new = jid) \in Nat
    BY <1>1 DEF One
  <2>. HIDE DEF q, r, d, h, s, c
  <2>. QED  BY <2>1, <2>4, <2>5, <2>6
<1>4. OneLease' /\ NoneExpired' /\ BatchInRetry' /\ (reaper.batch = <<>>)'
  BY <1>1 DEF Even, OneLease, NoneExpired, BatchInRetry, Holding
<1>. QED  BY <1>3, <1>4 DEF Even, OnePlace

\* Clear moves the jobs of the queue to the cleared ones.
LEMMA ClearConserves ==
  ASSUME TypeInv, Even, ClearQueue
  PROVE  Even'
<1>1. /\ queue' = <<>> /\ cleared' = cleared \cup ToSet(queue)
      /\ UNCHANGED <<processing, retry, dead, fetcher, worker, retrier, reaper, succeeded, accepted>>
  BY DEF ClearQueue, DeleteKey, engineVars
<1>2. ASSUME NEW jid \in JIDs
      PROVE  Copies(jid)' = One(jid \in accepted')
  <2>. DEFINE q == Pointers(queue, jid)
              r == Entries(retry, jid)
              d == Pointers(dead, jid)
              h == FetcherSends(jid) + Cardinality(Working(jid)) + One(retrier.job = jid)
              s == One(jid \in succeeded)
  <2>1. q \in Nat /\ r \in Nat /\ d \in Nat /\ h \in Nat /\ s \in Nat
    BY CopiesSum DEF FetcherSends, One
  <2>2. q > 0 <=> jid \in ToSet(queue)
    BY EntriesPositive DEF TypeInv, BrokerType
  <2>3. Pointers(queue', jid) = 0
    <3>1. {i \in DOMAIN queue' : queue'[i] = jid} = {}
      BY <1>1
    <3>. QED  BY <3>1, FS_EmptySet DEF Pointers
  <2>4. Working(jid)' = Working(jid) /\ FetcherSends(jid)' = FetcherSends(jid)
    BY <1>1 DEF Working, FetcherSends, Active
  <2>5. /\ Copies(jid) = q + r + d + h + s + One(jid \in cleared)
        /\ Copies(jid)' = 0 + r + d + h + s + One(jid \in cleared')
    BY <1>1, <2>3, <2>4, CopiesAre
  <2>6. Copies(jid) = One(jid \in accepted)
    BY DEF Even, OnePlace
  <2>. HIDE DEF q, r, d, h, s
  <2>7. CASE jid \in ToSet(queue)
    <3>1. One(jid \in cleared') = 1
      BY <1>1, <2>7 DEF One
    <3>2. q = 1 /\ One(jid \in cleared) = 0
      BY <2>1, <2>2, <2>5, <2>6, <2>7 DEF One
    <3>. QED  BY <1>1, <2>1, <2>5, <2>6, <3>1, <3>2
  <2>8. CASE jid \notin ToSet(queue)
    <3>1. One(jid \in cleared') = One(jid \in cleared) /\ One(jid \in cleared) \in Nat
      BY <1>1, <2>8 DEF One
    <3>2. q = 0
      BY <2>1, <2>2, <2>8
    <3>. QED  BY <1>1, <2>1, <2>5, <2>6, <3>1, <3>2
  <2>. QED  BY <2>7, <2>8
<1>3. OneLease' /\ NoneExpired' /\ BatchInRetry' /\ (reaper.batch = <<>>)'
  BY <1>1 DEF Even, OneLease, NoneExpired, BatchInRetry, Holding
<1>. QED  BY <1>2, <1>3 DEF Even, OnePlace

\* A backoff that ends moves nothing.
LEMMA BackoffConserves ==
  ASSUME TypeInv, Even, BackoffEnds
  PROVE  Even'
<1>1. UNCHANGED <<queue, processing, dead, fetcher, worker, retrier, reaper, succeeded, accepted, cleared>>
  BY DEF BackoffEnds, RetryFallsDue, engineVars, history
<1>2. PICK i \in DOMAIN retry : retry' = [retry EXCEPT ![i].due = TRUE]
  BY DEF BackoffEnds, RetryFallsDue
<1>3. DOMAIN retry' = DOMAIN retry /\ \A k \in DOMAIN retry : retry'[k].jid = retry[k].jid
  <2>. DEFINE S == [jid : accepted, due : BOOLEAN]
              entry == [retry[i] EXCEPT !.due = TRUE]
  <2>1. retry[i] \in S
    <3>1. retry \in Seq(S)
      BY DEF TypeInv, BrokerType
    <3>. HIDE DEF S
    <3>. QED  BY <3>1
  <2>2. entry.jid = retry[i].jid
    BY <2>1
  <2>3. retry' = [retry EXCEPT ![i] = entry]
    BY <1>2
  <2>. HIDE DEF entry
  <2>. QED  BY <2>2, <2>3
<1>4. \A jid : Entries(retry', jid) = Entries(retry, jid)
  BY <1>3, CountFlags
<1>5. \A jid : Copies(jid)' = Copies(jid)
  BY <1>1, <1>4 DEF Copies, Hands
<1>6. OnePlace' /\ OneLease' /\ NoneExpired' /\ BatchInRetry'
  BY <1>1, <1>4, <1>5 DEF Even, OnePlace, OneLease, NoneExpired, BatchInRetry, Holding
<1>. QED  BY <1>1, <1>6 DEF Even

EvenInv == slow = 0 => Even

\* As long as no lease runs out, every step keeps every job in one place.
LEMMA StepConserves ==
  ASSUME TypeInv, EvenInv, [Next]_vars
  PROVE  EvenInv'
<1>. SUFFICES ASSUME slow' = 0 PROVE Even'
  BY DEF EvenInv
<1>1. slow \in Nat
  BY DEF TypeInv, JobsType
<1>2. slow = 0 /\ ~LeaseRunsOut
  <2>1. LeaseRunsOut => slow' = slow + 1
    BY DEF LeaseRunsOut
  <2>2. ~LeaseRunsOut
    BY <1>1, <2>1
  <2>3. slow' = slow
    BY <2>2 DEF Next, vars, history, ClientEnqueue, ClearQueue, Stop, StopReturns, Stopped,
           BackoffEnds, Fetcher, FetcherTop, FetcherPoll, FetcherSend, FetcherHandBack, FetcherAck,
           Retrier, RetryTick, RetryRemoves, RetryEnqueues, RetryCounts, RetryFallsBack, RetryExits,
           Reaper, ReaperTick, ReaperEnqueues, ReaperExits, Worker, JobSucceeds, JobFails,
           JobMeetsOpenCircuit, WorkerPostpones, WorkerCounts, WorkerSchedules, WorkerAcks, WorkerExits
  <2>. QED  BY <2>2, <2>3
<1>3. Even
  BY <1>2 DEF EvenInv
<1>4. CASE Stop \/ StopReturns \/ Stopped \/ UNCHANGED vars
  <2>1. UNCHANGED <<queue, processing, retry, dead, fetcher, worker, retrier, reaper,
                    succeeded, accepted, cleared>>
    BY <1>4 DEF Stop, StopReturns, Close, Stopped, vars, engineVars, history, brokerVars
  <2>2. \A jid : Copies(jid)' = Copies(jid)
    BY <2>1 DEF Copies, Hands
  <2>. QED  BY <1>3, <2>1, <2>2 DEF Even, OnePlace, OneLease, NoneExpired, BatchInRetry, Holding
<1>. QED  BY <1>2, <1>3, <1>4, FetcherConserves, WorkerConserves, RetrierConserves, ReaperConserves,
             ClientConserves, ClearConserves, BackoffConserves DEF Next

\* In the beginning there is nothing to count.
LEMMA InitEven ==
  ASSUME Init
  PROVE  Even
<1>1. /\ queue = <<>> /\ processing = <<>> /\ retry = <<>> /\ dead = <<>>
      /\ accepted = {} /\ succeeded = {} /\ cleared = {}
      /\ fetcher.pc = "top" /\ fetcher.job = NoJob /\ retrier.job = NoJob
      /\ retrier.batch = <<>> /\ reaper.batch = <<>>
      /\ \A w \in Workers : worker[w].pc = "idle" /\ worker[w].job = NoJob
  BY DEF Init, BrokerInit
<1>2. ASSUME NEW jid \in JIDs
      PROVE  /\ Pointers(queue, jid) = 0 /\ Entries(retry, jid) = 0 /\ Pointers(dead, jid) = 0
             /\ Entries(processing, jid) = 0
             /\ Cardinality(Working(jid)) = 0 /\ Cardinality(Holding(jid)) = 0
             /\ FetcherSends(jid) = 0 /\ One(retrier.job = jid) = 0 /\ One(fetcher.job = jid) = 0
  <2>1. jid # NoJob
    BY MemoryAssumption
  <2>2. /\ {i \in DOMAIN queue : queue[i] = jid} = {} /\ {i \in DOMAIN dead : dead[i] = jid} = {}
        /\ {i \in DOMAIN retry : retry[i].jid = jid} = {}
        /\ {i \in DOMAIN processing : processing[i].jid = jid} = {}
    BY <1>1
  <2>3. Working(jid) = {} /\ Holding(jid) = {}
    BY <1>1, <2>1 DEF Working, Holding
  <2>4. FetcherSends(jid) = 0 /\ One(retrier.job = jid) = 0 /\ One(fetcher.job = jid) = 0
    BY <1>1, <2>1 DEF FetcherSends, One
  <2>. QED  BY <2>2, <2>3, <2>4, FS_EmptySet DEF Pointers, Entries
<1>3. OnePlace
  <2>1. \A jid : One(jid \in accepted) = 0 /\ One(jid \in succeeded) = 0 /\ One(jid \in cleared) = 0
    BY <1>1 DEF One
  <2>. QED  BY <1>2, <2>1, CopiesAre DEF OnePlace
<1>4. OneLease
  BY <1>2 DEF OneLease
<1>. QED  BY <1>1, <1>3, <1>4 DEF Even, NoneExpired, BatchInRetry

\* Types, and one place for each job, always hold.
LEMMA AlwaysEven == Spec => [](TypeInv /\ EvenInv)
<1>1. Init => TypeInv /\ EvenInv
  BY InitDoes, InitEven DEF EvenInv
<1>2. TypeInv /\ EvenInv /\ [Next]_vars => (TypeInv /\ EvenInv)'
  BY StepDoes, StepConserves
<1>. QED  BY <1>1, <1>2, PTL DEF Spec

\* A job is conserved in the test engine: until a lease runs out under its holder, an
\* accepted job is in exactly one place, through every move between two lists in two
\* calls, with any number of jobs and workers, through Clear and through Stop.
THEOREM JobsAreConserved == Spec => []Conserved
<1>1. TypeInv /\ EvenInv => Conserved
  <2>. SUFFICES ASSUME TypeInv, EvenInv, slow = 0, NEW jid \in accepted
                PROVE  Copies(jid) = 1
    BY DEF Conserved
  <2>1. jid \in JIDs /\ OnePlace
    BY DEF TypeInv, JobsType, EvenInv, Even
  <2>. QED  BY <2>1 DEF OnePlace, One
<1>. QED  BY <1>1, AlwaysEven, PTL

\* Until a lease runs out, the processing list of the test engine is exactly what the
\* fetcher and the workers hold: Ack, which goes by JID, takes the lease of its caller.
THEOREM LeasesAreHeld == Spec => []LeasesMatchHolders
<1>1. EvenInv => LeasesMatchHolders
  BY DEF EvenInv, Even, OneLease, Holding, LeasesMatchHolders
<1>. QED  BY <1>1, AlwaysEven, PTL

-----------------------------------------------------------------------------
(* Statistics. *)

\* A list has no more jobs than entries.
LEMMA ListBounds ==
  ASSUME NEW S, NEW list \in Seq(S)
  PROVE  /\ IsFiniteSet(ToSet(list)) /\ Cardinality(ToSet(list)) <= Len(list)
         /\ IsFiniteSet(Jids(list)) /\ Cardinality(Jids(list)) <= Len(list)
<1>. DEFINE k == Len(list)
            f == [i \in 1..k |-> list[i]]
            g == [i \in 1..k |-> list[i].jid]
<1>1. k \in Nat /\ DOMAIN list = 1..k
  OBVIOUS
<1>2. IsFiniteSet(1..k) /\ Cardinality(1..k) = k
  <2>1. 1 \in Int /\ k \in Int /\ (1 > k => k = 0) /\ k - 1 + 1 = k
    BY <1>1
  <2>. HIDE DEF k
  <2>. QED  BY <2>1, FS_Interval
<1>. HIDE DEF k
<1>3. f \in Surjection(1..k, ToSet(list))
  BY <1>1 DEF Surjection, ToSet
<1>4. g \in Surjection(1..k, Jids(list))
  BY <1>1 DEF Surjection, Jids
<1>. HIDE DEF f, g
<1>5. IsFiniteSet(ToSet(list)) /\ Cardinality(ToSet(list)) <= k
  BY <1>2, <1>3, FS_Surjection
<1>6. IsFiniteSet(Jids(list)) /\ Cardinality(Jids(list)) <= k
  BY <1>2, <1>4, FS_Surjection
<1>. QED  BY <1>5, <1>6 DEF k

\* Bounds of two sets bound their union.
LEMMA UnionBounds ==
  ASSUME NEW A, NEW B, NEW m \in Nat, NEW n \in Nat, IsFiniteSet(A), IsFiniteSet(B),
         Cardinality(A) <= m, Cardinality(B) <= n
  PROVE  IsFiniteSet(A \cup B) /\ Cardinality(A \cup B) <= m + n
<1>1. IsFiniteSet(A \cup B) /\ IsFiniteSet(A \cap B)
      /\ Cardinality(A \cup B) = Cardinality(A) + Cardinality(B) - Cardinality(A \cap B)
  BY FS_Union, FS_Intersection
<1>2. Cardinality(A) \in Nat /\ Cardinality(B) \in Nat /\ Cardinality(A \cap B) \in Nat
  BY <1>1, FS_CardinalityType
<1>. QED  BY <1>1, <1>2

\* Every success is counted.
SuccessesCounted == IsFiniteSet(succeeded) /\ Cardinality(succeeded) <= processed

\* A step that performs a job counts it.
LEMMA StepCountsSuccesses ==
  ASSUME TypeInv, SuccessesCounted, [Next]_vars
  PROVE  SuccessesCounted'
<1>1. \/ UNCHANGED <<succeeded, processed>>
      \/ \E job : succeeded' = succeeded \cup {job} /\ processed' = processed + 1
  BY DEF Next, vars, history, brokerVars, ClientEnqueue, ClearQueue, Stop, StopReturns, Stopped,
         LeaseRunsOut, BackoffEnds, Fetcher, FetcherTop, FetcherPoll, FetcherSend, FetcherHandBack,
         FetcherAck, Retrier, RetryTick, RetryRemoves, RetryEnqueues, RetryCounts, RetryFallsBack,
         RetryExits, Reaper, ReaperTick, ReaperEnqueues, ReaperExits, Worker, JobSucceeds, JobFails,
         JobMeetsOpenCircuit, WorkerPostpones, WorkerCounts, WorkerSchedules, WorkerAcks, WorkerExits,
         Enqueue, Dequeue, Ack, ReapOrphanedJobs, AddToRetry, RemoveFromRetry, AddToDead, RecordSuccess,
         RecordFailure, DeleteKey, Close, LeaseExpires, RetryFallsDue
<1>2. processed \in Nat
  BY DEF TypeInv, BrokerType
<1>3. CASE UNCHANGED <<succeeded, processed>>
  BY <1>3 DEF SuccessesCounted
<1>4. ASSUME NEW job, succeeded' = succeeded \cup {job}, processed' = processed + 1
      PROVE  SuccessesCounted'
  <2>1. /\ IsFiniteSet(succeeded') /\ Cardinality(succeeded) \in Nat
        /\ (Cardinality(succeeded') = Cardinality(succeeded)
            \/ Cardinality(succeeded') = Cardinality(succeeded) + 1)
    BY <1>4, FS_AddElement, FS_CardinalityType DEF SuccessesCounted
  <2>. QED  BY <1>2, <1>4, <2>1 DEF SuccessesCounted
<1>. QED  BY <1>1, <1>3, <1>4

\* While no lease runs out, what the fetcher and the workers hold is leased.
LEMMA HeldIsListed ==
  ASSUME TypeInv, Even
  PROVE  FetcherHolds \cup WorkersHold \subseteq Leased
<1>. SUFFICES ASSUME NEW jid \in FetcherHolds \cup WorkersHold
              PROVE  jid \in Leased
  OBVIOUS
<1>1. jid \in JIDs
  BY PresentAccepted DEF Present, Holds, TypeInv, JobsType
<1>2. One(fetcher.job = jid) \in Nat /\ Cardinality(Holding(jid)) \in Nat
  BY CopiesSum DEF One
<1>3. One(fetcher.job = jid) + Cardinality(Holding(jid)) > 0
  <2>1. CASE jid \in FetcherHolds
    <3>1. One(fetcher.job = jid) = 1
      BY <2>1 DEF FetcherHolds, One
    <3>. QED  BY <1>2, <3>1
  <2>2. CASE jid \in WorkersHold
    <3>1. Holding(jid) # {} /\ Holding(jid) \in SUBSET Workers
      BY <2>2 DEF WorkersHold, Holding
    <3>2. IsFiniteSet(Holding(jid))
      BY <3>1, MemoryAssumption, FS_Subset
    <3>3. Cardinality(Holding(jid)) # 0
      BY <3>1, <3>2, FS_EmptySet
    <3>. QED  BY <1>2, <3>3
  <2>. QED  BY <2>1, <2>2
<1>4. Entries(processing, jid) > 0
  BY <1>1, <1>3 DEF Even, OneLease
<1>. QED  BY <1>4, EntriesPositive DEF TypeInv, BrokerType, Leased

\* The numbers that GetStats returns add up: until a lease runs out or a queue is
\* cleared, they account for every accepted job but the one that the retry loop is
\* moving, at every moment, between any two calls of any goroutines.
THEOREM StatsAccount == Spec => []StatsAccountForJobs
<1>1. Init => SuccessesCounted
  BY FS_EmptySet DEF Init, BrokerInit, SuccessesCounted
<1>2. TypeInv /\ SuccessesCounted /\ [Next]_vars => SuccessesCounted'
  BY StepCountsSuccesses
<1>3. TypeInv /\ EvenInv /\ Carried /\ SuccessesCounted => StatsAccountForJobs
  <2>. SUFFICES ASSUME TypeInv, EvenInv, Carried, SuccessesCounted, slow = 0, cleared = {}
                PROVE  GetStats.queues + GetStats.processing + GetStats.retry + GetStats.dead
                         + GetStats.processed + One(retrier.job # NoJob) >= Cardinality(accepted)
    BY DEF StatsAccountForJobs
  <2>. DEFINE q == Len(queue)
              p == Len(processing)
              r == Len(retry)
              d == Len(dead)
              t == One(retrier.job # NoJob)
              T == RetrierHolds
  <2>1. /\ GetStats.queues = q /\ GetStats.processing = p /\ GetStats.retry = r
        /\ GetStats.dead = d /\ GetStats.processed = processed
    BY DEF GetStats
  <2>2. /\ q \in Nat /\ p \in Nat /\ r \in Nat /\ d \in Nat /\ processed \in Nat
        /\ IsFiniteSet(InQueue) /\ Cardinality(InQueue) <= q
        /\ IsFiniteSet(Leased) /\ Cardinality(Leased) <= p
        /\ IsFiniteSet(InRetry) /\ Cardinality(InRetry) <= r
        /\ IsFiniteSet(InDead) /\ Cardinality(InDead) <= d
    <3>. DEFINE S == [jid : accepted, expired : BOOLEAN]
                R == [jid : accepted, due : BOOLEAN]
    <3>1. processing \in Seq(S) /\ retry \in Seq(R) /\ queue \in Seq(accepted) /\ dead \in Seq(accepted)
          /\ processed \in Nat
      BY DEF TypeInv, BrokerType
    <3>. HIDE DEF S, R
    <3>. QED  BY <3>1, ListBounds DEF InQueue, Leased, InRetry, InDead
  <2>3. t \in Nat /\ IsFiniteSet(T) /\ Cardinality(T) <= t
    <3>1. CASE retrier.job = NoJob
      <4>1. T = {} /\ t = 0
        BY <3>1 DEF RetrierHolds, One
      <4>2. IsFiniteSet({}) /\ Cardinality({}) = 0
        BY FS_EmptySet
      <4>. HIDE DEF T, t
      <4>. QED  BY <4>1, <4>2
    <3>2. CASE retrier.job # NoJob
      <4>1. T = {retrier.job} /\ t = 1
        BY <3>2 DEF RetrierHolds, One
      <4>2. IsFiniteSet({retrier.job}) /\ Cardinality({retrier.job}) = 1
        BY FS_Singleton
      <4>. HIDE DEF T, t
      <4>. QED  BY <4>1, <4>2
    <3>. QED  BY <3>1, <3>2
  <2>4. accepted \subseteq InQueue \cup Leased \cup InRetry \cup InDead \cup succeeded \cup T
    <3>1. FetcherHolds \cup WorkersHold \subseteq Leased
      BY HeldIsListed DEF EvenInv
    <3>. QED  BY <3>1 DEF Carried, Safe, Holds
  <2>. HIDE DEF q, p, r, d, t, T
  <2>. DEFINE A == InQueue \cup Leased
              B == A \cup InRetry
              C == B \cup InDead
              D == C \cup succeeded
              E == D \cup T
  <2>5. IsFiniteSet(A) /\ Cardinality(A) <= q + p
    BY <2>2, UnionBounds
  <2>6. IsFiniteSet(B) /\ Cardinality(B) <= q + p + r
    <3>1. q + p \in Nat
      BY <2>2
    <3>. HIDE DEF A
    <3>. QED  BY <2>2, <2>5, <3>1, UnionBounds
  <2>7. IsFiniteSet(C) /\ Cardinality(C) <= q + p + r + d
    <3>1. q + p + r \in Nat
      BY <2>2
    <3>. HIDE DEF B
    <3>. QED  BY <2>2, <2>6, <3>1, UnionBounds
  <2>8. IsFiniteSet(D) /\ Cardinality(D) <= q + p + r + d + processed
    <3>1. q + p + r + d \in Nat
      BY <2>2
    <3>2. IsFiniteSet(succeeded) /\ Cardinality(succeeded) <= processed
      BY DEF SuccessesCounted
    <3>. HIDE DEF C
    <3>. QED  BY <2>2, <2>7, <3>1, <3>2, UnionBounds
  <2>9. IsFiniteSet(E) /\ Cardinality(E) <= q + p + r + d + processed + t
    <3>1. q + p + r + d + processed \in Nat
      BY <2>2
    <3>. HIDE DEF D
    <3>. QED  BY <2>3, <2>8, <3>1, UnionBounds
  <2>10. accepted \in SUBSET E
    BY <2>4
  <2>. HIDE DEF E
  <2>11. IsFiniteSet(accepted) /\ Cardinality(accepted) <= Cardinality(E)
    BY <2>9, <2>10, FS_Subset
  <2>12. Cardinality(accepted) \in Nat /\ Cardinality(E) \in Nat
    BY <2>9, <2>11, FS_CardinalityType
  <2>13. q + p + r + d + processed + t >= Cardinality(accepted)
    BY <2>2, <2>3, <2>9, <2>11, <2>12
  <2>. QED  BY <2>1, <2>2, <2>3, <2>13 DEF t
<1>. QED  BY <1>1, <1>2, <1>3, AlwaysEven, AlwaysCarried, PTL DEF Spec
=============================================================================
