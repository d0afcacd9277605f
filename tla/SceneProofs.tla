---------------------------- MODULE SceneProofs ----------------------------
(***************************************************************************)
(* Proofs about SceneState, for any users, utterances, messages, lists and  *)
(* displays and any limits and times to live, and about CaptionPipeline,    *)
(* for any texts and any number of connections, utterances and revisions.   *)
(*                                                                          *)
(* The lists of a scene are cut, filtered and inserted into: the first part *)
(* says what each of these does to any sequence.  Every operation of the    *)
(* scene is then shown to keep what holds between two operations (Sound)    *)
(* and the final captions (StaysFinal), and an event is pruning followed by *)
(* one of them.  The last part follows the transcripts of a speaker from    *)
(* the utterance to the captions they become.                               *)
(***************************************************************************)
EXTENDS CaptionPipeline, FiniteSetTheorems, NaturalsInduction, SequenceTheorems, TLAPS

(* The sequences.                                                           *)

\* A part of a sequence up to its end.
LEMMA SuffixParts ==
  ASSUME NEW S, NEW q \in Seq(S), NEW d \in 0..Len(q)
  PROVE  LET r == SubSeq(q, d + 1, Len(q)) IN
         /\ r \in Seq(S) /\ Len(r) = Len(q) - d
         /\ \A i \in 1..Len(r) : i + d \in 1..Len(q) /\ r[i] = q[i + d]
<1>1. Len(q) \in Nat
  OBVIOUS
<1>2. \A i \in d + 1..Len(q) : q[i] \in S
  BY <1>1
<1> QED
  BY <1>1, <1>2, SubSeqProperties

\* The range of a sequence is finite.
LEMMA RangeFinite ==
  ASSUME NEW S, NEW q \in Seq(S)
  PROVE  IsFiniteSet(ToSet(q)) /\ ToSet(q) \subseteq S
<1>1. q \in Surjection(1..Len(q), ToSet(q))
  BY DEF Surjection, ToSet
<1> QED
  BY <1>1, FS_Surjection, FS_Interval DEF ToSet

\* An element is appended.
LEMMA AppendParts ==
  ASSUME NEW S, NEW q \in Seq(S), NEW x \in S
  PROVE  /\ Append(q, x) \in Seq(S) /\ Len(Append(q, x)) = Len(q) + 1
         /\ \A i \in 1..Len(q) : Append(q, x)[i] = q[i]
         /\ Append(q, x)[Len(q) + 1] = x
OBVIOUS

\* The least number of a set.
LEMMA Smallest ==
  ASSUME NEW T \in SUBSET Nat, T # {}
  PROVE  \E x \in T : \A y \in T : x <= y
<1>1. PICK x \in T : \A y \in T : ~ (<<y, x>> \in OpToRel(<, Nat))
  BY NatLessThanWellFounded, WFMin
<1>2. \A y \in T : ~(y < x)
  BY <1>1 DEF OpToRel
<1> QED
  BY <1>2

\* How many of P come up to k.
Rank(P, k) == Cardinality({j \in P : j <= k})

\* A place comes after those before it.
LEMMA RankGrows ==
  ASSUME NEW n \in Nat, NEW P \in SUBSET (1..n)
  PROVE  /\ IsFiniteSet(P) /\ Cardinality(P) \in Nat /\ Cardinality(P) <= n
         /\ \A k \in P : Rank(P, k) \in 1..Cardinality(P)
         /\ \A k, l \in P : k < l => Rank(P, k) < Rank(P, l)
<1>1. IsFiniteSet(1..n) /\ Cardinality(1..n) = n
  <2>1. Cardinality(1..n) = IF 1 > n THEN 0 ELSE n - 1 + 1
    BY FS_Interval
  <2> QED
    BY <2>1, FS_Interval
<1>2. IsFiniteSet(P) /\ Cardinality(P) \in Nat /\ Cardinality(P) <= n
  BY <1>1, FS_Subset, FS_CardinalityType
<1>3. ASSUME NEW k \in P PROVE Rank(P, k) \in 1..Cardinality(P)
  <2> DEFINE Q == {j \in P : j <= k}
  <2>1. IsFiniteSet(Q) /\ Cardinality(Q) \in Nat /\ Cardinality(Q) <= Cardinality(P)
    BY <1>2, FS_Subset, FS_CardinalityType
  <2>2. k \in Q
    OBVIOUS
  <2>3. Cardinality(Q) # 0
    BY <2>1, <2>2, FS_EmptySet
  <2> QED
    BY <1>2, <2>1, <2>3 DEF Rank
<1>4. ASSUME NEW k \in P, NEW l \in P, k < l PROVE Rank(P, k) < Rank(P, l)
  <2> DEFINE Q == {j \in P : j <= k}  R == {j \in P : j <= l}
  <2>0. k \in Nat /\ l \in Nat /\ \A j \in P : j \in Nat
    OBVIOUS
  <2>1. Q \subseteq R /\ l \in R /\ l \notin Q
    <3>1. \A j \in P : j <= k => j <= l
      BY <1>4, <2>0
    <3>2. l <= l /\ ~(l <= k)
      BY <1>4, <2>0
    <3> QED
      BY <3>1, <3>2
  <2>2. IsFiniteSet(R) /\ IsFiniteSet(Q)
    BY <1>2, FS_Subset
  <2>3. Cardinality(Q) <= Cardinality(R) /\ (Cardinality(Q) = Cardinality(R) => Q = R)
    BY <2>1, <2>2, FS_Subset
  <2>4. Cardinality(Q) \in Nat /\ Cardinality(R) \in Nat /\ Cardinality(Q) # Cardinality(R)
    BY <2>1, <2>2, <2>3, FS_CardinalityType
  <2> QED
    BY <2>3, <2>4 DEF Rank
<1> QED
  BY <1>2, <1>3, <1>4

\* ... so every rank is that of one place.
LEMMA RankReached ==
  ASSUME NEW n \in Nat, NEW P \in SUBSET (1..n), NEW i \in 1..Cardinality(P)
  PROVE  Place(P, i) \in P /\ Rank(P, Place(P, i)) = i
<1> DEFINE f == [k \in P |-> Rank(P, k)]  m == Cardinality(P)
<1>1. /\ IsFiniteSet(P) /\ m \in Nat /\ \A k \in P : Rank(P, k) \in 1..m
      /\ \A k, l \in P : k < l => Rank(P, k) < Rank(P, l)
  BY RankGrows
<1>2. IsFiniteSet(1..m) /\ Cardinality(1..m) = m
  <2>1. Cardinality(1..m) = IF 1 > m THEN 0 ELSE m - 1 + 1
    BY <1>1, FS_Interval
  <2> QED
    BY <1>1, <2>1, FS_Interval
<1>3. f \in Injection(P, 1..m)
  <2>1. f \in [P -> 1..m]
    BY <1>1
  <2>2. ASSUME NEW k \in P, NEW l \in P, Rank(P, k) = Rank(P, l) PROVE k = l
    <3>1. ~(k < l) /\ ~(l < k)
      <4>1. Rank(P, k) \in 1..m
        BY <1>1
      <4>2. ~(Rank(P, k) < Rank(P, l)) /\ ~(Rank(P, l) < Rank(P, k))
        BY <1>1, <2>2, <4>1
      <4> QED
        BY <1>1, <4>2
    <3>2. k \in Nat /\ l \in Nat
      OBVIOUS
    <3> QED
      BY <3>1, <3>2
  <2>3. \A k, l \in P : f[k] = f[l] => k = l
    BY <2>2
  <2> HIDE DEF f
  <2> QED
    BY <2>1, <2>3 DEF Injection, IsInjective
<1>4. f \in Surjection(P, 1..m)
  BY <1>1, <1>2, <1>3, FS_Injection
<1>5. \E k \in P : f[k] = i
  BY <1>4 DEF Surjection
<1>6. \E k \in P : Cardinality({j \in P : j <= k}) = i
  BY <1>5 DEF Rank
<1>7. Place(P, i) \in P /\ Cardinality({j \in P : j <= Place(P, i)}) = i
  BY <1>6 DEF Place
<1> QED
  BY <1>7 DEF Rank

\* What is left of a sequence, in its order.
LEMMA OnlyParts ==
  ASSUME NEW S, NEW q \in Seq(S), NEW P \in SUBSET (1..Len(q))
  PROVE  LET r == Only(q, P) IN
         /\ r \in Seq(S) /\ Len(r) = Cardinality(P) /\ Len(r) <= Len(q)
         /\ \A i \in 1..Len(r) : Place(P, i) \in P /\ r[i] = q[Place(P, i)]
         /\ \A i, j \in 1..Len(r) : Place(P, i) = Place(P, j) => i = j
         /\ \A k \in P : Rank(P, k) \in 1..Len(r) /\ r[Rank(P, k)] = q[k]
<1> DEFINE r == Only(q, P)  m == Cardinality(P)
<1>1. Len(q) \in Nat /\ \A k \in 1..Len(q) : q[k] \in S
  OBVIOUS
<1>2. /\ m \in Nat /\ m <= Len(q) /\ \A k \in P : Rank(P, k) \in 1..m
      /\ \A k, l \in P : k < l => Rank(P, k) < Rank(P, l)
  BY <1>1, RankGrows
<1>3. \A i \in 1..m : Place(P, i) \in P /\ Rank(P, Place(P, i)) = i
  BY <1>1, RankReached
<1>4. r = [i \in 1..m |-> q[Place(P, i)]]
  BY DEF Only
<1>5. r \in Seq(S) /\ Len(r) = m
  <2>1. \A i \in 1..m : q[Place(P, i)] \in S
    BY <1>1, <1>3
  <2> QED
    BY <1>2, <1>4, <2>1
<1>6. \A i \in 1..m : r[i] = q[Place(P, i)]
  BY <1>4
<1>7. \A i, j \in 1..m : Place(P, i) = Place(P, j) => i = j
  BY <1>3
<1>8. ASSUME NEW k \in P PROVE Rank(P, k) \in 1..m /\ r[Rank(P, k)] = q[k]
  <2> DEFINE l == Place(P, Rank(P, k))
  <2>0. Rank(P, k) \in 1..m /\ k \in Nat /\ \A j \in P : j \in Nat
    BY <1>2
  <2>1. Rank(P, k) \in 1..m /\ l \in P /\ Rank(P, l) = Rank(P, k) /\ k \in Nat /\ l \in Nat
    BY <1>3, <2>0
  <2> HIDE DEF l
  <2>2. ~(k < l) /\ ~(l < k)
    <3>1. Rank(P, k) \in Nat
      BY <2>1
    <3>2. ~(Rank(P, k) < Rank(P, l)) /\ ~(Rank(P, l) < Rank(P, k))
      BY <2>1, <3>1
    <3> QED
      BY <1>2, <2>1, <3>2
  <2>3. l = k
    BY <2>1, <2>2
  <2> QED
    BY <1>6, <2>1, <2>3 DEF l
<1> HIDE DEF r, m
<1> QED
  BY <1>2, <1>3, <1>5, <1>6, <1>7, <1>8 DEF r, m
-----------------------------------------------------------------------------
(* What the lists are made of.                                              *)

\* A row is shown once, and an utterance has one caption.
UniqueRows(seq) == \A i, j \in DOMAIN seq : seq[i].id = seq[j].id => i = j
UniqueCaptions(seq) ==
  \A i, j \in DOMAIN seq :
    seq[i].utterance # NoUtterance /\ seq[i].utterance = seq[j].utterance => i = j

\* A sequence made of different elements of another.
LEMMA PartKeeps ==
  ASSUME NEW q, NEW r, NEW f \in [DOMAIN r -> DOMAIN q],
         \A i, j \in DOMAIN r : f[i] = f[j] => i = j,
         \A i \in DOMAIN r : r[i] = q[f[i]]
  PROVE  /\ ToSet(r) \subseteq ToSet(q)
         /\ UniqueRows(q) => UniqueRows(r)
         /\ UniqueCaptions(q) => UniqueCaptions(r)
<1>1. ToSet(r) \subseteq ToSet(q)
  BY DEF ToSet
<1>2. ASSUME UniqueRows(q) PROVE UniqueRows(r)
  BY <1>2 DEF UniqueRows
<1>3. ASSUME UniqueCaptions(q) PROVE UniqueCaptions(r)
  BY <1>3 DEF UniqueCaptions
<1> QED
  BY <1>1, <1>2, <1>3

\* Elements are dropped.
LEMMA OnlyKeeps ==
  ASSUME NEW S, NEW q \in Seq(S), NEW P \in SUBSET DOMAIN q
  PROVE  LET r == Only(q, P) IN
         /\ r \in Seq(S) /\ Len(r) <= Len(q)
         /\ ToSet(r) = {q[k] : k \in P} /\ ToSet(r) \subseteq ToSet(q)
         /\ UniqueRows(q) => UniqueRows(r)
         /\ UniqueCaptions(q) => UniqueCaptions(r)
<1> DEFINE r == Only(q, P)  f == [i \in DOMAIN r |-> Place(P, i)]
<1>1. P \in SUBSET (1..Len(q)) /\ DOMAIN q = 1..Len(q)
  OBVIOUS
<1>2. /\ r \in Seq(S) /\ Len(r) <= Len(q)
      /\ \A i \in 1..Len(r) : Place(P, i) \in P /\ r[i] = q[Place(P, i)]
      /\ \A i, j \in 1..Len(r) : Place(P, i) = Place(P, j) => i = j
      /\ \A k \in P : Rank(P, k) \in 1..Len(r) /\ r[Rank(P, k)] = q[k]
  BY <1>1, OnlyParts
<1> HIDE DEF r
<1>3. DOMAIN r = 1..Len(r)
  BY <1>2
<1>4. /\ f \in [DOMAIN r -> DOMAIN q] /\ (\A i, j \in DOMAIN r : f[i] = f[j] => i = j)
      /\ \A i \in DOMAIN r : r[i] = q[f[i]]
  BY <1>2, <1>3
<1> HIDE DEF f
<1>5. /\ ToSet(r) \subseteq ToSet(q) /\ (UniqueRows(q) => UniqueRows(r))
      /\ (UniqueCaptions(q) => UniqueCaptions(r))
  BY <1>4, PartKeeps
<1>6. ToSet(r) = {q[k] : k \in P}
  <2>1. ASSUME NEW i \in DOMAIN r PROVE r[i] \in {q[k] : k \in P}
    BY <1>2, <1>3
  <2>2. ASSUME NEW k \in P PROVE \E i \in DOMAIN r : r[i] = q[k]
    BY <1>2, <1>3
  <2> QED
    BY <2>1, <2>2 DEF ToSet
<1> QED
  BY <1>2, <1>5, <1>6 DEF r

\* The oldest are dropped.
LEMMA NewestKeeps ==
  ASSUME NEW S, NEW q \in Seq(S), NEW n \in Nat
  PROVE  LET r == Newest(q, n) IN
         /\ r \in Seq(S) /\ Len(r) <= n /\ ToSet(r) \subseteq ToSet(q)
         /\ UniqueRows(q) => UniqueRows(r)
         /\ UniqueCaptions(q) => UniqueCaptions(r)
<1>1. Len(q) \in Nat /\ DOMAIN q = 1..Len(q)
  OBVIOUS
<1>2. CASE Len(q) > n
  <2> DEFINE d == Len(q) - n  r == SubSeq(q, d + 1, Len(q))  f == [i \in DOMAIN r |-> i + d]
  <2>0. Newest(q, n) = r
    BY <1>2 DEF Newest
  <2>1. d \in 0..Len(q) /\ Len(q) - d = n
    BY <1>1, <1>2
  <2> HIDE DEF d
  <2>2. /\ r \in Seq(S) /\ Len(r) = Len(q) - d
        /\ \A i \in 1..Len(r) : i + d \in 1..Len(q) /\ r[i] = q[i + d]
    BY <2>1, SuffixParts
  <2> HIDE DEF r
  <2>3. DOMAIN r = 1..Len(r) /\ d \in Nat
    BY <2>1, <2>2
  <2>4. /\ f \in [DOMAIN r -> DOMAIN q] /\ (\A i, j \in DOMAIN r : f[i] = f[j] => i = j)
        /\ \A i \in DOMAIN r : r[i] = q[f[i]]
    BY <1>1, <2>2, <2>3
  <2> HIDE DEF f
  <2>5. /\ ToSet(r) \subseteq ToSet(q) /\ (UniqueRows(q) => UniqueRows(r))
        /\ (UniqueCaptions(q) => UniqueCaptions(r))
    BY <2>4, PartKeeps
  <2> QED
    BY <2>0, <2>1, <2>2, <2>5
<1>3. CASE ~(Len(q) > n)
  BY <1>1, <1>3 DEF Newest
<1> QED
  BY <1>2, <1>3

\* The first are kept.
LEMMA FirstKeeps ==
  ASSUME NEW S, NEW q \in Seq(S), NEW n \in Nat
  PROVE  LET r == First(q, n) IN
         /\ r \in Seq(S) /\ Len(r) <= n /\ Len(r) <= Len(q)
         /\ \A i \in 1..Len(r) : r[i] = q[i]
<1>1. Len(q) \in Nat /\ \A i \in 1..Len(q) : q[i] \in S
  OBVIOUS
<1>2. CASE Len(q) > n
  <2>1. First(q, n) = SubSeq(q, 1, n)
    BY <1>2 DEF First
  <2>2. \A i \in 1..n : q[i] \in S
    BY <1>1, <1>2
  <2>3. /\ SubSeq(q, 1, n) \in Seq(S) /\ Len(SubSeq(q, 1, n)) = IF 1 <= n THEN n - 1 + 1 ELSE 0
        /\ \A i \in 1..(n - 1 + 1) : SubSeq(q, 1, n)[i] = q[1 + i - 1]
    BY <2>2, SubSeqProperties
  <2>4. Len(SubSeq(q, 1, n)) = n /\ n - 1 + 1 = n /\ \A i \in 1..n : 1 + i - 1 = i
    BY <2>3
  <2> QED
    BY <1>1, <1>2, <2>1, <2>3, <2>4
<1>3. CASE ~(Len(q) > n)
  BY <1>1, <1>3 DEF First
<1> QED
  BY <1>2, <1>3

\* An element is added at the end.
LEMMA AppendKeeps ==
  ASSUME NEW S, NEW q \in Seq(S), NEW x \in S
  PROVE  LET r == Append(q, x) IN
         /\ r \in Seq(S) /\ Len(r) = Len(q) + 1 /\ ToSet(r) = ToSet(q) \cup {x}
         /\ UniqueCaptions(q) /\ (x.utterance # NoUtterance =>
                                 \A y \in ToSet(q) : y.utterance # x.utterance)
              => UniqueCaptions(r)
<1> DEFINE r == Append(q, x)  n == Len(q)
<1>1. /\ n \in Nat /\ r \in Seq(S) /\ Len(r) = n + 1 /\ r[n + 1] = x
      /\ \A i \in 1..n : r[i] = q[i]
  BY AppendParts
<1>2. DOMAIN r = 1..(n + 1) /\ DOMAIN q = 1..n
  BY <1>1
<1> HIDE DEF r, n
<1>3. \A i \in DOMAIN r : i = n + 1 \/ (i \in 1..n /\ i # n + 1)
  BY <1>1, <1>2
<1>4. ToSet(r) = ToSet(q) \cup {x}
  BY <1>1, <1>2, <1>3 DEF ToSet
<1>5. ASSUME UniqueCaptions(q),
             x.utterance # NoUtterance => \A y \in ToSet(q) : y.utterance # x.utterance
      PROVE  UniqueCaptions(r)
  <2>1. x.utterance # NoUtterance => \A i \in 1..n : q[i].utterance # x.utterance
    BY <1>2, <1>5 DEF ToSet
  <2> QED
    BY <1>1, <1>2, <1>3, <1>5, <2>1 DEF UniqueCaptions
<1> QED
  BY <1>1, <1>4, <1>5 DEF r, n

\* An element is changed.
LEMMA ChangeKeeps ==
  ASSUME NEW S, NEW q \in Seq(S), NEW k \in DOMAIN q, NEW x \in S
  PROVE  LET r == [q EXCEPT ![k] = x] IN
         /\ r \in Seq(S) /\ Len(r) = Len(q)
         /\ \A y \in ToSet(r) : y = x \/ \E i \in DOMAIN q : i # k /\ y = q[i]
         /\ UniqueRows(q) /\ x.id = q[k].id => UniqueRows(r)
         /\ UniqueCaptions(q) /\ x.utterance = q[k].utterance => UniqueCaptions(r)
<1> DEFINE r == [q EXCEPT ![k] = x]
<1>1. r \in Seq(S) /\ Len(r) = Len(q) /\ DOMAIN r = DOMAIN q
  OBVIOUS
<1>2. \A i \in DOMAIN q : r[i] = IF i = k THEN x ELSE q[i]
  OBVIOUS
<1> HIDE DEF r
<1>3. \A y \in ToSet(r) : y = x \/ \E i \in DOMAIN q : i # k /\ y = q[i]
  BY <1>1, <1>2 DEF ToSet
<1>4. ASSUME UniqueRows(q), x.id = q[k].id PROVE UniqueRows(r)
  BY <1>1, <1>2, <1>4 DEF UniqueRows
<1>5. ASSUME UniqueCaptions(q), x.utterance = q[k].utterance PROVE UniqueCaptions(r)
  BY <1>1, <1>2, <1>5 DEF UniqueCaptions
<1> QED
  BY <1>1, <1>3, <1>4, <1>5 DEF r

\* An element is added in between.
LEMMA InsertKeeps ==
  ASSUME NEW S, NEW q \in Seq(S), NEW x \in S, NEW p \in 1..(Len(q) + 1)
  PROVE  LET r == InsertAt(q, p, x) IN
         /\ r \in Seq(S) /\ ToSet(r) \subseteq ToSet(q) \cup {x}
         /\ UniqueRows(q) /\ (\A y \in ToSet(q) : y.id # x.id) => UniqueRows(r)
<1> DEFINE n == Len(q)  before == SubSeq(q, 1, p - 1)  after == SubSeq(q, (p - 1) + 1, n)
           h == before \o <<x>>  r == h \o after
<1>1. n \in Nat /\ p \in Nat /\ p >= 1 /\ p <= n + 1 /\ DOMAIN q = 1..n
      /\ \A i \in 1..n : q[i] \in S
  OBVIOUS
<1>2. before \in Seq(S) /\ Len(before) = p - 1 /\ \A i \in 1..(p - 1) : before[i] = q[i]
  <2>1. \A i \in 1..(p - 1) : q[i] \in S
    BY <1>1
  <2> QED
    BY <1>1, <2>1, SubSeqProperties
<1>3. /\ after \in Seq(S) /\ Len(after) = n - (p - 1)
      /\ \A i \in 1..Len(after) : i + (p - 1) \in 1..n /\ after[i] = q[i + (p - 1)]
  <2>1. p - 1 \in 0..n
    BY <1>1
  <2> QED
    BY <2>1, SuffixParts
<1>4. InsertAt(q, p, x) = r
  <2>1. (p - 1) + 1 = p
    BY <1>1
  <2> QED
    BY <2>1 DEF InsertAt
<1> HIDE DEF n, before, after
<1>5. h \in Seq(S) /\ Len(h) = p /\ (\A i \in 1..(p - 1) : h[i] = q[i]) /\ h[p] = x
  <2>1. <<x>> \in Seq(S) /\ Len(<<x>>) = 1 /\ <<x>>[1] = x
    OBVIOUS
  <2>2. /\ h \in Seq(S) /\ Len(h) = Len(before) + Len(<<x>>)
        /\ \A i \in 1..Len(before) + Len(<<x>>) :
             h[i] = IF i <= Len(before) THEN before[i] ELSE <<x>>[i - Len(before)]
    BY <1>2, <2>1, ConcatProperties
  <2> QED
    BY <1>1, <1>2, <2>1, <2>2
<1> HIDE DEF h
<1>6. /\ r \in Seq(S) /\ Len(r) = Len(h) + Len(after)
      /\ \A i \in 1..Len(h) + Len(after) : r[i] = IF i <= Len(h) THEN h[i] ELSE after[i - Len(h)]
  BY <1>3, <1>5, ConcatProperties
<1> HIDE DEF r
<1>7. Len(r) = n + 1 /\ DOMAIN r = 1..(n + 1)
  BY <1>1, <1>3, <1>5, <1>6
<1> DEFINE f == [i \in 1..(n + 1) |-> IF i < p THEN i ELSE i - 1]
<1>8. ASSUME NEW i \in 1..(n + 1)
      PROVE  IF i = p THEN r[i] = x ELSE f[i] \in 1..n /\ r[i] = q[f[i]]
  <2>1. CASE i < p
    BY <1>1, <1>5, <1>6, <1>7, <2>1
  <2>2. CASE i = p
    BY <1>1, <1>5, <1>6, <1>7, <2>2
  <2>3. CASE i > p
    <3>1. i - p \in 1..Len(after) /\ i - p + (p - 1) = i - 1 /\ ~(i <= p)
      BY <1>1, <1>3, <2>3
    <3>2. r[i] = after[i - p]
      BY <1>5, <1>6, <1>7, <3>1
    <3>3. after[i - p] = q[i - 1] /\ i - 1 \in 1..n
      BY <1>3, <3>1
    <3> QED
      BY <1>1, <2>3, <3>2, <3>3
  <2> QED
    BY <1>1, <2>1, <2>2, <2>3
<1>9. \A i, j \in 1..(n + 1) : i # p /\ j # p /\ f[i] = f[j] => i = j
  BY <1>1
<1> HIDE DEF f
<1>10. ToSet(r) \subseteq ToSet(q) \cup {x}
  BY <1>1, <1>7, <1>8 DEF ToSet
<1>11. ASSUME UniqueRows(q), \A y \in ToSet(q) : y.id # x.id PROVE UniqueRows(r)
  <2>1. \A i \in 1..n : q[i].id # x.id
    BY <1>1, <1>11 DEF ToSet
  <2> SUFFICES ASSUME NEW i \in 1..(n + 1), NEW j \in 1..(n + 1), r[i].id = r[j].id
               PROVE  i = j
    BY <1>7 DEF UniqueRows
  <2>2. CASE i = p \/ j = p
    BY <1>8, <2>1, <2>2
  <2>3. CASE i # p /\ j # p
    <3>1. f[i] = f[j]
      BY <1>1, <1>8, <1>11, <2>3 DEF UniqueRows
    <3> QED
      BY <1>9, <2>3, <3>1
  <2> QED
    BY <2>2, <2>3
<1> QED
  BY <1>4, <1>6, <1>10, <1>11
-----------------------------------------------------------------------------
(* What holds of a scene between operations, by its parts.                  *)

\* Participants and remembered ids, by their key.
Participants == UNION {[D -> Participant] : D \in SUBSET Users}
Seen == UNION {[D -> Int] : D \in SUBSET Messages}

\* The types of its fields.
SceneType == [participants : Participants, ids : Seq(Users), speaking : SUBSET Users,
              chat : Seq(Message), captions : Seq(Caption), conversation : Seq(Row), seen : Seen]

\* The limits of its lists.
Limited(s, items) ==
  /\ Len(s.captions) <= MaxCaptions /\ Len(s.chat) <= MaxChat
  /\ Len(s.conversation) <= items /\ Len(s.ids) <= MaxParticipants

\* The ids that are remembered are not more than n.
SeenUpTo(s, n) == IsFiniteSet(DOMAIN s.seen) /\ Cardinality(DOMAIN s.seen) <= n

\* The participants are listed, once each.
ListedOnce(s) ==
  /\ ToSet(s.ids) = DOMAIN s.participants
  /\ \A i, j \in DOMAIN s.ids : s.ids[i] = s.ids[j] => i = j

\* Rows and captions are there once, and rows are what their ids say.
ShownOnce(s) ==
  /\ UniqueRows(s.conversation) /\ UniqueCaptions(s.captions)
  /\ \A r \in ToSet(s.conversation) : r.id[1] = r.kind

\* The row of the utterance of a caption shows what the caption shows.
Agrees(c, r) ==
  c.utterance # NoUtterance /\ r.id = <<"voice", c.utterance>> =>
    /\ r.final = c.final /\ r.revision = c.revision
    /\ r.author = c.speaker /\ r.name = c.name /\ r.expires = c.expires

\* ... in profiles that show voice transcripts.
RowsAgree(s) ==
  (\A d \in Displays : d.show) =>
    \A c \in ToSet(s.captions), r \in ToSet(s.conversation) : Agrees(c, r)

\* All of it.
Sound(s, items) ==
  /\ s \in SceneType /\ Limited(s, items) /\ ListedOnce(s) /\ ShownOnce(s) /\ RowsAgree(s)

\* A final caption of s, or one of a higher revision, is what t shows of its
\* utterance.
StaysFinal(s, t) ==
  \A c \in ToSet(s.captions), d \in ToSet(t.captions) :
    c.utterance # NoUtterance /\ c.utterance = d.utterance /\ c.final =>
      /\ d.final /\ d.revision >= c.revision
      /\ d.revision = c.revision => d.expires = c.expires

\* The fields and their types.
LEMMA Fields ==
  ASSUME NEW s \in SceneType
  PROVE  /\ s.participants \in Participants /\ s.ids \in Seq(Users) /\ s.speaking \in SUBSET Users
         /\ s.chat \in Seq(Message) /\ s.captions \in Seq(Caption)
         /\ s.conversation \in Seq(Row) /\ s.seen \in Seen
BY DEF SceneType

\* The participants are users with a name.
LEMMA KnownNamed ==
  ASSUME NEW s \in SceneType
  PROVE  /\ Known(s) \subseteq Users
         /\ \A u \in Known(s) : s.participants[u] \in Participant
<1>1. PICK D \in SUBSET Users : s.participants \in [D -> Participant]
  BY Fields DEF Participants
<1> QED
  BY <1>1 DEF Known

\* A caption without a speaker is given to a participant or to no one.
LEMMA ResolvedUser ==
  ASSUME NEW s \in SceneType, NEW user \in Users \cup {NoUser}
  PROVE  Resolved(s, user) \in Users \cup {NoUser}
<1> DEFINE candidates == s.speaking \cap Known(s)
<1>1. candidates \subseteq Users
  BY KnownNamed
<1>2. CASE Cardinality(candidates) = 1
  <2>1. candidates # {}
    BY <1>2, FS_EmptySet
  <2>2. UniqueVoiceSpeaker(s) = CHOOSE u \in candidates : TRUE
    BY <1>2 DEF UniqueVoiceSpeaker
  <2>3. UniqueVoiceSpeaker(s) \in candidates
    BY <2>1, <2>2
  <2> QED
    BY <1>1, <2>3 DEF Resolved
<1>3. CASE Cardinality(candidates) # 1 /\ candidates = {} /\ Len(s.ids) = 1
  <2>1. s.ids[1] \in Users
    BY <1>3, Fields
  <2>2. UniqueVoiceSpeaker(s) = s.ids[1]
    BY <1>3 DEF UniqueVoiceSpeaker
  <2> QED
    BY <2>1, <2>2 DEF Resolved
<1>4. CASE Cardinality(candidates) # 1 /\ ~(candidates = {} /\ Len(s.ids) = 1)
  <2>1. UniqueVoiceSpeaker(s) = NoUser
    BY <1>4 DEF UniqueVoiceSpeaker
  <2> QED
    BY <2>1 DEF Resolved
<1> QED
  BY <1>2, <1>3, <1>4

\* The name that is shown is a name.
LEMMA NameShown ==
  ASSUME NEW s \in SceneType, NEW u, NEW name \in Names
  PROVE  NameOf(s, u, name) \in Names
BY KnownNamed DEF NameOf, Participant

\* A caption keeps everything but who speaks.
LEMMA CaptionKept ==
  ASSUME NEW s \in SceneType, NEW c \in Caption
  PROVE  /\ CaptionOf(s, c) \in Caption
         /\ CaptionOf(s, c).utterance = c.utterance /\ CaptionOf(s, c).revision = c.revision
         /\ CaptionOf(s, c).final = c.final /\ CaptionOf(s, c).expires = c.expires
<1> DEFINE u == Resolved(s, c.speaker)
<1>1. c.speaker \in Users \cup {NoUser} /\ c.name \in Names
  BY DEF Caption
<1>2. u \in Users \cup {NoUser} /\ NameOf(s, u, c.name) \in Names
  BY <1>1, ResolvedUser, NameShown
<1>3. CaptionOf(s, c) = IF u \in Known(s)
                        THEN [c EXCEPT !.speaker = u, !.name = NameOf(s, u, c.name)] ELSE c
  BY DEF CaptionOf, Caption
<1> HIDE DEF u
<1> QED
  BY <1>2, <1>3 DEF Caption

\* So does a row.
LEMMA RowKept ==
  ASSUME NEW s \in SceneType, NEW r \in Row
  PROVE  /\ RowOf(s, r) \in Row
         /\ RowOf(s, r).id = r.id /\ RowOf(s, r).revision = r.revision /\ RowOf(s, r).kind = r.kind
         /\ RowOf(s, r).final = r.final /\ RowOf(s, r).expires = r.expires
<1> DEFINE u == Resolved(s, r.author)
<1>1. r.author \in Users \cup {NoUser} /\ r.name \in Names
  BY DEF Row
<1>2. u \in Users \cup {NoUser} /\ NameOf(s, u, r.name) \in Names
  BY <1>1, ResolvedUser, NameShown
<1>3. RowOf(s, r) = IF r.kind = "voice" /\ u \in Known(s)
                    THEN [r EXCEPT !.author = u, !.name = NameOf(s, u, r.name)] ELSE r
  BY DEF RowOf, Row
<1> HIDE DEF u
<1>4. CASE RowOf(s, r) = r
  BY <1>4
<1>5. CASE RowOf(s, r) = [r EXCEPT !.author = u, !.name = NameOf(s, u, r.name)]
  <2>1. PICK n : n = NameOf(s, u, r.name)
    OBVIOUS
  <2>2. n \in Names
    BY <1>2, <2>1
  <2>3. RowOf(s, r) = [r EXCEPT !.author = u, !.name = n]
    BY <1>5, <2>1
  <2>4. RowOf(s, r) \in Row
    BY <1>2, <2>2, <2>3 DEF Row
  <2>5. /\ RowOf(s, r).id = r.id /\ RowOf(s, r).revision = r.revision
        /\ RowOf(s, r).kind = r.kind
        /\ RowOf(s, r).final = r.final /\ RowOf(s, r).expires = r.expires
    BY <2>3 DEF Row
  <2> QED
    BY <2>4, <2>5
<1> QED
  BY <1>3, <1>4, <1>5

\* Caption and row of an utterance get the same speaker.
LEMMA BothRefreshed ==
  ASSUME NEW s \in SceneType, NEW c \in Caption, NEW r \in Row, Agrees(c, r), r.id[1] = r.kind
  PROVE  Agrees(CaptionOf(s, c), RowOf(s, r))
<1>1. /\ CaptionOf(s, c).utterance = c.utterance /\ CaptionOf(s, c).revision = c.revision
      /\ CaptionOf(s, c).final = c.final /\ CaptionOf(s, c).expires = c.expires
  BY CaptionKept
<1>2. /\ RowOf(s, r).id = r.id /\ RowOf(s, r).revision = r.revision
      /\ RowOf(s, r).final = r.final /\ RowOf(s, r).expires = r.expires
  BY RowKept
<1>3. ASSUME c.utterance # NoUtterance, r.id = <<"voice", c.utterance>>
      PROVE  RowOf(s, r).author = CaptionOf(s, c).speaker /\ RowOf(s, r).name = CaptionOf(s, c).name
  <2> DEFINE u == Resolved(s, c.speaker)
  <2>1. r.kind = "voice" /\ r.author = c.speaker /\ r.name = c.name
    BY <1>3 DEF Agrees
  <2>2. CaptionOf(s, c) = IF u \in Known(s)
                          THEN [c EXCEPT !.speaker = u, !.name = NameOf(s, u, c.name)] ELSE c
    BY DEF CaptionOf, Caption
  <2>3. RowOf(s, r) = IF u \in Known(s)
                      THEN [r EXCEPT !.author = u, !.name = NameOf(s, u, c.name)] ELSE r
    BY <2>1 DEF RowOf, Row
  <2> HIDE DEF u
  <2> QED
    BY <2>1, <2>2, <2>3 DEF Caption, Row
<1> QED
  BY <1>1, <1>2, <1>3 DEF Agrees
-----------------------------------------------------------------------------
(* Identities are refreshed.                                                *)

\* Captions are refreshed one by one.
LEMMA CaptionsMapped ==
  ASSUME NEW s \in SceneType
  PROVE  LET q == s.captions
             r == [i \in DOMAIN q |-> CaptionOf(s, q[i])] IN
         r \in Seq(Caption) /\ Len(r) = Len(q) /\ DOMAIN r = DOMAIN q
<1> DEFINE q == s.captions
           r == [i \in DOMAIN q |-> CaptionOf(s, q[i])]
<1>1. q \in Seq(Caption)
  BY Fields
<1>2. DOMAIN q = 1..Len(q) /\ Len(q) \in Nat
  BY <1>1
<1>3. \A i \in 1..Len(q) : q[i] \in Caption
  BY <1>1
<1>4. \A i \in 1..Len(q) : CaptionOf(s, q[i]) \in Caption
  BY <1>3, CaptionKept
<1>5. r \in [1..Len(q) -> Caption]
  BY <1>2, <1>4
<1> QED
  BY <1>2, <1>5, LenProperties, SeqDef

\* So are the rows.
LEMMA RowsMapped ==
  ASSUME NEW s \in SceneType
  PROVE  LET q == s.conversation
             r == [i \in DOMAIN q |-> RowOf(s, q[i])] IN
         r \in Seq(Row) /\ Len(r) = Len(q) /\ DOMAIN r = DOMAIN q
<1> DEFINE q == s.conversation
           r == [i \in DOMAIN q |-> RowOf(s, q[i])]
<1>1. q \in Seq(Row)
  BY Fields
<1>2. DOMAIN q = 1..Len(q) /\ Len(q) \in Nat
  BY <1>1
<1>3. \A i \in 1..Len(q) : q[i] \in Row
  BY <1>1
<1>4. \A i \in 1..Len(q) : RowOf(s, q[i]) \in Row
  BY <1>3, RowKept
<1>5. r \in [1..Len(q) -> Row]
  BY <1>2, <1>4
<1> QED
  BY <1>2, <1>5, LenProperties, SeqDef

\* Nothing else is changed.
LEMMA RefreshedParts ==
  ASSUME NEW s \in SceneType
  PROVE  LET t == Refreshed(s) IN
         /\ t \in SceneType
         /\ t.participants = s.participants /\ t.ids = s.ids /\ t.speaking = s.speaking
         /\ t.chat = s.chat /\ t.seen = s.seen
         /\ t.captions = [i \in DOMAIN s.captions |-> CaptionOf(s, s.captions[i])]
         /\ t.conversation = [i \in DOMAIN s.conversation |-> RowOf(s, s.conversation[i])]
<1>1. PICK cs : cs = [i \in DOMAIN s.captions |-> CaptionOf(s, s.captions[i])]
  OBVIOUS
<1>2. PICK rs : rs = [i \in DOMAIN s.conversation |-> RowOf(s, s.conversation[i])]
  OBVIOUS
<1>3. Refreshed(s) = [s EXCEPT !.captions = cs, !.conversation = rs]
  BY <1>1, <1>2 DEF Refreshed
<1>4. cs \in Seq(Caption) /\ rs \in Seq(Row)
  BY <1>1, <1>2, CaptionsMapped, RowsMapped
<1>5. /\ [s EXCEPT !.captions = cs, !.conversation = rs] \in SceneType
      /\ [s EXCEPT !.captions = cs, !.conversation = rs].captions = cs
      /\ [s EXCEPT !.captions = cs, !.conversation = rs].conversation = rs
      /\ [s EXCEPT !.captions = cs, !.conversation = rs].participants = s.participants
      /\ [s EXCEPT !.captions = cs, !.conversation = rs].ids = s.ids
      /\ [s EXCEPT !.captions = cs, !.conversation = rs].speaking = s.speaking
      /\ [s EXCEPT !.captions = cs, !.conversation = rs].chat = s.chat
      /\ [s EXCEPT !.captions = cs, !.conversation = rs].seen = s.seen
  BY <1>4 DEF SceneType
<1> QED
  BY <1>1, <1>2, <1>3, <1>5

\* What is shown is refreshed together.
LEMMA RefreshedKeeps ==
  ASSUME NEW s, NEW items, Sound(s, items)
  PROVE  LET t == Refreshed(s) IN
         Sound(t, items) /\ StaysFinal(s, t) /\ t.seen = s.seen
<1> DEFINE t == Refreshed(s)
<1>1. s \in SceneType
  BY DEF Sound
<1>2. /\ s.captions \in Seq(Caption) /\ s.conversation \in Seq(Row)
  BY <1>1, Fields
<1>3. /\ t \in SceneType
      /\ t.participants = s.participants /\ t.ids = s.ids /\ t.chat = s.chat /\ t.seen = s.seen
  BY <1>1, RefreshedParts
<1>4. /\ DOMAIN t.captions = DOMAIN s.captions /\ Len(t.captions) = Len(s.captions)
      /\ \A i \in DOMAIN s.captions : t.captions[i] = CaptionOf(s, s.captions[i])
  BY <1>1, RefreshedParts, CaptionsMapped
<1>5. /\ DOMAIN t.conversation = DOMAIN s.conversation
      /\ Len(t.conversation) = Len(s.conversation)
      /\ \A i \in DOMAIN s.conversation : t.conversation[i] = RowOf(s, s.conversation[i])
  BY <1>1, RefreshedParts, RowsMapped
<1>6. \A i \in DOMAIN s.captions :
        /\ s.captions[i] \in Caption /\ s.captions[i] \in ToSet(s.captions)
        /\ t.captions[i].utterance = s.captions[i].utterance
        /\ t.captions[i].revision = s.captions[i].revision
        /\ t.captions[i].final = s.captions[i].final
        /\ t.captions[i].expires = s.captions[i].expires
  <2> TAKE i \in DOMAIN s.captions
  <2>1. s.captions[i] \in Caption
    BY <1>2
  <2>2. s.captions[i] \in ToSet(s.captions)
    BY DEF ToSet
  <2> QED
    BY <1>1, <1>4, <2>1, <2>2, CaptionKept
<1>7. \A i \in DOMAIN s.conversation :
        /\ s.conversation[i] \in Row /\ s.conversation[i] \in ToSet(s.conversation)
        /\ t.conversation[i].id = s.conversation[i].id
        /\ t.conversation[i].kind = s.conversation[i].kind
  <2> TAKE i \in DOMAIN s.conversation
  <2>1. s.conversation[i] \in Row
    BY <1>2
  <2>2. s.conversation[i] \in ToSet(s.conversation)
    BY DEF ToSet
  <2> QED
    BY <1>1, <1>5, <2>1, <2>2, RowKept
<1>8. Limited(t, items) /\ ListedOnce(t)
  BY <1>3, <1>4, <1>5 DEF Sound, Limited, ListedOnce
<1>9. UniqueRows(t.conversation)
  <2>1. UniqueRows(s.conversation)
    BY DEF Sound, ShownOnce
  <2> QED
    BY <1>5, <1>7, <2>1 DEF UniqueRows
<1>10. UniqueCaptions(t.captions)
  <2>1. UniqueCaptions(s.captions)
    BY DEF Sound, ShownOnce
  <2> QED
    BY <1>4, <1>6, <2>1 DEF UniqueCaptions
<1>11. \A i \in DOMAIN s.conversation : s.conversation[i].id[1] = s.conversation[i].kind
  BY <1>7 DEF Sound, ShownOnce
<1>12. \A r \in ToSet(t.conversation) : r.id[1] = r.kind
  BY <1>5, <1>7, <1>11 DEF ToSet
<1>13. RowsAgree(t)
  <2> SUFFICES ASSUME \A d \in Displays : d.show
               PROVE  \A c \in ToSet(t.captions), r \in ToSet(t.conversation) : Agrees(c, r)
    BY DEF RowsAgree
  <2>1. \A i \in DOMAIN s.captions, j \in DOMAIN s.conversation :
          Agrees(s.captions[i], s.conversation[j])
    BY <1>6, <1>7 DEF Sound, RowsAgree
  <2>2. \A i \in DOMAIN s.captions, j \in DOMAIN s.conversation :
          Agrees(t.captions[i], t.conversation[j])
    BY <1>1, <1>4, <1>5, <1>6, <1>7, <1>11, <2>1, BothRefreshed
  <2> QED
    BY <1>4, <1>5, <2>2 DEF ToSet
<1>14. StaysFinal(s, t)
  <2>1. UniqueCaptions(s.captions)
    BY DEF Sound, ShownOnce
  <2> SUFFICES ASSUME NEW i \in DOMAIN s.captions, NEW j \in DOMAIN s.captions,
                      s.captions[i].utterance # NoUtterance,
                      s.captions[i].utterance = t.captions[j].utterance, s.captions[i].final
               PROVE  /\ t.captions[j].final /\ t.captions[j].revision >= s.captions[i].revision
                      /\ t.captions[j].expires = s.captions[i].expires
    BY <1>4 DEF StaysFinal, ToSet
  <2>2. i = j
    BY <1>6, <2>1 DEF UniqueCaptions
  <2>3. s.captions[i].revision \in Nat
    BY <1>6, SceneAssumption DEF Caption
  <2> QED
    BY <1>6, <2>2, <2>3
<1> QED
  BY <1>3, <1>8, <1>9, <1>10, <1>12, <1>13, <1>14 DEF Sound, ShownOnce
-----------------------------------------------------------------------------
(* What is pruned, and who is there.                                        *)

\* A scene that shows a part of what another shows.
LEMMA PartSound ==
  ASSUME NEW s, NEW t, NEW items, NEW left, Sound(s, items), t \in SceneType,
         t.participants = s.participants, t.ids = s.ids,
         Len(t.chat) <= MaxChat, Len(t.captions) <= MaxCaptions, Len(t.conversation) <= left,
         ToSet(t.captions) \subseteq ToSet(s.captions),
         ToSet(t.conversation) \subseteq ToSet(s.conversation),
         UniqueRows(t.conversation), UniqueCaptions(t.captions)
  PROVE  Sound(t, left) /\ StaysFinal(s, t)
<1>1. Limited(t, left) /\ ListedOnce(t)
  BY DEF Sound, Limited, ListedOnce
<1>2. ShownOnce(t)
  BY DEF Sound, ShownOnce
<1>3. RowsAgree(t)
  BY DEF Sound, RowsAgree
<1>4. StaysFinal(s, t)
  <2>1. UniqueCaptions(s.captions) /\ s.captions \in Seq(Caption)
    BY Fields DEF Sound, ShownOnce
  <2> SUFFICES ASSUME NEW c \in ToSet(s.captions), NEW d \in ToSet(s.captions),
                      c.utterance # NoUtterance, c.utterance = d.utterance, c.final
               PROVE  d.final /\ d.revision >= c.revision /\ d.expires = c.expires
    BY DEF StaysFinal
  <2>2. PICK i \in DOMAIN s.captions : c = s.captions[i]
    BY DEF ToSet
  <2>3. PICK j \in DOMAIN s.captions : d = s.captions[j]
    BY DEF ToSet
  <2>4. c = d
    BY <2>1, <2>2, <2>3 DEF UniqueCaptions
  <2>5. c \in Caption
    BY <2>1, <2>2
  <2>6. c.revision \in Nat
    BY <2>5, SceneAssumption DEF Caption
  <2> QED
    BY <2>4, <2>6
<1> QED
  BY <1>1, <1>2, <1>3, <1>4 DEF Sound

\* The ids that are remembered.
LEMMA RememberedFew ==
  ASSUME NEW map, IsFiniteSet(DOMAIN map), NEW now, NEW ids \in Remembered(map, now)
  PROVE  ids \subseteq DOMAIN map /\ IsFiniteSet(ids) /\ Cardinality(ids) <= MaxSeen
<1> DEFINE fresh == {id \in DOMAIN map : map[id] > now}
<1>1. MaxSeen \in Nat
  BY SceneAssumption
<1>2. CASE Cardinality(fresh) <= MaxSeen
  <2>1. ids = fresh
    BY <1>2 DEF Remembered
  <2> QED
    BY <1>2, <2>1, FS_Subset
<1>3. CASE ~(Cardinality(fresh) <= MaxSeen)
  <2>1. ids \subseteq fresh /\ Cardinality(ids) = MaxSeen
    BY <1>3 DEF Remembered
  <2>2. ids \subseteq DOMAIN map
    BY <2>1
  <2> QED
    BY <1>1, <2>1, <2>2, FS_Subset
<1> QED
  BY <1>2, <1>3

\* Pruning forgets nothing that lasts.
LEMMA PrunedKeeps ==
  ASSUME NEW s, NEW items \in Nat, Sound(s, items), IsFiniteSet(DOMAIN s.seen),
         NEW now, NEW t \in Pruned(s, now)
  PROVE  /\ Sound(t, items) /\ SeenUpTo(t, MaxSeen) /\ StaysFinal(s, t)
         /\ \A c \in ToSet(s.captions) : c.expires > now => c \in ToSet(t.captions)
<1>1. s \in SceneType
  BY DEF Sound
<1>2. /\ s.chat \in Seq(Message) /\ s.captions \in Seq(Caption)
      /\ s.conversation \in Seq(Row) /\ s.seen \in Seen
  BY <1>1, Fields
<1>3. PICK ids \in Remembered(s.seen, now) :
        t = [s EXCEPT !.chat = Only(@, Fresh(@, now)),
                      !.captions = Only(@, Lasting(@, now)),
                      !.conversation = Only(@, Fresh(@, now)),
                      !.seen = [id \in ids |-> @[id]]]
  BY DEF Pruned
<1>4. PICK chat : chat = Only(s.chat, Fresh(s.chat, now))
  OBVIOUS
<1>5. PICK cs : cs = Only(s.captions, Lasting(s.captions, now))
  OBVIOUS
<1>6. PICK rs : rs = Only(s.conversation, Fresh(s.conversation, now))
  OBVIOUS
<1>7. PICK seen : seen = [id \in ids |-> s.seen[id]]
  OBVIOUS
<1>8. t = [s EXCEPT !.chat = chat, !.captions = cs, !.conversation = rs, !.seen = seen]
  BY <1>1, <1>3, <1>4, <1>5, <1>6, <1>7 DEF SceneType
<1>9. chat \in Seq(Message) /\ Len(chat) <= Len(s.chat)
  <2>1. Fresh(s.chat, now) \in SUBSET DOMAIN s.chat
    BY DEF Fresh
  <2> QED
    BY <1>2, <1>4, <2>1, OnlyKeeps
<1>10. /\ cs \in Seq(Caption) /\ Len(cs) <= Len(s.captions)
       /\ ToSet(cs) = {s.captions[k] : k \in Lasting(s.captions, now)}
       /\ ToSet(cs) \subseteq ToSet(s.captions)
       /\ UniqueCaptions(s.captions) => UniqueCaptions(cs)
  <2>1. Lasting(s.captions, now) \in SUBSET DOMAIN s.captions
    BY DEF Lasting
  <2> QED
    BY <1>2, <1>5, <2>1, OnlyKeeps
<1>11. /\ rs \in Seq(Row) /\ Len(rs) <= Len(s.conversation)
       /\ ToSet(rs) \subseteq ToSet(s.conversation)
       /\ UniqueRows(s.conversation) => UniqueRows(rs)
  <2>1. Fresh(s.conversation, now) \in SUBSET DOMAIN s.conversation
    BY DEF Fresh
  <2> QED
    BY <1>2, <1>6, <2>1, OnlyKeeps
<1>12. ids \subseteq DOMAIN s.seen /\ IsFiniteSet(ids) /\ Cardinality(ids) <= MaxSeen
  BY RememberedFew
<1>13. seen \in Seen /\ DOMAIN seen = ids
  <2>1. PICK D \in SUBSET Messages : s.seen \in [D -> Int]
    BY <1>2 DEF Seen
  <2>2. ids \in SUBSET Messages
    BY <1>12, <2>1
  <2>3. seen \in [ids -> Int]
    BY <1>7, <1>12, <2>1
  <2> QED
    BY <2>2, <2>3 DEF Seen
<1>14. /\ t \in SceneType /\ t.participants = s.participants /\ t.ids = s.ids
       /\ t.chat = chat /\ t.captions = cs /\ t.conversation = rs /\ t.seen = seen
  BY <1>1, <1>8, <1>9, <1>10, <1>11, <1>13 DEF SceneType
<1>15. Len(chat) <= MaxChat /\ Len(cs) <= MaxCaptions /\ Len(rs) <= items
  <2>1. Len(s.chat) <= MaxChat /\ Len(s.captions) <= MaxCaptions /\ Len(s.conversation) <= items
    BY DEF Sound, Limited
  <2>2. /\ Len(s.chat) \in Nat /\ Len(s.captions) \in Nat /\ Len(s.conversation) \in Nat
        /\ Len(chat) \in Nat /\ Len(cs) \in Nat /\ Len(rs) \in Nat
    BY <1>2, <1>9, <1>10, <1>11
  <2>3. MaxChat \in Nat /\ MaxCaptions \in Nat
    BY SceneAssumption
  <2> QED
    BY <1>9, <1>10, <1>11, <2>1, <2>2, <2>3
<1>16. UniqueRows(s.conversation) /\ UniqueCaptions(s.captions)
  BY DEF Sound, ShownOnce
<1>17. Sound(t, items) /\ StaysFinal(s, t)
  BY <1>10, <1>11, <1>14, <1>15, <1>16, PartSound
<1>18. SeenUpTo(t, MaxSeen)
  BY <1>12, <1>13, <1>14 DEF SeenUpTo
<1>19. ASSUME NEW c \in ToSet(s.captions), c.expires > now
       PROVE  c \in ToSet(t.captions)
  BY <1>10, <1>14, <1>19 DEF ToSet, Lasting
<1> QED
  BY <1>17, <1>18, <1>19

\* Only who is there changes.
LEMMA OthersKeep ==
  ASSUME NEW s, NEW t, NEW items, Sound(s, items), t \in SceneType,
         ListedOnce(t), Len(t.ids) <= MaxParticipants, t.captions = s.captions,
         t.conversation = s.conversation, t.chat = s.chat, t.seen = s.seen
  PROVE  /\ Sound(t, items) /\ StaysFinal(s, t)
         /\ Sound(Refreshed(t), items) /\ StaysFinal(s, Refreshed(t))
         /\ Refreshed(t).seen = s.seen
<1>1. Sound(t, items)
  BY DEF Sound, Limited, ShownOnce, RowsAgree
<1>2. Sound(Refreshed(t), items) /\ StaysFinal(t, Refreshed(t)) /\ Refreshed(t).seen = t.seen
  BY <1>1, RefreshedKeeps
<1>3. StaysFinal(s, Refreshed(t))
  BY <1>2 DEF StaysFinal
<1>4. StaysFinal(t, t)
  <2>1. /\ Len(t.chat) <= MaxChat /\ Len(t.captions) <= MaxCaptions
        /\ Len(t.conversation) <= items /\ UniqueRows(t.conversation) /\ UniqueCaptions(t.captions)
    BY <1>1 DEF Sound, Limited, ShownOnce
  <2> QED
    BY <1>1, <2>1, PartSound
<1>5. StaysFinal(s, t)
  BY <1>4 DEF StaysFinal
<1> QED
  BY <1>1, <1>2, <1>3, <1>5

\* A map gets a key.
LEMMA WithKeeps ==
  ASSUME NEW D, NEW V, NEW map \in [D -> V], NEW key, NEW value \in V
  PROVE  With(map, key, value) \in [D \cup {key} -> V]
BY DEF With
-----------------------------------------------------------------------------
(* Who speaks.                                                              *)

\* An entry of a list of participants.
Item == [user : Users \cup {NoUser}, name : Names, speaking : BOOLEAN]

\* What is kept of a list: few users, once each.
LEMMA ListedParts ==
  ASSUME NEW list \in Seq(Item)
  PROVE  LET kept == Listed(list) IN
         /\ kept \in Seq(Item) /\ Len(kept) <= MaxParticipants
         /\ \A i \in DOMAIN kept : kept[i].user \in Users
         /\ \A i, j \in DOMAIN kept : kept[i].user = kept[j].user => i = j
<1> DEFINE P == {i \in DOMAIN list : /\ list[i].user # NoUser
                                   /\ \A j \in 1..(i - 1) : list[j].user # list[i].user}
<1>1. PICK q : q = Only(list, P)
  OBVIOUS
<1>2. PICK r : r = First(q, MaxParticipants)
  OBVIOUS
<1>3. Listed(list) = r
  BY <1>1, <1>2 DEF Listed
<1>4. P \in SUBSET (1..Len(list))
  OBVIOUS
<1>5. /\ q \in Seq(Item)
      /\ \A i \in 1..Len(q) : Place(P, i) \in P /\ q[i] = list[Place(P, i)]
      /\ \A i, j \in 1..Len(q) : Place(P, i) = Place(P, j) => i = j
  <2> HIDE DEF P
  <2> QED
    BY <1>1, <1>4, OnlyParts
<1>6. MaxParticipants \in Nat
  BY SceneAssumption
<1>7. /\ r \in Seq(Item) /\ Len(r) <= MaxParticipants /\ Len(r) <= Len(q)
      /\ \A i \in 1..Len(r) : r[i] = q[i]
  BY <1>2, <1>5, <1>6, FirstKeeps
<1>8. \A k, l \in P : list[k].user = list[l].user => k = l
  <2> SUFFICES ASSUME NEW k \in P, NEW l \in P, list[k].user = list[l].user, k < l
               PROVE  FALSE
    OBVIOUS
  <2>1. k \in 1..(l - 1)
    BY <1>4
  <2> QED
    BY <2>1
<1>9. \A i \in DOMAIN r : i \in 1..Len(q) /\ r[i] = q[i]
  <2>1. Len(r) \in Nat /\ Len(q) \in Nat /\ DOMAIN r = 1..Len(r)
    BY <1>5, <1>7
  <2> QED
    BY <1>7, <2>1
<1>10. \A i \in DOMAIN r : r[i].user \in Users
  <2> TAKE i \in DOMAIN r
  <2>1. Place(P, i) \in P /\ r[i] = list[Place(P, i)]
    BY <1>5, <1>9
  <2>2. r[i].user # NoUser
    BY <2>1
  <2>3. r[i] \in Item
    BY <1>7
  <2> QED
    BY <2>2, <2>3 DEF Item
<1>11. \A i, j \in DOMAIN r : r[i].user = r[j].user => i = j
  <2> TAKE i, j \in DOMAIN r
  <2>1. Place(P, i) \in P /\ r[i] = list[Place(P, i)] /\ i \in 1..Len(q)
    BY <1>5, <1>9
  <2>2. Place(P, j) \in P /\ r[j] = list[Place(P, j)] /\ j \in 1..Len(q)
    BY <1>5, <1>9
  <2> QED
    BY <1>5, <1>8, <2>1, <2>2
<1> QED
  BY <1>3, <1>7, <1>10, <1>11

\* A list of participants replaces the last one.
LEMMA ParticipantsKeep ==
  ASSUME NEW s, NEW items, Sound(s, items), NEW list \in Lists
  PROVE  LET t == WithParticipants(s, list) IN
         Sound(t, items) /\ StaysFinal(s, t) /\ t.seen = s.seen
<1>1. PICK kept : kept = Listed(list)
  OBVIOUS
<1>2. list \in Seq(Item)
  BY SceneAssumption DEF Item
<1>3. /\ kept \in Seq(Item) /\ Len(kept) <= MaxParticipants
      /\ \A i \in DOMAIN kept : kept[i].user \in Users
      /\ \A i, j \in DOMAIN kept : kept[i].user = kept[j].user => i = j
  BY <1>1, <1>2, ListedParts
<1>4. PICK ids : ids = [i \in DOMAIN kept |-> kept[i].user]
  OBVIOUS
<1>5. /\ ids \in Seq(Users) /\ Len(ids) = Len(kept) /\ DOMAIN ids = DOMAIN kept
      /\ \A i \in DOMAIN ids : ids[i] = kept[i].user
  <2>1. DOMAIN kept = 1..Len(kept) /\ Len(kept) \in Nat
    BY <1>3
  <2>2. ids \in [1..Len(kept) -> Users]
    BY <1>3, <1>4, <2>1
  <2> QED
    BY <1>4, <2>1, <2>2, SeqDef, LenProperties
<1> DEFINE item(u) == kept[CHOOSE i \in DOMAIN kept : kept[i].user = u]
           Users0 == ToSet(ids)
<1>6. PICK ps : ps = [u \in Users0 |-> [name |-> item(u).name, speaking |-> item(u).speaking]]
  OBVIOUS
<1>7. PICK on : on = {u \in Users0 : item(u).speaking}
  OBVIOUS
<1>8. PICK m : m = [s EXCEPT !.participants = ps, !.ids = ids, !.speaking = on]
  OBVIOUS
<1>9. WithParticipants(s, list) = Refreshed(m)
  BY <1>1, <1>4, <1>6, <1>7, <1>8 DEF WithParticipants
<1>10. Users0 \subseteq Users
  BY <1>5 DEF ToSet
<1>11. \A u \in Users0 : item(u) \in Item
  <2> TAKE u \in Users0
  <2>1. PICK i \in DOMAIN kept : kept[i].user = u
    BY <1>5 DEF ToSet
  <2>2. (CHOOSE k \in DOMAIN kept : kept[k].user = u) \in DOMAIN kept
    BY <2>1
  <2> QED
    BY <1>3, <2>2
<1>12. ps \in Participants /\ DOMAIN ps = Users0
  <2>1. \A u \in Users0 : [name |-> item(u).name, speaking |-> item(u).speaking] \in Participant
    BY <1>11 DEF Item, Participant
  <2>2. ps \in [Users0 -> Participant]
    BY <1>6, <2>1
  <2> QED
    BY <1>10, <2>2 DEF Participants
<1>13. on \in SUBSET Users
  BY <1>7, <1>10
<1>14. s \in SceneType
  BY DEF Sound
<1>15. /\ m \in SceneType /\ m.participants = ps /\ m.ids = ids /\ m.captions = s.captions
       /\ m.conversation = s.conversation /\ m.chat = s.chat /\ m.seen = s.seen
  BY <1>5, <1>8, <1>12, <1>13, <1>14 DEF SceneType
<1>16. ListedOnce(m)
  <2>1. \A i, j \in DOMAIN ids : ids[i] = ids[j] => i = j
    BY <1>3, <1>5
  <2> QED
    BY <1>12, <1>15, <2>1 DEF ListedOnce
<1>17. Len(m.ids) <= MaxParticipants
  BY <1>3, <1>5, <1>15
<1> QED
  BY <1>9, <1>15, <1>16, <1>17, OthersKeep

\* A user speaks, or no longer does.
LEMMA SpeakerKeeps ==
  ASSUME NEW s, NEW items, Sound(s, items), NEW user \in Users, NEW on \in BOOLEAN, NEW name \in Names
  PROVE  LET t == WithSpeaker(s, user, on, name) IN
         Sound(t, items) /\ StaysFinal(s, t) /\ t.seen = s.seen
<1>1. s \in SceneType
  BY DEF Sound
<1>2. /\ s.ids \in Seq(Users) /\ s.speaking \in SUBSET Users /\ s.participants \in Participants
  BY <1>1, Fields
<1>3. PICK new : new = NewSpeaker(s, user, on)
  OBVIOUS
<1>4. PICK mark : mark = [speaking |-> on, name |-> IF user \in Known(s)
                                               THEN s.participants[user].name ELSE name]
  OBVIOUS
<1>5. PICK sp : sp = IF on THEN s.speaking \cup {user} ELSE s.speaking \ {user}
  OBVIOUS
<1>6. PICK ids : ids = IF new THEN Append(s.ids, user) ELSE s.ids
  OBVIOUS
<1>7. PICK ps : ps = IF new \/ user \in Known(s) THEN With(s.participants, user, mark)
                     ELSE s.participants
  OBVIOUS
<1>8. PICK m : m = [s EXCEPT !.speaking = sp, !.ids = ids, !.participants = ps]
  OBVIOUS
<1>9. WithSpeaker(s, user, on, name) = Refreshed(m)
  <2>1. m = [s EXCEPT
               !.speaking = IF on THEN @ \cup {user} ELSE @ \ {user},
               !.ids = IF new THEN Append(@, user) ELSE @,
               !.participants = IF new \/ user \in Known(s) THEN With(@, user, mark) ELSE @]
    BY <1>1, <1>5, <1>6, <1>7, <1>8 DEF SceneType
  <2> QED
    BY <1>3, <1>4, <2>1 DEF WithSpeaker
<1>10. mark \in Participant
  BY <1>1, <1>4, KnownNamed DEF Participant
<1>11. sp \in SUBSET Users
  BY <1>2, <1>5
<1>12. ids \in Seq(Users)
  BY <1>2, <1>6, AppendParts
<1>13. ps \in Participants /\ DOMAIN ps = IF new THEN Known(s) \cup {user} ELSE Known(s)
  <2>1. /\ With(s.participants, user, mark) \in Participants
        /\ DOMAIN With(s.participants, user, mark) = Known(s) \cup {user}
    <3>1. PICK D \in SUBSET Users : s.participants \in [D -> Participant]
      BY <1>2 DEF Participants
    <3>2. With(s.participants, user, mark) \in [D \cup {user} -> Participant]
      BY <1>10, <3>1, WithKeeps
    <3>3. D \cup {user} \in SUBSET Users
      OBVIOUS
    <3> QED
      BY <3>1, <3>2, <3>3 DEF Participants, Known
  <2> QED
    BY <1>2, <1>7, <2>1 DEF Known
<1>14. /\ m \in SceneType /\ m.participants = ps /\ m.ids = ids /\ m.captions = s.captions
       /\ m.conversation = s.conversation /\ m.chat = s.chat /\ m.seen = s.seen
  BY <1>1, <1>8, <1>11, <1>12, <1>13 DEF SceneType
<1>15. /\ ToSet(s.ids) = Known(s) /\ Len(s.ids) <= MaxParticipants
       /\ \A i, j \in DOMAIN s.ids : s.ids[i] = s.ids[j] => i = j
  BY DEF Sound, ListedOnce, Limited, Known
<1>16. CASE ~new
  <2>1. ListedOnce(m) /\ Len(m.ids) <= MaxParticipants
    BY <1>6, <1>13, <1>14, <1>15, <1>16 DEF ListedOnce
  <2> QED
    BY <1>9, <1>14, <2>1, OthersKeep
<1>17. CASE new
  <2>1. user \notin Known(s) /\ Len(s.ids) < MaxParticipants
    BY <1>3, <1>17 DEF NewSpeaker
  <2>2. /\ Len(ids) = Len(s.ids) + 1 /\ ids[Len(s.ids) + 1] = user
        /\ \A i \in 1..Len(s.ids) : ids[i] = s.ids[i]
    BY <1>2, <1>6, <1>17, AppendParts
  <2>3. Len(s.ids) \in Nat /\ DOMAIN s.ids = 1..Len(s.ids) /\ DOMAIN ids = 1..Len(ids)
    BY <1>2, <1>12
  <2>4. MaxParticipants \in Nat
    BY SceneAssumption
  <2>5. Len(ids) <= MaxParticipants
    BY <2>1, <2>2, <2>3, <2>4
  <2>6. ToSet(ids) = DOMAIN ps
    <3>1. ToSet(ids) = ToSet(s.ids) \cup {user}
      BY <1>2, <1>6, <1>17, AppendKeeps
    <3> QED
      BY <1>13, <1>15, <1>17, <3>1
  <2>7. \A i \in 1..Len(s.ids) : s.ids[i] # user
    BY <1>15, <2>1, <2>3 DEF ToSet
  <2>8. \A i, j \in DOMAIN ids : ids[i] = ids[j] => i = j
    BY <1>15, <2>2, <2>3, <2>7
  <2>9. ListedOnce(m)
    BY <1>14, <2>6, <2>8 DEF ListedOnce
  <2> QED
    BY <1>9, <1>14, <2>5, <2>9, OthersKeep
<1> QED
  BY <1>16, <1>17

\* Nobody speaks.
LEMMA SilenceKeeps ==
  ASSUME NEW s, NEW items, Sound(s, items)
  PROVE  LET t == WithoutSpeakers(s) IN
         Sound(t, items) /\ StaysFinal(s, t) /\ t.seen = s.seen
<1>1. s \in SceneType
  BY DEF Sound
<1>2. PICK ps : ps = [u \in DOMAIN s.participants |-> [s.participants[u] EXCEPT !.speaking = FALSE]]
  OBVIOUS
<1>3. ps \in Participants /\ DOMAIN ps = DOMAIN s.participants
  <2>1. PICK D \in SUBSET Users : s.participants \in [D -> Participant]
    BY <1>1, Fields DEF Participants
  <2>2. ps \in [D -> Participant]
    BY <1>2, <2>1 DEF Participant
  <2> QED
    BY <2>1, <2>2 DEF Participants
<1>4. PICK m : m = [s EXCEPT !.speaking = {}, !.participants = ps]
  OBVIOUS
<1>5. WithoutSpeakers(s) = m
  BY <1>1, <1>2, <1>4 DEF WithoutSpeakers, SceneType
<1>6. /\ m \in SceneType /\ m.participants = ps /\ m.ids = s.ids /\ m.captions = s.captions
      /\ m.conversation = s.conversation /\ m.chat = s.chat /\ m.seen = s.seen
  BY <1>1, <1>3, <1>4 DEF SceneType
<1>7. ListedOnce(m) /\ Len(m.ids) <= MaxParticipants
  BY <1>3, <1>6 DEF Sound, ListedOnce, Limited
<1> QED
  BY <1>5, <1>6, <1>7, OthersKeep
-----------------------------------------------------------------------------
(* The conversation.                                                        *)

\* Rows in their place: they are typed, few, shown once, and what their ids say.
Shown(seq) ==
  /\ seq \in Seq(Row) /\ Len(seq) <= display.maxItems /\ UniqueRows(seq)
  /\ \A r \in ToSet(seq) : r.id[1] = r.kind

\* A row takes the place of that with its id.
LEMMA InsertedKeeps ==
  ASSUME display.maxItems \in Nat, NEW seq, Shown(seq), NEW row \in Row, row.id[1] = row.kind
  PROVE  LET r == Inserted(seq, row) IN
         /\ Shown(r)
         /\ \A y \in ToSet(r) : y = row \/ (y \in ToSet(seq) /\ y.id # row.id)
<1>1. seq \in Seq(Row) /\ UniqueRows(seq) /\ Len(seq) <= display.maxItems
  BY DEF Shown
<1>2. DOMAIN seq = 1..Len(seq) /\ Len(seq) \in Nat
  BY <1>1
<1>3. CASE \E i \in DOMAIN seq : seq[i].id = row.id
  <2>1. PICK at : at = CHOOSE i \in DOMAIN seq : seq[i].id = row.id
    OBVIOUS
  <2>2. at \in DOMAIN seq /\ seq[at].id = row.id
    BY <1>3, <2>1
  <2>3. RowAt(seq, row.id) = at /\ at # 0
    BY <1>2, <1>3, <2>1, <2>2 DEF RowAt
  <2>4. PICK r : r = [seq EXCEPT ![at] = row]
    OBVIOUS
  <2>5. Inserted(seq, row) = r
    BY <2>3, <2>4 DEF Inserted
  <2>6. /\ r \in Seq(Row) /\ Len(r) = Len(seq) /\ UniqueRows(r)
        /\ \A y \in ToSet(r) : y = row \/ \E i \in DOMAIN seq : i # at /\ y = seq[i]
    <3>1. r \in Seq(Row) /\ Len(r) = Len(seq)
      BY <1>1, <2>2, <2>4, ChangeKeeps
    <3>2. UniqueRows(r)
      BY <1>1, <2>2, <2>4, ChangeKeeps
    <3>3. \A y \in ToSet(r) : y = row \/ \E i \in DOMAIN seq : i # at /\ y = seq[i]
      <4>1. DOMAIN r = DOMAIN seq /\ \A i \in DOMAIN seq : r[i] = IF i = at THEN row ELSE seq[i]
        BY <2>4
      <4> QED
        BY <4>1 DEF ToSet
    <3> QED
      BY <3>1, <3>2, <3>3
  <2>7. \A y \in ToSet(r) : y = row \/ (y \in ToSet(seq) /\ y.id # row.id)
    <3> SUFFICES ASSUME NEW i \in DOMAIN seq, i # at
                 PROVE  seq[i] \in ToSet(seq) /\ seq[i].id # row.id
      BY <2>6
    <3> QED
      BY <1>1, <2>2 DEF UniqueRows, ToSet
  <2>8. Shown(r)
    BY <1>1, <2>6, <2>7 DEF Shown
  <2> QED
    BY <2>5, <2>7, <2>8
<1>4. CASE ~(\E i \in DOMAIN seq : seq[i].id = row.id)
  <2>1. RowAt(seq, row.id) = 0
    BY <1>4 DEF RowAt
  <2>2. PICK after : after = {i \in DOMAIN seq : row.created < seq[i].created}
    OBVIOUS
  <2> DEFINE late == \/ seq = <<>> \/ row.created < seq[Len(seq)].created - display.window
                     \/ after = {}
             least == CHOOSE i \in after : \A j \in after : i <= j
             p == IF late THEN Len(seq) + 1 ELSE least
  <2>4. p \in 1..(Len(seq) + 1)
    <3>1. CASE after = {}
      BY <1>2, <3>1
    <3>2. CASE after # {}
      <4>1. after \in SUBSET Nat /\ after \subseteq 1..Len(seq)
        BY <1>2, <2>2
      <4>2. \E i \in after : \A j \in after : i <= j
        BY <3>2, <4>1, Smallest
      <4>3. least \in after
        BY <4>2
      <4>4. least \in 1..(Len(seq) + 1)
        <5> HIDE DEF least
        <5> QED
          BY <1>2, <4>1, <4>3
      <4>5. Len(seq) + 1 \in 1..(Len(seq) + 1)
        BY <1>2
      <4> QED
        BY <4>4, <4>5, Zenon
    <3> QED
      BY <3>1, <3>2
  <2> HIDE DEF p
  <2>5. PICK q : q = InsertAt(seq, p, row)
    OBVIOUS
  <2>6. PICK r : r = Newest(q, display.maxItems)
    OBVIOUS
  <2>7. Inserted(seq, row) = r
    BY <2>1, <2>2, <2>5, <2>6 DEF Inserted, p
  <2>8. \A y \in ToSet(seq) : y.id # row.id
    BY <1>4 DEF ToSet
  <2>9. q \in Seq(Row) /\ ToSet(q) \subseteq ToSet(seq) \cup {row} /\ UniqueRows(q)
    BY <1>1, <2>4, <2>5, <2>8, InsertKeeps
  <2>10. r \in Seq(Row) /\ Len(r) <= display.maxItems /\ ToSet(r) \subseteq ToSet(q) /\ UniqueRows(r)
    BY <2>6, <2>9, NewestKeeps
  <2>11. \A y \in ToSet(r) : y = row \/ (y \in ToSet(seq) /\ y.id # row.id)
    BY <2>8, <2>9, <2>10
  <2>12. Shown(r)
    BY <2>10, <2>11 DEF Shown
  <2> QED
    BY <2>7, <2>11, <2>12
<1> QED
  BY <1>3, <1>4

\* The rows agree with a set of captions.
Agree(cs, seq) ==
  (\A d \in Displays : d.show) => \A c \in cs, r \in ToSet(seq) : Agrees(c, r)

\* The row of a caption agrees with it, and takes no other caption's place.
LEMMA VoiceKeeps ==
  ASSUME display \in Displays, NEW seq, Shown(seq), NEW cs \in SUBSET Caption, Agree(cs, seq),
         NEW c \in Caption, NEW now \in Int,
         c.utterance # NoUtterance => \A b \in cs : b.utterance # c.utterance
  PROVE  LET r == WithVoice(seq, c, now) IN
         Shown(r) /\ Agree(cs \cup {c}, r)
<1>1. CASE ~display.show
  BY <1>1 DEF WithVoice, Agree
<1>2. CASE display.show
  <2>1. PICK id : id = VoiceId(c.utterance, c.speaker)
    OBVIOUS
  <2>2. PICK row : row = [id |-> id, kind |-> "voice", author |-> c.speaker, name |-> c.name,
                          final |-> c.final, revision |-> c.revision, created |-> now,
                          expires |-> c.expires]
    OBVIOUS
  <2>3. PICK r : r = Inserted(seq, row)
    OBVIOUS
  <2>4. WithVoice(seq, c, now) = r
    BY <1>2, <2>1, <2>2, <2>3 DEF WithVoice
  <2>5. /\ c.speaker \in Users \cup {NoUser} /\ c.utterance \in Utterances /\ c.name \in Names
        /\ c.final \in BOOLEAN /\ c.revision \in Revisions /\ c.expires \in Int
    BY DEF Caption
  <2>6. id = <<"voice", IF c.utterance = NoUtterance THEN c.speaker ELSE c.utterance>>
    BY <2>1 DEF VoiceId
  <2>7. id \in {"voice"} \X (Utterances \cup Users \cup {NoUser}) /\ id[1] = "voice"
    BY <2>5, <2>6
  <2>8. row \in Row /\ row.id = id /\ row.kind = "voice"
    BY <2>2, <2>5, <2>7 DEF Row
  <2>9. display.maxItems \in Nat
    BY SceneAssumption
  <2>10. /\ Shown(r)
         /\ \A y \in ToSet(r) : y = row \/ (y \in ToSet(seq) /\ y.id # row.id)
    BY <2>3, <2>7, <2>8, <2>9, InsertedKeeps
  <2>11. Agrees(c, row)
    BY <2>2 DEF Agrees
  <2>12. ASSUME NEW y \in ToSet(r), y # row
         PROVE  Agrees(c, y)
    <3>1. y.id # id
      BY <2>8, <2>10, <2>12
    <3> QED
      BY <2>6, <3>1 DEF Agrees
  <2>13. ASSUME NEW b \in cs
         PROVE  Agrees(b, row)
    <3> SUFFICES ASSUME b.utterance # NoUtterance, row.id = <<"voice", b.utterance>>
                 PROVE  FALSE
      BY DEF Agrees
    <3>1. b.utterance = IF c.utterance = NoUtterance THEN c.speaker ELSE c.utterance
      BY <2>6, <2>8
    <3>2. b.utterance \in Utterances \ {NoUtterance}
      BY DEF Caption
    <3>3. b.utterance \notin Users \cup {NoUser}
      BY <3>2, SceneAssumption
    <3> QED
      BY <2>5, <3>1, <3>3
  <2>14. Agree(cs \cup {c}, r)
    <3> SUFFICES ASSUME \A d \in Displays : d.show, NEW b \in cs \cup {c}, NEW y \in ToSet(r)
                 PROVE  Agrees(b, y)
      BY DEF Agree
    <3>1. \A e \in cs, x \in ToSet(seq) : Agrees(e, x)
      BY DEF Agree
    <3>2. CASE b = c
      BY <2>11, <2>12, <3>2
    <3>3. CASE b \in cs /\ y = row
      BY <2>13, <3>3
    <3>4. CASE b \in cs /\ y # row
      BY <2>10, <3>1, <3>4
    <3> QED
      BY <3>2, <3>3, <3>4
  <2> QED
    BY <2>4, <2>10, <2>14
<1> QED
  BY <1>1, <1>2

\* Rows of a speaker are removed.
LEMMA WithoutVoiceKeeps ==
  ASSUME display.maxItems \in Nat, NEW seq, Shown(seq), NEW utterance, NEW user
  PROVE  LET r == WithoutVoice(seq, utterance, user) IN
         Shown(r) /\ ToSet(r) \subseteq ToSet(seq)
<1> DEFINE gone(r) == /\ r.kind = "voice"
                      /\ IF utterance # NoUtterance THEN r.id = VoiceId(utterance, user)
                         ELSE ~r.final /\ r.author = user
<1>1. PICK P : P = {i \in DOMAIN seq : ~gone(seq[i])}
  OBVIOUS
<1>2. PICK r : r = Only(seq, P)
  OBVIOUS
<1>3. WithoutVoice(seq, utterance, user) = r
  BY <1>1, <1>2 DEF WithoutVoice
<1>4. P \in SUBSET DOMAIN seq
  BY <1>1
<1>5. seq \in Seq(Row) /\ UniqueRows(seq) /\ Len(seq) <= display.maxItems
  BY DEF Shown
<1>6. /\ r \in Seq(Row) /\ Len(r) <= Len(seq) /\ ToSet(r) \subseteq ToSet(seq) /\ UniqueRows(r)
  BY <1>2, <1>4, <1>5, OnlyKeeps
<1>7. Len(r) <= display.maxItems
  <2>1. Len(r) \in Nat /\ Len(seq) \in Nat
    BY <1>5, <1>6
  <2> QED
    BY <1>5, <1>6, <2>1
<1>8. Shown(r)
  BY <1>6, <1>7 DEF Shown
<1> QED
  BY <1>3, <1>6, <1>8

\* A message is shown.
LEMMA MessageKeeps ==
  ASSUME display \in Displays, NEW s, Sound(s, display.maxItems), SeenUpTo(s, MaxSeen),
         NEW id \in Messages, NEW created \in Int, NEW now \in Nat
  PROVE  LET t == WithMessage(s, id, created, now) IN
         Sound(t, display.maxItems) /\ StaysFinal(s, t) /\ SeenUpTo(t, MaxSeen + 1)
<1>1. s \in SceneType
  BY DEF Sound
<1>2. /\ s.chat \in Seq(Message) /\ s.conversation \in Seq(Row) /\ s.seen \in Seen
      /\ s.captions \in Seq(Caption)
  BY <1>1, Fields
<1>3. StaysFinal(s, s)
  <2>1. /\ Len(s.chat) <= MaxChat /\ Len(s.captions) <= MaxCaptions
        /\ Len(s.conversation) <= display.maxItems
        /\ UniqueRows(s.conversation) /\ UniqueCaptions(s.captions)
    BY DEF Sound, Limited, ShownOnce
  <2> QED
    BY <1>1, <2>1, PartSound
<1>4. /\ MaxSeen \in Nat /\ MaxChat \in Nat /\ SeenTTL \in Nat /\ ChatTTL \in Nat
      /\ display.maxItems \in Nat
  BY SceneAssumption
<1>5. CASE id \in DOMAIN s.seen
  <2>1. Cardinality(DOMAIN s.seen) \in Nat
    BY FS_CardinalityType DEF SeenUpTo
  <2>2. SeenUpTo(s, MaxSeen + 1)
    BY <1>4, <2>1 DEF SeenUpTo
  <2> QED
    BY <1>3, <1>5, <2>2 DEF WithMessage
<1>6. CASE id \notin DOMAIN s.seen
  <2>1. PICK expires : expires = IF ChatTTL > 0 THEN now + ChatTTL ELSE Never
    OBVIOUS
  <2>2. expires \in Int
    BY <1>4, <2>1 DEF Never
  <2>3. PICK message : message = [id |-> id, expires |-> expires]
    OBVIOUS
  <2>4. message \in Message
    BY <2>2, <2>3 DEF Message
  <2>5. PICK chat : chat = Newest(Append(s.chat, message), MaxChat)
    OBVIOUS
  <2>6. chat \in Seq(Message) /\ Len(chat) <= MaxChat
    BY <1>2, <1>4, <2>4, <2>5, AppendParts, NewestKeeps
  <2>7. PICK row : row = [id |-> <<"chat", id>>, kind |-> "chat", author |-> NoUser,
                          name |-> "none", final |-> FALSE, revision |-> 0,
                          created |-> created, expires |-> expires]
    OBVIOUS
  <2>8. row \in Row /\ row.id[1] = row.kind /\ row.kind = "chat"
    BY <2>2, <2>7 DEF Row, Names
  <2>9. Shown(s.conversation)
    BY <1>2 DEF Sound, Limited, ShownOnce, Shown
  <2>10. PICK rows : rows = Inserted(s.conversation, row)
    OBVIOUS
  <2>11. /\ Shown(rows)
         /\ \A y \in ToSet(rows) : y = row \/ (y \in ToSet(s.conversation) /\ y.id # row.id)
    BY <1>4, <2>8, <2>9, <2>10, InsertedKeeps
  <2>12. PICK seen : seen = With(s.seen, id, now + SeenTTL)
    OBVIOUS
  <2>13. seen \in Seen /\ DOMAIN seen = DOMAIN s.seen \cup {id}
    <3>1. PICK D \in SUBSET Messages : s.seen \in [D -> Int]
      BY <1>2 DEF Seen
    <3>2. now + SeenTTL \in Int
      BY <1>4
    <3>3. seen \in [D \cup {id} -> Int]
      BY <2>12, <3>1, <3>2, WithKeeps
    <3>4. D \cup {id} \in SUBSET Messages
      OBVIOUS
    <3> QED
      BY <3>1, <3>3, <3>4 DEF Seen
  <2>14. PICK t : t = [s EXCEPT !.chat = chat, !.seen = seen, !.conversation = rows]
    OBVIOUS
  <2>15. WithMessage(s, id, created, now) = t
    <3>1. t = [s EXCEPT !.chat = Newest(Append(@, message), MaxChat),
                        !.seen = With(@, id, now + SeenTTL),
                        !.conversation = Inserted(@, row)]
      BY <1>1, <2>5, <2>10, <2>12, <2>14 DEF SceneType
    <3> QED
      BY <1>6, <2>1, <2>3, <2>7, <3>1 DEF WithMessage
  <2>16. /\ t \in SceneType /\ t.participants = s.participants /\ t.ids = s.ids
         /\ t.captions = s.captions /\ t.conversation = rows /\ t.chat = chat /\ t.seen = seen
    BY <1>1, <2>6, <2>11, <2>13, <2>14 DEF SceneType, Shown
  <2>17. Limited(t, display.maxItems) /\ ListedOnce(t) /\ ShownOnce(t)
    BY <2>6, <2>11, <2>16 DEF Sound, Limited, ListedOnce, ShownOnce, Shown
  <2>18. RowsAgree(t)
    <3> SUFFICES ASSUME \A d \in Displays : d.show, NEW c \in ToSet(t.captions), NEW y \in ToSet(rows)
                 PROVE  Agrees(c, y)
      BY <2>16 DEF RowsAgree
    <3>1. CASE y = row
      <4>1. row.id = <<"chat", id>>
        BY <2>7
      <4> QED
        BY <3>1, <4>1 DEF Agrees
    <3>2. CASE y # row
      BY <2>11, <2>16, <3>2 DEF Sound, RowsAgree
    <3> QED
      BY <3>1, <3>2
  <2>19. StaysFinal(s, t)
    BY <1>3, <2>16 DEF StaysFinal
  <2>20. SeenUpTo(t, MaxSeen + 1)
    <3>1. /\ IsFiniteSet(DOMAIN s.seen) /\ Cardinality(DOMAIN s.seen) <= MaxSeen
      BY DEF SeenUpTo
    <3>2. /\ IsFiniteSet(DOMAIN seen) /\ Cardinality(DOMAIN seen) = Cardinality(DOMAIN s.seen) + 1
      BY <1>6, <2>13, <3>1, FS_AddElement
    <3>3. Cardinality(DOMAIN s.seen) \in Nat
      BY <3>1, FS_CardinalityType
    <3> QED
      BY <1>4, <2>16, <3>1, <3>2, <3>3 DEF SeenUpTo
  <2> QED
    BY <2>15, <2>16, <2>17, <2>18, <2>19, <2>20 DEF Sound
<1> QED
  BY <1>5, <1>6
-----------------------------------------------------------------------------
(* Captions.                                                                *)

\* The captions cs stay, c joins them, and the rows seq are left: q has room
\* for some of them, and c is of no utterance that has a final caption of its
\* revision or a higher one.
Joins(s, c, cs, q, seq) ==
  /\ c \in Caption /\ cs \subseteq ToSet(s.captions)
  /\ q \in Seq(Caption) /\ Len(q) <= MaxCaptions /\ UniqueCaptions(q)
  /\ ToSet(q) \subseteq cs \cup {c}
  /\ c.utterance # NoUtterance => \A b \in cs : b.utterance # c.utterance
  /\ \A b \in ToSet(s.captions) :
       c.utterance # NoUtterance /\ b.utterance = c.utterance /\ b.final =>
         c.final /\ c.revision > b.revision
  /\ Shown(seq) /\ ToSet(seq) \subseteq ToSet(s.conversation)

\* Other captions, and other rows.
Shows(s, q, rows) == [s EXCEPT !.captions = q, !.conversation = rows]

\* A caption joins others, and its row theirs.
LEMMA CaptionSound ==
  ASSUME display \in Displays, NEW s, Sound(s, display.maxItems),
         NEW c, NEW cs, NEW q, NEW seq, Joins(s, c, cs, q, seq), NEW now \in Int,
         NEW t, t = Shows(s, q, WithVoice(seq, c, now))
  PROVE  /\ Sound(t, display.maxItems) /\ StaysFinal(s, t) /\ t.seen = s.seen
         /\ t.captions = q
<1> USE DEF Joins
<1>1. s \in SceneType
  BY DEF Sound
<1>2. s.captions \in Seq(Caption) /\ s.conversation \in Seq(Row) /\ ToSet(s.captions) \subseteq Caption
  BY <1>1, Fields, RangeFinite
<1>3. cs \in SUBSET Caption
  BY <1>2
<1>4. Agree(cs, seq)
  BY DEF Sound, RowsAgree, Agree
<1>5. PICK rows : rows = WithVoice(seq, c, now)
  OBVIOUS
<1>6. Shown(rows) /\ Agree(cs \cup {c}, rows)
  BY <1>3, <1>4, <1>5, VoiceKeeps
<1>7. t = [s EXCEPT !.captions = q, !.conversation = rows]
  BY <1>5 DEF Shows
<1>8. /\ t \in SceneType /\ t.participants = s.participants /\ t.ids = s.ids
      /\ t.captions = q /\ t.conversation = rows /\ t.chat = s.chat /\ t.seen = s.seen
  BY <1>1, <1>6, <1>7 DEF SceneType, Shown
<1>9. Limited(t, display.maxItems) /\ ListedOnce(t) /\ ShownOnce(t)
  BY <1>6, <1>8 DEF Sound, Limited, ListedOnce, ShownOnce, Shown
<1>10. RowsAgree(t)
  BY <1>6, <1>8 DEF RowsAgree, Agree
<1>11. StaysFinal(s, t)
  <2> SUFFICES ASSUME NEW b \in ToSet(s.captions), NEW d \in ToSet(q),
                      b.utterance # NoUtterance, b.utterance = d.utterance, b.final
               PROVE  /\ d.final /\ d.revision >= b.revision
                      /\ d.revision = b.revision => d.expires = b.expires
    BY <1>8 DEF StaysFinal
  <2>1. b.revision \in Nat /\ d.revision \in Nat
    <3>1. b \in Caption /\ d \in Caption
      BY <1>2, <1>3
    <3> QED
      BY <3>1, SceneAssumption DEF Caption
  <2>2. CASE d = c
    BY <2>1, <2>2
  <2>3. CASE d # c
    <3>1. d \in ToSet(s.captions)
      BY <2>3
    <3>2. PICK i \in DOMAIN s.captions : b = s.captions[i]
      BY DEF ToSet
    <3>3. PICK j \in DOMAIN s.captions : d = s.captions[j]
      BY <3>1 DEF ToSet
    <3>4. b = d
      BY <3>2, <3>3 DEF Sound, ShownOnce, UniqueCaptions
    <3> QED
      BY <2>1, <3>4
  <2> QED
    BY <2>2, <2>3
<1> QED
  BY <1>8, <1>9, <1>10, <1>11 DEF Sound

\* A scene without change.
LEMMA SameSound ==
  ASSUME NEW s, NEW items, Sound(s, items)
  PROVE  StaysFinal(s, s)
<1>1. /\ Len(s.chat) <= MaxChat /\ Len(s.captions) <= MaxCaptions
      /\ Len(s.conversation) <= items /\ s \in SceneType
      /\ UniqueRows(s.conversation) /\ UniqueCaptions(s.captions)
  BY DEF Sound, Limited, ShownOnce
<1> QED
  BY <1>1, PartSound

\* The captions of t are those of s; a caption that is no repetition of that of
\* its utterance takes its place.
Takes(s, t, utterance, revision, final) ==
  \A b \in ToSet(t.captions) :
    \/ /\ b \in ToSet(s.captions)
       /\ \A i \in OfUtterance(s, utterance) :
            b.utterance = utterance => Repeats(s.captions[i], revision, final)
    \/ /\ b.utterance = utterance /\ b.revision = revision /\ b.final = final
       /\ \A i \in OfUtterance(s, utterance) : ~Repeats(s.captions[i], revision, final)

\* A caption that is no repetition replaces that of its utterance.
LEMMA CaptionShown ==
  ASSUME display \in Displays, NEW s, Sound(s, display.maxItems),
         NEW utterance \in Utterances, NEW user \in Users \cup {NoUser},
         NEW revision \in Revisions, NEW final \in BOOLEAN, NEW now \in Nat
  PROVE  LET t == WithCaption(s, utterance, user, revision, final, now) IN
         /\ Sound(t, display.maxItems) /\ StaysFinal(s, t) /\ t.seen = s.seen
         /\ Takes(s, t, utterance, revision, final)
<1>1. s \in SceneType
  BY DEF Sound
<1>2. /\ s.captions \in Seq(Caption) /\ s.conversation \in Seq(Row)
      /\ ToSet(s.captions) \subseteq Caption /\ DOMAIN s.captions = 1..Len(s.captions)
      /\ Len(s.captions) \in Nat
  BY <1>1, Fields, RangeFinite
<1>3. /\ display.maxItems \in Nat /\ MaxCaptions \in Nat
      /\ display.interimTTL \in Nat /\ display.finalTTL \in Nat
  BY SceneAssumption
<1>4. UniqueCaptions(s.captions) /\ Shown(s.conversation) /\ Len(s.captions) <= MaxCaptions
  BY <1>2 DEF Sound, ShownOnce, Limited, Shown
<1> DEFINE speaker == Resolved(s, user)
           same == OfUtterance(s, utterance)
           at == CHOOSE i \in same : \A j \in same : j <= i
           repeated == same # {} /\ Repeats(s.captions[at], revision, final)
<1>5. PICK named : named = NameOf(s, speaker, "none")
  OBVIOUS
<1>6. PICK c : c = [utterance |-> utterance, revision |-> revision, speaker |-> speaker,
                    name |-> IF named = "none" /\ speaker # NoUser THEN "id" ELSE named,
                    final |-> final,
                    expires |-> now + (IF final THEN display.finalTTL ELSE display.interimTTL)]
  OBVIOUS
<1>7. c \in Caption /\ c.utterance = utterance /\ c.revision = revision /\ c.final = final
  <2>1. speaker \in Users \cup {NoUser}
    BY <1>1, ResolvedUser
  <2>2. "none" \in Names /\ "id" \in Names
    BY DEF Names
  <2>3. named \in Names
    BY <1>1, <1>5, <2>2, NameShown
  <2>4. now + (IF final THEN display.finalTTL ELSE display.interimTTL) \in Int
    BY <1>3
  <2> HIDE DEF speaker
  <2> QED
    BY <1>6, <2>1, <2>2, <2>3, <2>4 DEF Caption
<1>8. \A i \in same : same = {i} /\ at = i /\ i \in DOMAIN s.captions
                     /\ s.captions[i].utterance = utterance /\ utterance # NoUtterance
  <2> TAKE i \in same
  <2>1. same = {i}
    BY <1>4 DEF OfUtterance, UniqueCaptions
  <2>2. i \in Nat /\ i \in DOMAIN s.captions
    BY <1>2 DEF OfUtterance
  <2>3. at = i
    BY <2>1, <2>2
  <2> QED
    BY <2>1, <2>2, <2>3 DEF OfUtterance
<1>9. \A i \in DOMAIN s.captions :
        utterance # NoUtterance /\ s.captions[i].utterance = utterance => i \in same
  BY DEF OfUtterance
<1>10. \A i \in DOMAIN s.captions : s.captions[i].revision \in Nat /\ s.captions[i].final \in BOOLEAN
  <2> TAKE i \in DOMAIN s.captions
  <2>1. s.captions[i] \in Caption
    BY <1>2
  <2> QED
    BY <2>1, SceneAssumption DEF Caption
<1>11. revision \in Nat
  BY SceneAssumption
<1>12. PICK t : t = WithCaption(s, utterance, user, revision, final, now)
  OBVIOUS
<1>13. CASE repeated
  <2>1. t = s
    BY <1>12, <1>13 DEF WithCaption
  <2>2. \A i \in same : Repeats(s.captions[i], revision, final)
    BY <1>8, <1>13
  <2>3. Takes(s, s, utterance, revision, final)
    BY <2>2 DEF Takes
  <2> QED
    BY <1>12, <2>1, <2>3, SameSound
<1>14. CASE ~repeated /\ final
  <2>1. PICK P : P = {i \in DOMAIN s.captions : ~ReplacedBy(c, s.captions[i])}
    OBVIOUS
  <2>2. PICK o : o = Only(s.captions, P)
    OBVIOUS
  <2>3. PICK q : q = Newest(Append(o, c), MaxCaptions)
    OBVIOUS
  <2>4. PICK seq : seq = WithoutVoice(s.conversation, utterance, speaker)
    OBVIOUS
  <2>5. t = Shows(s, q, WithVoice(seq, c, now))
    <3>1. t = [s EXCEPT
                 !.captions = Newest(Append(Only(@, {i \in DOMAIN @ : ~ReplacedBy(c, @[i])}), c),
                                     MaxCaptions),
                 !.conversation = WithVoice(WithoutVoice(@, utterance, speaker), c, now)]
      BY <1>5, <1>6, <1>12, <1>14 DEF WithCaption
    <3> HIDE DEF speaker
    <3> QED
      BY <1>1, <2>1, <2>2, <2>3, <2>4, <3>1 DEF SceneType, Shows
  <2>6. P \in SUBSET DOMAIN s.captions
    BY <2>1
  <2>7. /\ o \in Seq(Caption) /\ ToSet(o) = {s.captions[k] : k \in P}
        /\ ToSet(o) \subseteq ToSet(s.captions) /\ UniqueCaptions(o)
    BY <1>2, <1>4, <2>2, <2>6, OnlyKeeps
  <2>8. c.utterance # NoUtterance => \A b \in ToSet(o) : b.utterance # c.utterance
    BY <2>1, <2>7 DEF ReplacedBy
  <2>9. /\ Append(o, c) \in Seq(Caption) /\ ToSet(Append(o, c)) = ToSet(o) \cup {c}
        /\ UniqueCaptions(Append(o, c))
    BY <1>7, <2>7, <2>8, AppendKeeps
  <2>10. /\ q \in Seq(Caption) /\ Len(q) <= MaxCaptions /\ ToSet(q) \subseteq ToSet(o) \cup {c}
         /\ UniqueCaptions(q)
    BY <1>3, <2>3, <2>9, NewestKeeps
  <2>11. Shown(seq) /\ ToSet(seq) \subseteq ToSet(s.conversation)
    BY <1>3, <1>4, <2>4, WithoutVoiceKeeps
  <2>12. \A b \in ToSet(s.captions) :
           c.utterance # NoUtterance /\ b.utterance = c.utterance /\ b.final =>
             c.final /\ c.revision > b.revision
    <3> SUFFICES ASSUME NEW i \in DOMAIN s.captions, utterance # NoUtterance,
                        s.captions[i].utterance = utterance, s.captions[i].final
                 PROVE  revision > s.captions[i].revision
      BY <1>7, <1>14 DEF ToSet
    <3>1. i \in same /\ at = i
      BY <1>8, <1>9
    <3>2. ~Repeats(s.captions[i], revision, final)
      BY <1>14, <3>1
    <3> QED
      BY <1>10, <1>11, <1>14, <3>2 DEF Repeats
  <2>13. now \in Int
    OBVIOUS
  <2>14. ToSet(o) \in SUBSET ToSet(s.captions)
    BY <2>7
  <2>15. Sound(t, display.maxItems) /\ StaysFinal(s, t) /\ t.seen = s.seen /\ t.captions = q
    <3>1. Joins(s, c, ToSet(o), q, seq)
      BY <1>7, <2>8, <2>10, <2>11, <2>12, <2>14 DEF Joins
    <3> QED
      BY <2>5, <2>13, <3>1, CaptionSound
  <2>16. \A i \in same : ~Repeats(s.captions[i], revision, final)
    BY <1>8, <1>14
  <2>17. Takes(s, t, utterance, revision, final)
    <3> SUFFICES ASSUME NEW b \in ToSet(q)
                 PROVE  \/ /\ b \in ToSet(s.captions)
                           /\ \A i \in same : b.utterance # utterance
                        \/ b.utterance = utterance /\ b.revision = revision /\ b.final = final
      BY <2>15, <2>16 DEF Takes
    <3>1. CASE b = c
      BY <1>7, <3>1
    <3>2. CASE b # c
      <4>1. b \in ToSet(o)
        BY <2>10, <3>2
      <4>2. b \in ToSet(s.captions)
        BY <2>14, <4>1
      <4>3. utterance # NoUtterance => b.utterance # utterance
        BY <1>7, <2>8, <4>1
      <4>4. \A i \in same : b.utterance # utterance
        BY <1>8, <4>3
      <4> QED
        BY <4>2, <4>4
    <3> QED
      BY <3>1, <3>2
  <2> QED
    BY <1>12, <2>15, <2>17
<1>15. CASE ~repeated /\ ~final
  <2>1. PICK q : q = IF same # {} THEN [s.captions EXCEPT ![at] = c]
                     ELSE Newest(Append(s.captions, c), MaxCaptions)
    OBVIOUS
  <2>2. t = Shows(s, q, WithVoice(s.conversation, c, now))
    <3>1. t = [s EXCEPT
                 !.captions = IF same # {} THEN [@ EXCEPT ![at] = c]
                              ELSE Newest(Append(@, c), MaxCaptions),
                 !.conversation = WithVoice(@, c, now)]
      BY <1>5, <1>6, <1>12, <1>15 DEF WithCaption
    <3> HIDE DEF same, at
    <3> QED
      BY <1>1, <2>1, <3>1 DEF SceneType, Shows
  <2>3. PICK cs : cs = {b \in ToSet(s.captions) : utterance # NoUtterance => b.utterance # utterance}
    OBVIOUS
  <2>4. /\ q \in Seq(Caption) /\ Len(q) <= MaxCaptions /\ UniqueCaptions(q)
        /\ ToSet(q) \subseteq cs \cup {c}
    <3>1. CASE same # {}
      <4>1. PICK k : k = at
        OBVIOUS
      <4>2. /\ k \in DOMAIN s.captions /\ s.captions[k].utterance = utterance
            /\ utterance # NoUtterance /\ same = {k}
        BY <1>8, <3>1, <4>1
      <4>3. q = [s.captions EXCEPT ![k] = c]
        BY <2>1, <3>1, <4>1
      <4>4. q \in Seq(Caption) /\ Len(q) = Len(s.captions)
        BY <1>2, <1>7, <4>2, <4>3, ChangeKeeps
      <4>5. UniqueCaptions(q)
        BY <1>2, <1>4, <1>7, <4>2, <4>3, ChangeKeeps
      <4>6. DOMAIN q = DOMAIN s.captions /\ \A i \in DOMAIN q : q[i] = IF i = k THEN c ELSE s.captions[i]
        BY <4>3
      <4>7. \A i \in DOMAIN s.captions : i # k => s.captions[i] \in cs
        <5> SUFFICES ASSUME NEW i \in DOMAIN s.captions, i # k
                     PROVE  s.captions[i] \in ToSet(s.captions) /\ s.captions[i].utterance # utterance
          BY <2>3
        <5> QED
          BY <1>9, <4>2 DEF ToSet
      <4>8. ToSet(q) \subseteq cs \cup {c}
        BY <4>6, <4>7 DEF ToSet
      <4> QED
        BY <1>4, <4>4, <4>5, <4>8
    <3>2. CASE same = {}
      <4>1. q = Newest(Append(s.captions, c), MaxCaptions)
        BY <2>1, <3>2
      <4>2. utterance # NoUtterance => \A b \in ToSet(s.captions) : b.utterance # utterance
        BY <1>9, <3>2 DEF ToSet
      <4>3. /\ Append(s.captions, c) \in Seq(Caption)
            /\ ToSet(Append(s.captions, c)) = ToSet(s.captions) \cup {c}
            /\ UniqueCaptions(Append(s.captions, c))
        BY <1>2, <1>4, <1>7, <4>2, AppendKeeps
      <4>4. /\ q \in Seq(Caption) /\ Len(q) <= MaxCaptions
            /\ ToSet(q) \subseteq ToSet(s.captions) \cup {c} /\ UniqueCaptions(q)
        BY <1>3, <4>1, <4>3, NewestKeeps
      <4> QED
        BY <2>3, <4>2, <4>4
    <3> QED
      BY <3>1, <3>2
  <2>5. \A b \in ToSet(s.captions) :
          ~(c.utterance # NoUtterance /\ b.utterance = c.utterance /\ b.final)
    <3> SUFFICES ASSUME NEW i \in DOMAIN s.captions, utterance # NoUtterance,
                        s.captions[i].utterance = utterance, s.captions[i].final
                 PROVE  FALSE
      BY <1>7 DEF ToSet
    <3>1. i \in same /\ at = i
      BY <1>8, <1>9
    <3>2. ~Repeats(s.captions[i], revision, final)
      BY <1>15, <3>1
    <3> QED
      BY <1>15, <3>2 DEF Repeats
  <2>6. now \in Int /\ cs \in SUBSET ToSet(s.captions)
    BY <2>3
  <2>7. c.utterance # NoUtterance => \A b \in cs : b.utterance # c.utterance
    BY <1>7, <2>3
  <2>8. \A b \in ToSet(s.captions) :
          c.utterance # NoUtterance /\ b.utterance = c.utterance /\ b.final =>
            c.final /\ c.revision > b.revision
    BY <2>5
  <2>9. ToSet(s.conversation) \subseteq ToSet(s.conversation)
    OBVIOUS
  <2>10. Sound(t, display.maxItems) /\ StaysFinal(s, t) /\ t.seen = s.seen /\ t.captions = q
    <3>1. Joins(s, c, cs, q, s.conversation)
      BY <1>4, <1>7, <2>4, <2>6, <2>7, <2>8, <2>9 DEF Joins
    <3> QED
      BY <2>2, <2>6, <3>1, CaptionSound
  <2>11. \A i \in same : ~Repeats(s.captions[i], revision, final)
    BY <1>8, <1>15
  <2>12. Takes(s, t, utterance, revision, final)
    <3> SUFFICES ASSUME NEW b \in ToSet(q)
                 PROVE  \/ /\ b \in ToSet(s.captions)
                           /\ \A i \in same : b.utterance # utterance
                        \/ b.utterance = utterance /\ b.revision = revision /\ b.final = final
      BY <2>10, <2>11 DEF Takes
    <3>1. CASE b = c
      BY <1>7, <3>1
    <3>2. CASE b # c
      <4>1. b \in cs
        BY <2>4, <3>2
      <4>2. \A i \in same : b.utterance # utterance
        BY <1>8, <2>3, <4>1
      <4> QED
        BY <2>3, <4>1, <4>2
    <3> QED
      BY <3>1, <3>2
  <2> QED
    BY <1>12, <2>10, <2>12
<1> QED
  BY <1>13, <1>14, <1>15
-----------------------------------------------------------------------------
(* Every step.                                                              *)

\* The inductive invariant.
SceneInv ==
  /\ stream \in Streams \cup {NoStream} /\ generation \in 0..MaxGeneration
  /\ display \in Displays /\ clock \in 0..MaxTime
  /\ Sound(scene, display.maxItems) /\ SeenUpTo(scene, MaxSeen + 1)

\* What FinalCaptionStays says of two scenes.
FinalKept(s, t, now) ==
  \A c \in ToSet(s.captions), d \in ToSet(t.captions) :
    c.utterance # NoUtterance /\ c.utterance = d.utterance /\ c.final /\ c.expires > now =>
      /\ d.final /\ d.revision >= c.revision
      /\ d.revision = c.revision => d.expires = c.expires

\* An empty scene is sound.
LEMMA EmptySound ==
  ASSUME NEW items \in Nat
  PROVE  /\ Sound(EmptyScene, items) /\ SeenUpTo(EmptyScene, MaxSeen + 1)
         /\ \A s, now : FinalKept(s, EmptyScene, now)
<1> DEFINE e == EmptyScene
<1>1. /\ e.participants = <<>> /\ e.ids = <<>> /\ e.speaking = {} /\ e.chat = <<>>
      /\ e.captions = <<>> /\ e.conversation = <<>> /\ e.seen = <<>>
  BY DEF EmptyScene
<1>2. \A S : <<>> \in Seq(S)
  OBVIOUS
<1>3. DOMAIN <<>> = {} /\ Len(<<>>) = 0 /\ ToSet(<<>>) = {}
  BY DEF ToSet
<1>4. \A S : <<>> \in [{} -> S]
  OBVIOUS
<1>5. <<>> \in Participants /\ <<>> \in Seen
  <2>1. {} \in SUBSET Users /\ {} \in SUBSET Messages
    OBVIOUS
  <2>2. <<>> \in [{} -> Participant] /\ <<>> \in [{} -> Int]
    BY <1>4
  <2> QED
    BY <2>1, <2>2 DEF Participants, Seen
<1>6. e \in SceneType
  BY <1>2, <1>5 DEF SceneType, EmptyScene
<1>7. Limited(e, items)
  <2>1. MaxCaptions \in Nat /\ MaxChat \in Nat /\ MaxParticipants \in Nat
    BY SceneAssumption
  <2> QED
    BY <1>1, <1>3, <2>1 DEF Limited
<1>8. ListedOnce(e) /\ ShownOnce(e) /\ RowsAgree(e)
  BY <1>1, <1>3 DEF ListedOnce, ShownOnce, UniqueRows, UniqueCaptions, RowsAgree
<1>9. SeenUpTo(e, MaxSeen + 1)
  <2>1. IsFiniteSet({}) /\ Cardinality({}) = 0
    BY FS_EmptySet
  <2>2. MaxSeen \in Nat
    BY SceneAssumption
  <2> QED
    BY <1>1, <1>3, <2>1, <2>2 DEF SeenUpTo
<1>10. \A s, now : FinalKept(s, e, now)
  BY <1>1, <1>3 DEF FinalKept
<1> QED
  BY <1>6, <1>7, <1>8, <1>9, <1>10 DEF Sound

\* What is kept of the pruned scene is kept.
LEMMA PrunedFirst ==
  ASSUME SceneInv, NEW now \in 0..clock, NEW p \in Pruned(scene, now), NEW t, StaysFinal(p, t)
  PROVE  FinalKept(scene, t, clock)
<1>1. /\ Sound(scene, display.maxItems) /\ IsFiniteSet(DOMAIN scene.seen)
      /\ display.maxItems \in Nat /\ clock \in Nat /\ now \in Nat /\ now <= clock
  BY SceneAssumption DEF SceneInv, SeenUpTo
<1>2. \A c \in ToSet(scene.captions) : c.expires > now => c \in ToSet(p.captions)
  BY <1>1, PrunedKeeps
<1>3. ToSet(scene.captions) \subseteq Caption
  BY <1>1, Fields, RangeFinite DEF Sound
<1>4. \A c \in ToSet(scene.captions) : c.expires > clock => c \in ToSet(p.captions)
  <2> SUFFICES ASSUME NEW c \in ToSet(scene.captions), c.expires > clock
               PROVE  c.expires > now
    BY <1>2
  <2>1. c.expires \in Int
    BY <1>3 DEF Caption
  <2> QED
    BY <1>1, <2>1
<1> QED
  BY <1>4 DEF StaysFinal, FinalKept

\* An event is applied to a pruned scene.
LEMMA AppliedKeeps ==
  ASSUME SceneInv, NEW st, NEW g, NEW now \in 0..clock, NEW outcomes, Applied(st, g, now, outcomes),
         \A t \in outcomes : /\ Sound(t, display.maxItems) /\ SeenUpTo(t, MaxSeen + 1)
                            /\ \E p \in Pruned(scene, now) : StaysFinal(p, t)
  PROVE  SceneInv' /\ FinalKept(scene, scene', clock)
<1>1. PICK t \in outcomes : scene' = t
  BY DEF Applied
<1>2. UNCHANGED <<stream, generation, display, clock>>
  BY DEF Applied
<1>3. PICK p \in Pruned(scene, now) : StaysFinal(p, t)
  OBVIOUS
<1>4. FinalKept(scene, t, clock)
  BY <1>3, PrunedFirst
<1>5. Sound(t, display.maxItems) /\ SeenUpTo(t, MaxSeen + 1)
  OBVIOUS
<1> QED
  BY <1>1, <1>2, <1>4, <1>5 DEF SceneInv

\* What pruning leaves of the scene.
LEMMA PrunedSound ==
  ASSUME SceneInv, NEW now, NEW p \in Pruned(scene, now)
  PROVE  /\ Sound(p, display.maxItems) /\ StaysFinal(p, p)
         /\ SeenUpTo(p, MaxSeen) /\ SeenUpTo(p, MaxSeen + 1)
<1>1. /\ Sound(scene, display.maxItems) /\ IsFiniteSet(DOMAIN scene.seen)
      /\ display.maxItems \in Nat /\ MaxSeen \in Nat
  BY SceneAssumption DEF SceneInv, SeenUpTo
<1>2. Sound(p, display.maxItems) /\ SeenUpTo(p, MaxSeen)
  BY <1>1, PrunedKeeps
<1>3. Cardinality(DOMAIN p.seen) \in Nat
  BY <1>2, FS_CardinalityType DEF SeenUpTo
<1>4. SeenUpTo(p, MaxSeen + 1)
  BY <1>1, <1>2, <1>3 DEF SeenUpTo
<1> QED
  BY <1>2, <1>4, SameSound

\* A list of participants is applied.
LEMMA ParticipantsApplied ==
  ASSUME SceneInv, NEW st, NEW g, NEW now \in 0..clock, NEW list \in Lists,
         ApplyParticipants(st, g, now, list)
  PROVE  SceneInv' /\ FinalKept(scene, scene', clock)
<1>1. PICK outcomes : outcomes = {WithParticipants(p, list) : p \in Pruned(scene, now)}
  OBVIOUS
<1>2. Applied(st, g, now, outcomes)
  BY <1>1 DEF ApplyParticipants
<1>3. \A t \in outcomes : /\ Sound(t, display.maxItems) /\ SeenUpTo(t, MaxSeen + 1)
                         /\ \E p \in Pruned(scene, now) : StaysFinal(p, t)
  <2> SUFFICES ASSUME NEW p \in Pruned(scene, now)
               PROVE  LET t == WithParticipants(p, list) IN
                      Sound(t, display.maxItems) /\ SeenUpTo(t, MaxSeen + 1) /\ StaysFinal(p, t)
    BY <1>1
  <2>1. Sound(p, display.maxItems) /\ SeenUpTo(p, MaxSeen + 1)
    BY PrunedSound
  <2> QED
    BY <2>1, ParticipantsKeep DEF SeenUpTo
<1> QED
  BY <1>2, <1>3, AppliedKeeps

\* An active speaker is applied.
LEMMA SpeakerApplied ==
  ASSUME SceneInv, NEW st, NEW g, NEW now \in 0..clock, NEW user \in Users \cup {NoUser},
         NEW on \in BOOLEAN, NEW name \in Names, ApplyActiveSpeaker(st, g, now, user, on, name)
  PROVE  SceneInv' /\ FinalKept(scene, scene', clock)
<1> DEFINE result(p) == IF user # NoUser THEN WithSpeaker(p, user, on, name)
                        ELSE IF on THEN p ELSE WithoutSpeakers(p)
<1>1. PICK outcomes : outcomes = {result(p) : p \in Pruned(scene, now)}
  OBVIOUS
<1>2. Applied(st, g, now, outcomes)
  BY <1>1 DEF ApplyActiveSpeaker
<1>3. \A t \in outcomes : /\ Sound(t, display.maxItems) /\ SeenUpTo(t, MaxSeen + 1)
                         /\ \E p \in Pruned(scene, now) : StaysFinal(p, t)
  <2> SUFFICES ASSUME NEW p \in Pruned(scene, now)
               PROVE  /\ Sound(result(p), display.maxItems) /\ SeenUpTo(result(p), MaxSeen + 1)
                      /\ StaysFinal(p, result(p))
    BY <1>1
  <2>1. Sound(p, display.maxItems) /\ SeenUpTo(p, MaxSeen + 1) /\ StaysFinal(p, p)
    BY PrunedSound
  <2>2. CASE user # NoUser
    <3>1. user \in Users
      BY <2>2
    <3> QED
      BY <2>1, <2>2, <3>1, SpeakerKeeps DEF SeenUpTo
  <2>3. CASE user = NoUser /\ on
    BY <2>1, <2>3
  <2>4. CASE user = NoUser /\ ~on
    BY <2>1, <2>4, SilenceKeeps DEF SeenUpTo
  <2> QED
    BY <2>2, <2>3, <2>4
<1> QED
  BY <1>2, <1>3, AppliedKeeps

\* A message is applied.
LEMMA ChatApplied ==
  ASSUME SceneInv, NEW st, NEW g, NEW now \in 0..clock, NEW id \in Messages, NEW created \in Int,
         ApplyChat(st, g, now, id, created)
  PROVE  SceneInv' /\ FinalKept(scene, scene', clock)
<1>1. PICK outcomes : outcomes = {WithMessage(p, id, created, now) : p \in Pruned(scene, now)}
  OBVIOUS
<1>2. Applied(st, g, now, outcomes)
  BY <1>1 DEF ApplyChat
<1>3. \A t \in outcomes : /\ Sound(t, display.maxItems) /\ SeenUpTo(t, MaxSeen + 1)
                         /\ \E p \in Pruned(scene, now) : StaysFinal(p, t)
  <2> SUFFICES ASSUME NEW p \in Pruned(scene, now)
               PROVE  LET t == WithMessage(p, id, created, now) IN
                      Sound(t, display.maxItems) /\ SeenUpTo(t, MaxSeen + 1) /\ StaysFinal(p, t)
    BY <1>1
  <2>1. Sound(p, display.maxItems) /\ SeenUpTo(p, MaxSeen)
    BY PrunedSound
  <2>2. display \in Displays /\ now \in Nat
    BY DEF SceneInv
  <2> QED
    BY <2>1, <2>2, MessageKeeps
<1> QED
  BY <1>2, <1>3, AppliedKeeps

\* A caption is applied.
LEMMA CaptionApplied ==
  ASSUME SceneInv, NEW st, NEW g, NEW now \in 0..clock, NEW utterance \in Utterances,
         NEW user \in Users \cup {NoUser}, NEW revision \in Revisions, NEW final \in BOOLEAN,
         ApplyCaption(st, g, now, utterance, user, revision, final)
  PROVE  SceneInv' /\ FinalKept(scene, scene', clock)
<1>1. PICK outcomes :
        outcomes = {WithCaption(p, utterance, user, revision, final, now) : p \in Pruned(scene, now)}
  OBVIOUS
<1>2. Applied(st, g, now, outcomes)
  BY <1>1 DEF ApplyCaption
<1>3. \A t \in outcomes : /\ Sound(t, display.maxItems) /\ SeenUpTo(t, MaxSeen + 1)
                         /\ \E p \in Pruned(scene, now) : StaysFinal(p, t)
  <2> SUFFICES ASSUME NEW p \in Pruned(scene, now)
               PROVE  LET t == WithCaption(p, utterance, user, revision, final, now) IN
                      Sound(t, display.maxItems) /\ SeenUpTo(t, MaxSeen + 1) /\ StaysFinal(p, t)
    BY <1>1
  <2>1. Sound(p, display.maxItems) /\ SeenUpTo(p, MaxSeen + 1)
    BY PrunedSound
  <2>2. display \in Displays /\ now \in Nat
    BY DEF SceneInv
  <2> QED
    BY <2>1, <2>2, CaptionShown DEF SeenUpTo
<1> QED
  BY <1>2, <1>3, AppliedKeeps

\* The display is configured: the oldest rows may go.
LEMMA DisplayApplied ==
  ASSUME SceneInv, NEW d \in Displays, ConfigureDisplay(d)
  PROVE  SceneInv' /\ FinalKept(scene, scene', clock)
<1>1. scene \in SceneType /\ Sound(scene, display.maxItems)
  BY DEF SceneInv, Sound
<1>2. d.maxItems \in Nat
  BY SceneAssumption
<1>3. PICK rows : rows = Newest(scene.conversation, d.maxItems)
  OBVIOUS
<1>4. scene.conversation \in Seq(Row) /\ UniqueRows(scene.conversation)
  BY <1>1, Fields DEF Sound, ShownOnce
<1>5. /\ rows \in Seq(Row) /\ Len(rows) <= d.maxItems
      /\ ToSet(rows) \subseteq ToSet(scene.conversation) /\ UniqueRows(rows)
  BY <1>2, <1>3, <1>4, NewestKeeps
<1>6. PICK t : t = [scene EXCEPT !.conversation = rows]
  OBVIOUS
<1>7. scene' = t
  BY <1>1, <1>3, <1>6 DEF ConfigureDisplay, SceneType
<1>8. /\ t \in SceneType /\ t.participants = scene.participants /\ t.ids = scene.ids
      /\ t.chat = scene.chat /\ t.captions = scene.captions /\ t.conversation = rows
      /\ t.seen = scene.seen
  BY <1>1, <1>5, <1>6 DEF SceneType
<1>9. Len(t.chat) <= MaxChat /\ Len(t.captions) <= MaxCaptions /\ UniqueCaptions(t.captions)
  BY <1>1, <1>8 DEF Sound, Limited, ShownOnce
<1>10. Sound(t, d.maxItems) /\ StaysFinal(scene, t)
  BY <1>1, <1>5, <1>8, <1>9, PartSound
<1>11. FinalKept(scene, t, clock)
  BY <1>10 DEF StaysFinal, FinalKept
<1>12. SeenUpTo(t, MaxSeen + 1)
  BY <1>8 DEF SceneInv, SeenUpTo
<1>13. UNCHANGED <<stream, generation, clock>> /\ display' = d
  BY DEF ConfigureDisplay
<1> QED
  BY <1>7, <1>10, <1>11, <1>12, <1>13 DEF SceneInv

\* The scene is taken anew.
LEMMA SnapshotKeeps ==
  ASSUME SceneInv, Snapshot
  PROVE  SceneInv' /\ FinalKept(scene, scene', clock)
<1>1. PICK p \in Pruned(scene, clock) : scene' = p
  BY DEF Snapshot
<1>2. /\ Sound(p, display.maxItems) /\ StaysFinal(p, p) /\ SeenUpTo(p, MaxSeen + 1)
  BY PrunedSound
<1>3. clock \in 0..clock
  BY DEF SceneInv
<1>4. FinalKept(scene, p, clock)
  BY <1>2, <1>3, PrunedFirst
<1>5. UNCHANGED <<stream, generation, display, clock>>
  BY DEF Snapshot
<1> QED
  BY <1>1, <1>2, <1>4, <1>5 DEF SceneInv

\* No step breaks the invariant, or reopens a final caption.
LEMMA SceneStep ==
  ASSUME SceneInv, [Next]_vars
  PROVE  SceneInv' /\ FinalKept(scene, scene', clock)
<1>1. /\ display \in Displays /\ display.maxItems \in Nat /\ MaxGeneration \in Nat /\ MaxTime \in Nat
  BY SceneAssumption DEF SceneInv
<1>2. FinalKept(scene, scene, clock)
  <2>1. StaysFinal(scene, scene)
    BY SameSound DEF SceneInv
  <2> QED
    BY <2>1 DEF StaysFinal, FinalKept
<1>3. PICK e : e = EmptyScene
  OBVIOUS
<1>4. Sound(e, display.maxItems) /\ SeenUpTo(e, MaxSeen + 1) /\ FinalKept(scene, e, clock)
  BY <1>1, <1>3, EmptySound
<1>5. ASSUME NEW st \in Streams, Reset(st)
      PROVE  SceneInv' /\ FinalKept(scene, scene', clock)
  <2>1. /\ scene' = e /\ UNCHANGED <<display, clock>> /\ stream' = st
        /\ generation' = generation + 1 /\ generation < MaxGeneration
    BY <1>3, <1>5 DEF Reset
  <2>2. generation' \in 0..MaxGeneration
    BY <1>1, <2>1 DEF SceneInv
  <2> QED
    BY <1>4, <2>1, <2>2 DEF SceneInv
<1>6. CASE Clear
  <2>1. scene' = e /\ UNCHANGED <<generation, display, clock>> /\ stream' = NoStream
    BY <1>3, <1>6 DEF Clear
  <2> QED
    BY <1>4, <2>1 DEF SceneInv
<1>7. CASE Close
  <2>1. scene' = e /\ UNCHANGED <<display, clock>> /\ stream' = NoStream /\ generation' = 0
    BY <1>3, <1>7 DEF Close
  <2>2. generation' \in 0..MaxGeneration
    BY <1>1, <2>1
  <2> QED
    BY <1>4, <2>1, <2>2 DEF SceneInv
<1>8. CASE Tick
  <2>1. UNCHANGED <<stream, generation, display, scene>> /\ clock' = clock + 1 /\ clock < MaxTime
    BY <1>8 DEF Tick
  <2>2. clock' \in 0..MaxTime
    BY <1>1, <2>1 DEF SceneInv
  <2> QED
    BY <1>2, <2>1, <2>2 DEF SceneInv
<1>9. CASE UNCHANGED vars
  BY <1>2, <1>9 DEF vars, SceneInv
<1>10. ASSUME NEW st \in Streams, NEW g \in 0..MaxGeneration, NEW now \in 0..clock,
              NEW id \in Messages, NEW created \in 0..now, ApplyChat(st, g, now, id, created)
       PROVE  SceneInv' /\ FinalKept(scene, scene', clock)
  <2>1. created \in Int
    OBVIOUS
  <2> QED
    BY <1>10, <2>1, ChatApplied
<1>11. ASSUME NEW st \in Streams, NEW g \in 0..MaxGeneration, NEW now \in 0..clock,
              NEW user \in Talkers, NEW on \in BOOLEAN,
              ApplyActiveSpeaker(st, g, now, user, on, "id")
       PROVE  SceneInv' /\ FinalKept(scene, scene', clock)
  <2>1. user \in Users \cup {NoUser} /\ "id" \in Names
    BY SceneAssumption DEF Names
  <2> QED
    BY <1>11, <2>1, SpeakerApplied
<1>12. ASSUME NEW st \in Streams, NEW g \in 0..MaxGeneration, NEW now \in 0..clock,
              NEW u \in Utterances, NEW user \in Speakers, NEW revision \in Revisions,
              NEW final \in BOOLEAN, ApplyCaption(st, g, now, u, user, revision, final)
       PROVE  SceneInv' /\ FinalKept(scene, scene', clock)
  <2>1. user \in Users \cup {NoUser}
    BY SceneAssumption
  <2> QED
    BY <1>12, <2>1, CaptionApplied
<1>13. ASSUME NEW st \in Streams, NEW g \in 0..MaxGeneration, NEW now \in 0..clock,
              NEW list \in Lists, ApplyParticipants(st, g, now, list)
       PROVE  SceneInv' /\ FinalKept(scene, scene', clock)
  BY <1>13, ParticipantsApplied
<1> QED
  BY <1>5, <1>6, <1>7, <1>8, <1>9, <1>10, <1>11, <1>12, <1>13, SnapshotKeeps, DisplayApplied
     DEF Next
-----------------------------------------------------------------------------
(* The properties.                                                          *)

\* Every participant is listed once, so the list is as long as they are many.
LEMMA ListedCount ==
  ASSUME NEW seq \in Seq(Users), \A i, j \in DOMAIN seq : seq[i] = seq[j] => i = j
  PROVE  Len(seq) = Cardinality(ToSet(seq))
<1>1. Len(seq) \in Nat /\ DOMAIN seq = 1..Len(seq)
  OBVIOUS
<1>2. seq \in [1..Len(seq) -> ToSet(seq)]
  <2>1. \A i \in 1..Len(seq) : seq[i] \in ToSet(seq)
    BY <1>1 DEF ToSet
  <2> QED
    BY <1>1, <2>1
<1>3. seq \in Injection(1..Len(seq), ToSet(seq))
  BY <1>1, <1>2 DEF Injection, IsInjective
<1>4. seq \in Surjection(1..Len(seq), ToSet(seq))
  BY <1>1, <1>2 DEF Surjection, ToSet
<1>5. seq \in Bijection(1..Len(seq), ToSet(seq))
  BY <1>3, <1>4 DEF Bijection
<1>6. IsFiniteSet(1..Len(seq)) /\ Cardinality(1..Len(seq)) = Len(seq)
  BY <1>1, FS_Interval
<1>7. Cardinality(ToSet(seq)) = Cardinality(1..Len(seq))
  BY <1>5, <1>6, FS_Bijection DEF ExistsBijection
<1> QED
  BY <1>6, <1>7

\* The invariant gives the properties.
LEMMA SceneInvGives ==
  ASSUME SceneInv
  PROVE  ListsInv /\ CaptionsAgree
<1>1. /\ scene \in SceneType /\ Limited(scene, display.maxItems) /\ ListedOnce(scene)
      /\ ShownOnce(scene) /\ RowsAgree(scene) /\ SeenUpTo(scene, MaxSeen + 1)
  BY DEF SceneInv, Sound
<1>2. /\ scene.participants \in Participants /\ scene.ids \in Seq(Users)
      /\ scene.speaking \in SUBSET Users /\ scene.chat \in Seq(Message)
      /\ scene.captions \in Seq(Caption) /\ scene.conversation \in Seq(Row) /\ scene.seen \in Seen
  BY <1>1, Fields
<1>3. scene.participants \in [DOMAIN scene.participants -> Participant]
  BY <1>2 DEF Participants
<1>4. scene.seen \in [DOMAIN scene.seen -> Int] /\ DOMAIN scene.seen \subseteq Messages
  BY <1>2 DEF Seen
<1>5. TypeOK
  BY <1>1, <1>2, <1>3, <1>4 DEF SceneInv, Limited, SeenUpTo, TypeOK
<1>6. RowsUnique
  BY <1>1 DEF ShownOnce, UniqueRows, RowsUnique
<1>7. ParticipantsListed
  BY <1>1, <1>2, ListedCount DEF ListedOnce, ParticipantsListed
<1>8. ASSUME \A d \in Displays : d.show, NEW i \in DOMAIN scene.captions,
             scene.captions[i].utterance # NoUtterance
      PROVE  LET c == scene.captions[i] IN
             /\ OfUtterance(scene, c.utterance) = {i}
             /\ \A r \in ToSet(scene.conversation) : r.id = VoiceId(c.utterance, c.speaker) =>
                  /\ r.final = c.final /\ r.revision = c.revision
                  /\ r.author = c.speaker /\ r.name = c.name /\ r.expires = c.expires
  <2>1. PICK c : c = scene.captions[i]
    OBVIOUS
  <2>2. c \in ToSet(scene.captions)
    BY <2>1 DEF ToSet
  <2>3. \A r \in ToSet(scene.conversation) : Agrees(c, r)
    BY <1>1, <1>8, <2>2 DEF RowsAgree
  <2>4. VoiceId(c.utterance, c.speaker) = <<"voice", c.utterance>>
    BY <1>8, <2>1 DEF VoiceId
  <2>5. OfUtterance(scene, c.utterance) = {i}
    BY <1>1, <1>8, <2>1 DEF ShownOnce, UniqueCaptions, OfUtterance
  <2> QED
    BY <1>8, <2>1, <2>3, <2>4, <2>5 DEF Agrees
<1>9. CaptionsAgree
  BY <1>8 DEF CaptionsAgree
<1> QED
  BY <1>5, <1>6, <1>7, <1>9 DEF ListsInv

\* It holds at the start.
LEMMA SceneStarts == Init => SceneInv
<1> SUFFICES ASSUME Init PROVE SceneInv
  OBVIOUS
<1>1. /\ display \in Displays /\ display.maxItems \in Nat /\ MaxGeneration \in Nat /\ MaxTime \in Nat
  BY SceneAssumption DEF Init
<1>2. scene = EmptyScene
  BY DEF Init
<1> QED
  BY <1>1, <1>2, EmptySound DEF Init, SceneInv

\* The invariant holds in every state.
THEOREM SceneIsSound == Spec => []SceneInv
<1>1. SceneInv /\ [Next]_vars => SceneInv'
  BY SceneStep
<1> QED
  BY <1>1, SceneStarts, PTL DEF Spec

\* The lists of the scene are typed and within their limits, no row of the
\* conversation is shown twice and no participant listed twice, whatever mix of
\* events, lists and speakers arrives (insertConversationLocked,
\* applyParticipantsLocked, applyActiveSpeakerLocked).
THEOREM SceneListsHold == Spec => []ListsInv
<1>1. SceneInv => ListsInv
  BY SceneInvGives
<1> QED
  BY <1>1, SceneIsSound, PTL

\* An utterance has one caption, and its row shows the same revision of the same
\* speaker: applyCaptionLocked replaces both, and refreshVoiceSpeakerIdentityLocked
\* names the speaker in both.
THEOREM CaptionsAlwaysAgree == Spec => []CaptionsAgree
<1>1. SceneInv => CaptionsAgree
  BY SceneInvGives
<1> QED
  BY <1>1, SceneIsSound, PTL

\* While a final caption lasts, only a higher revision of its utterance takes
\* its place (the early returns of applyCaptionLocked), whatever is pruned.
THEOREM FinalCaptionsStay == Spec => FinalCaptionStays
<1>1. SceneInv /\ [Next]_vars =>
        [\A c \in ToSet(scene.captions), d \in ToSet(scene'.captions) :
           /\ c.utterance # NoUtterance /\ c.utterance = d.utterance
           /\ c.final /\ c.expires > clock /\ stream' = stream /\ generation' = generation
           => d.final /\ d.revision >= c.revision
              /\ (d.revision = c.revision => d.expires = c.expires)]_vars
  <2> SUFFICES ASSUME SceneInv, [Next]_vars
               PROVE  \A c \in ToSet(scene.captions), d \in ToSet(scene'.captions) :
                        /\ c.utterance # NoUtterance /\ c.utterance = d.utterance
                        /\ c.final /\ c.expires > clock /\ stream' = stream /\ generation' = generation
                        => d.final /\ d.revision >= c.revision
                           /\ (d.revision = c.revision => d.expires = c.expires)
    OBVIOUS
  <2>1. FinalKept(scene, scene', clock)
    BY SceneStep
  <2> QED
    BY <2>1 DEF FinalKept
<1> QED
  BY <1>1, SceneIsSound, PTL DEF Spec, FinalCaptionStays
-----------------------------------------------------------------------------
(* CaptionPipeline: the speech.                                             *)

Utter == [seq : 0..MaxSeq, id : 0..MaxSeq, text : Texts \cup {NoText}, revision : 0..MaxRevision]
Spoken == [link : 0..MaxLinks, id : 0..MaxSeq, revision : 0..MaxRevision, final : BOOLEAN]

\* Types.
SpeechTypes ==
  /\ current \in [link : 0..MaxLinks, up : BOOLEAN]
  /\ utter \in Utter /\ results \in Seq(Result) /\ waiting \in [Links -> Spoken]

\* An utterance has the id of its number and a text, or there is none.
UtterOf(u) ==
  /\ u.id \in {0, u.seq}
  /\ u.id = 0 => u.text = NoText /\ u.revision = 0
  /\ u.id # 0 => u.text # NoText /\ u.revision < MaxRevision

UtterInv == (current.up => current.link \in Links) /\ UtterOf(utter)

\* What is held back is a transcript of a connection that was made.
HeldInv ==
  \A l \in Links : waiting[l] # NoTranscript =>
    waiting[l].link = l /\ l <= current.link /\ waiting[l].id >= 1 /\ waiting[l].revision >= 1

\* The transcript t comes before what becomes of u, and before w.
PastIn(u, t) ==
  IF u.id = 0 THEN t.id <= u.seq
  ELSE t.id < u.id \/ (t.id = u.id /\ t.revision <= u.revision /\ ~t.final)

Precedes(t, w) == t.id < w.id \/ (t.id = w.id /\ t.revision < w.revision /\ ~t.final)

\* What is held back is of the utterance, or of an earlier one.
WaitPast ==
  current.link \in Links /\ waiting[current.link] # NoTranscript =>
    PastIn(utter, waiting[current.link])

SpeechInv == SpeechTypes /\ UtterInv /\ HeldInv /\ WaitPast

\* Whatever connection l still publishes comes after t.
Over(l, t) ==
  /\ l = current.link => PastIn(utter, t)
  /\ waiting[l] # NoTranscript => Precedes(t, waiting[l])

\* A step of the speech, or the end of a delay.
SpeechStep == SpeechNext \/ \E l \in Links : Publish(l)

\* The numbers of the model.
LEMMA SpeechBounds ==
  /\ MaxSeq \in Nat /\ MaxLinks \in Nat /\ MaxRevision \in Nat /\ Links = 1..MaxLinks
BY UtteranceAssumption DEF Links

\* u goes on with the utterance, or is a new one.
Continues(u) ==
  /\ u.id = u.seq /\ u.id # 0 /\ u.text \in Texts /\ u.revision + 1 <= MaxRevision
  /\ \/ utter.id = 0 /\ u.id = utter.seq + 1 /\ u.revision = 0
     \/ utter.id # 0 /\ u.id = utter.id /\ u.seq = utter.seq /\ u.revision = utter.revision

\* An interim transcript of u.
Interim(u) ==
  /\ u.revision + 1 < MaxRevision
  /\ HoldBack(Transcript(u, u.revision + 1, FALSE))
  /\ utter' = [u EXCEPT !.revision = @ + 1]

\* The utterance a text belongs to.
LEMMA BegunContinues ==
  ASSUME SpeechInv, NEW text \in Texts, utter.seq < MaxSeq \/ utter.id # 0,
         utter.revision + 1 <= MaxRevision
  PROVE  Begun(text) \in Utter /\ Continues(Begun(text))
<1>1. utter \in Utter /\ utter.id \in {0, utter.seq} /\ (utter.id = 0 => utter.revision = 0)
  BY DEF SpeechInv, SpeechTypes, UtterInv, UtterOf
<1>2. CASE utter.id # 0
  <2>1. Begun(text) = [utter EXCEPT !.text = text]
    BY <1>2 DEF Begun
  <2> QED
    BY <1>1, <1>2, <2>1 DEF Utter, Continues
<1>3. CASE utter.id = 0
  <2>1. Begun(text) = [utter EXCEPT !.seq = utter.seq + 1, !.id = utter.seq + 1, !.text = text]
    BY <1>1, <1>3 DEF Begun, Utter
  <2>2. utter.seq + 1 \in 1..MaxSeq
    BY <1>1, <1>3, SpeechBounds DEF Utter
  <2>3. PICK n \in 1..MaxSeq : n = utter.seq + 1
    BY <2>2
  <2>4. Begun(text) = [seq |-> n, id |-> n, text |-> text, revision |-> 0]
    BY <1>1, <1>3, <2>1, <2>3 DEF Utter
  <2>5. Begun(text) \in Utter
    BY <2>3, <2>4, SpeechBounds DEF Utter
  <2>6. 0 + 1 <= MaxRevision
    BY <1>1, <1>3, SpeechBounds
  <2>7. n # 0
    BY <2>3
  <2>8. Continues(Begun(text))
    BY <1>3, <2>3, <2>4, <2>6, <2>7 DEF Continues
  <2> QED
    BY <2>5, <2>8
<1> QED
  BY <1>2, <1>3

\* The utterance itself goes on.
LEMMA UtterContinues ==
  ASSUME SpeechInv, utter.text # NoText
  PROVE  utter \in Utter /\ Continues(utter)
<1>1. /\ utter \in Utter /\ utter.id \in {0, utter.seq}
      /\ utter.id = 0 => utter.text = NoText
      /\ utter.id # 0 => utter.revision < MaxRevision
  BY DEF SpeechInv, SpeechTypes, UtterInv, UtterOf
<1>2. utter.id # 0 /\ utter.revision < MaxRevision
  BY <1>1
<1>3. utter.text \in Texts /\ utter.revision \in Nat
  BY <1>1 DEF Utter
<1> QED
  BY <1>1, <1>2, <1>3, SpeechBounds DEF Continues

\* What applying a result, or a local finalization, does.
LEMMA Said ==
  ASSUME SpeechInv, ApplyResult \/ FinalizeLocally
  PROVE  /\ Ready /\ current' = current /\ results' \in Seq(Result)
         /\ \/ utter' = utter /\ waiting' = waiting
            \/ \E u \in Utter : Continues(u) /\ (Finalize(u) \/ Interim(u))
<1>1. utter \in Utter /\ results \in Seq(Result)
  BY DEF SpeechInv, SpeechTypes
<1>2. CASE FinalizeLocally
  <2>1. Ready /\ current' = current /\ results' = results /\ utter.text # NoText /\ Finalize(utter)
    BY <1>2 DEF FinalizeLocally
  <2> QED
    BY <1>1, <2>1, UtterContinues
<1>3. CASE ApplyResult
  <2>1. /\ Ready /\ results # <<>> /\ current' = current /\ results' = Tail(results)
        /\ utter.seq < MaxSeq \/ utter.id # 0
        /\ utter.revision + 1 < MaxRevision
    BY <1>3 DEF ApplyResult
  <2>2. results' \in Seq(Result)
    BY <1>1, <2>1
  <2>3. PICK r : r = Head(results)
    OBVIOUS
  <2>4. r \in Result
    BY <1>1, <2>1, <2>3
  <2>5. PICK u : u = Begun(r.text)
    OBVIOUS
  <2>6. IF r.end
        THEN IF utter.text = NoText THEN utter' = utter /\ waiting' = waiting ELSE Finalize(utter)
        ELSE IF r.final THEN Finalize(u)
        ELSE IF r.text = utter.text THEN utter' = u /\ waiting' = waiting
        ELSE /\ utter' = [u EXCEPT !.revision = @ + 1]
             /\ HoldBack(Transcript(u, u.revision + 1, FALSE))
    BY <1>3, <2>3, <2>5 DEF ApplyResult
  <2>7. utter.revision + 1 <= MaxRevision /\ utter.revision \in Nat
    BY <1>1, <2>1, SpeechBounds DEF Utter
  <2>8. CASE r.end
    <3>1. CASE utter.text = NoText
      BY <2>1, <2>2, <2>6, <2>8, <3>1
    <3>2. CASE utter.text # NoText
      BY <2>1, <2>2, <2>6, <2>8, <3>2, UtterContinues
    <3> QED
      BY <3>1, <3>2
  <2>9. CASE ~r.end
    <3>1. r.text \in Texts
      BY <2>4, <2>9 DEF Result
    <3>2. u \in Utter /\ Continues(u)
      BY <2>1, <2>5, <2>7, <3>1, BegunContinues
    <3>3. CASE r.final
      BY <2>1, <2>2, <2>6, <2>9, <3>2, <3>3
    <3>4. CASE ~r.final /\ r.text = utter.text
      <4>1. utter' = u /\ waiting' = waiting
        BY <2>6, <2>9, <3>4
      <4>2. utter.text # NoText
        BY <3>1, <3>4, UtteranceAssumption
      <4>3. utter.id # 0
        BY <4>2 DEF SpeechInv, UtterInv, UtterOf
      <4>4. u = [utter EXCEPT !.text = utter.text]
        BY <2>5, <3>4, <4>3 DEF Begun
      <4>5. u = utter
        BY <1>1, <4>4 DEF Utter
      <4> QED
        BY <2>1, <2>2, <4>1, <4>5
    <3>5. CASE ~r.final /\ r.text # utter.text
      <4>1. /\ utter' = [u EXCEPT !.revision = @ + 1]
            /\ HoldBack(Transcript(u, u.revision + 1, FALSE))
        BY <2>6, <2>9, <3>5
      <4>2. u.revision + 1 < MaxRevision
        <5>1. u.revision = utter.revision \/ u.revision = 0
          BY <3>2 DEF Continues
        <5> QED
          BY <2>1, <2>7, <5>1, SpeechBounds
      <4>3. Interim(u)
        BY <4>1, <4>2 DEF Interim
      <4> QED
        BY <2>1, <2>2, <3>2, <4>3
    <3> QED
      BY <3>3, <3>4, <3>5
  <2> QED
    BY <2>8, <2>9
<1> QED
  BY <1>2, <1>3

\* What a transcript may be compared with.
Comparable(t) == t.id \in Nat /\ t.revision \in Nat /\ t.final \in BOOLEAN

\* The text of u is published, or will be, after what is past in the utterance.
LEMMA ContinuesPast ==
  ASSUME SpeechInv, NEW u \in Utter, Continues(u), NEW t, Comparable(t), PastIn(utter, t)
  PROVE  /\ t.id <= u.seq
         /\ t.id < u.id \/ (t.id = u.id /\ t.revision <= u.revision /\ ~t.final)
<1>1. /\ utter.seq \in Nat /\ utter.id \in Nat /\ utter.revision \in Nat
      /\ utter.id \in {0, utter.seq} /\ u.seq \in Nat /\ u.id \in Nat /\ u.revision \in Nat
  BY SpeechBounds DEF SpeechInv, SpeechTypes, UtterInv, UtterOf, Utter
<1>2. CASE utter.id = 0
  BY <1>1, <1>2 DEF PastIn, Continues, Comparable
<1>3. CASE utter.id # 0
  BY <1>1, <1>3 DEF PastIn, Continues, Comparable
<1> QED
  BY <1>2, <1>3

\* What finalizing u, or an interim transcript of it, makes of it.
LEMMA SaidOf ==
  ASSUME SpeechInv, Ready, NEW u \in Utter, Continues(u), Finalize(u) \/ Interim(u)
  PROVE  /\ current.link \in Links /\ utter' \in Utter /\ UtterOf(utter')
         /\ \E w \in Spoken :
              /\ waiting' = [waiting EXCEPT ![current.link] = w]
              /\ w.link = current.link /\ w.id = u.id /\ w.id >= 1 /\ w.revision = u.revision + 1
              /\ \/ utter'.id = 0 /\ utter'.seq = u.id
                 \/ utter'.id = u.id /\ utter'.revision = w.revision /\ ~w.final
<1>1. /\ u.seq \in 0..MaxSeq /\ u.id \in 0..MaxSeq
      /\ u.text \in Texts /\ u.revision \in 0..MaxRevision
      /\ u.id = u.seq /\ u.id # 0 /\ u.revision + 1 <= MaxRevision
      /\ MaxSeq \in Nat /\ MaxLinks \in Nat /\ MaxRevision \in Nat /\ Links = 1..MaxLinks
  BY SpeechBounds DEF Utter, Continues
<1>2. current.link \in Links
  BY DEF Ready, SpeechInv, UtterInv
<1>3. PICK r : r = u.revision + 1
  OBVIOUS
<1>4. r \in 0..MaxRevision /\ r >= 1 /\ u.id >= 1
  BY <1>1, <1>3
<1>5. CASE Finalize(u)
  <2>1. PICK w : w = [link |-> current.link, id |-> u.id, revision |-> r, final |-> TRUE]
    OBVIOUS
  <2>2. waiting' = [waiting EXCEPT ![current.link] = w]
    BY <1>3, <1>5, <2>1 DEF Finalize, HoldBack, Transcript, FinalRevision
  <2>3. w \in Spoken
    BY <1>1, <1>2, <1>4, <2>1 DEF Spoken
  <2>4. utter' = [seq |-> u.seq, id |-> 0, text |-> NoText, revision |-> 0]
    BY <1>5 DEF Finalize, ResetUtterance, Utter
  <2>5. utter' \in Utter
    BY <1>1, <2>4 DEF Utter
  <2>6. UtterOf(utter') /\ utter'.id = 0 /\ utter'.seq = u.id
    BY <1>1, <2>4 DEF UtterOf
  <2> QED
    BY <1>2, <1>3, <1>4, <2>1, <2>2, <2>3, <2>5, <2>6
<1>6. CASE Interim(u)
  <2>1. PICK w : w = [link |-> current.link, id |-> u.id, revision |-> r, final |-> FALSE]
    OBVIOUS
  <2>2. waiting' = [waiting EXCEPT ![current.link] = w]
    BY <1>3, <1>6, <2>1 DEF Interim, HoldBack, Transcript
  <2>3. w \in Spoken
    BY <1>1, <1>2, <1>4, <2>1 DEF Spoken
  <2>4. utter' = [seq |-> u.seq, id |-> u.id, text |-> u.text, revision |-> r]
    BY <1>3, <1>6 DEF Interim, Utter
  <2>5. utter' \in Utter
    BY <1>1, <1>4, <2>4 DEF Utter
  <2>6. r < MaxRevision /\ u.text # NoText
    BY <1>1, <1>3, <1>6, UtteranceAssumption DEF Interim
  <2>7. UtterOf(utter') /\ utter'.id = u.id /\ utter'.revision = r
    BY <1>1, <2>4, <2>6 DEF UtterOf
  <2> QED
    BY <1>2, <1>3, <1>4, <2>1, <2>2, <2>3, <2>5, <2>7
<1> QED
  BY <1>5, <1>6

\* No step of the speech breaks its invariant.
LEMMA SpeechKept ==
  ASSUME SpeechInv, SpeechStep \/ UNCHANGED speechVars
  PROVE  SpeechInv'
<1>1. /\ current \in [link : 0..MaxLinks, up : BOOLEAN] /\ utter \in Utter
      /\ results \in Seq(Result) /\ waiting \in [Links -> Spoken] /\ UtterOf(utter)
      /\ current.up => current.link \in Links
      /\ MaxSeq \in Nat /\ MaxLinks \in Nat /\ MaxRevision \in Nat /\ Links = 1..MaxLinks
  BY SpeechBounds DEF SpeechInv, SpeechTypes, UtterInv, UtterOf
<1>2. CASE Connect
  <2>1. PICK n : n = current.link + 1
    OBVIOUS
  <2>2. n \in Links /\ n > current.link
    BY <1>1, <1>2, <2>1 DEF Connect
  <2>3. /\ current' = [link |-> n, up |-> TRUE] /\ utter' = NoUtter /\ results' = <<>>
        /\ waiting' = waiting
    BY <1>2, <2>1 DEF Connect
  <2>4. NoUtter \in Utter /\ UtterOf(NoUtter)
    BY <1>1 DEF NoUtter, Utter, UtterOf
  <2>5. SpeechTypes' /\ UtterInv'
    BY <1>1, <2>2, <2>3, <2>4 DEF SpeechTypes, UtterInv, UtterOf
  <2>6. HeldInv'
    <3> SUFFICES ASSUME NEW l \in Links, waiting[l] # NoTranscript
                 PROVE  /\ waiting[l].link = l /\ l <= n
                        /\ waiting[l].id >= 1 /\ waiting[l].revision >= 1
      BY <2>3 DEF HeldInv
    <3>1. /\ waiting[l].link = l /\ l <= current.link
          /\ waiting[l].id >= 1 /\ waiting[l].revision >= 1
      BY DEF SpeechInv, HeldInv
    <3> QED
      BY <1>1, <2>2, <3>1
  <2>7. waiting[n] = NoTranscript
    <3>1. waiting[n] # NoTranscript => n <= current.link
      BY <2>2 DEF SpeechInv, HeldInv
    <3> QED
      BY <1>1, <2>2, <3>1
  <2>8. WaitPast'
    BY <2>3, <2>7 DEF WaitPast
  <2> QED
    BY <2>5, <2>6, <2>8 DEF SpeechInv
<1>3. CASE Disconnect
  <2>1. /\ current' = [link |-> current.link, up |-> FALSE]
        /\ utter' = utter /\ results' = results /\ waiting' = waiting
    BY <1>1, <1>3 DEF Disconnect
  <2> QED
    BY <1>1, <2>1 DEF SpeechInv, SpeechTypes, UtterInv, HeldInv, WaitPast
<1>4. ASSUME NEW result \in Result, Receive(result)
      PROVE  SpeechInv'
  <2>1. current' = current /\ utter' = utter /\ waiting' = waiting /\ results' \in Seq(Result)
    BY <1>1, <1>4 DEF Receive
  <2> QED
    BY <1>1, <2>1 DEF SpeechInv, SpeechTypes, UtterInv, HeldInv, WaitPast
<1>5. CASE ApplyResult \/ FinalizeLocally
  <2>1. /\ Ready /\ current' = current /\ results' \in Seq(Result)
        /\ \/ utter' = utter /\ waiting' = waiting
           \/ \E u \in Utter : Continues(u) /\ (Finalize(u) \/ Interim(u))
    BY <1>5, Said
  <2>2. CASE utter' = utter /\ waiting' = waiting
    BY <1>1, <2>1, <2>2 DEF SpeechInv, SpeechTypes, UtterInv, HeldInv, WaitPast
  <2>3. CASE \E u \in Utter : Continues(u) /\ (Finalize(u) \/ Interim(u))
    <3>1. PICK u \in Utter : Continues(u) /\ (Finalize(u) \/ Interim(u))
      BY <2>3
    <3>2. current.link \in Links /\ utter' \in Utter /\ UtterOf(utter')
      BY <2>1, <3>1, SaidOf
    <3>3. PICK w \in Spoken :
            /\ waiting' = [waiting EXCEPT ![current.link] = w]
            /\ w.link = current.link /\ w.id = u.id /\ w.id >= 1 /\ w.revision = u.revision + 1
            /\ \/ utter'.id = 0 /\ utter'.seq = u.id
               \/ utter'.id = u.id /\ utter'.revision = w.revision /\ ~w.final
      BY <2>1, <3>1, SaidOf
    <3>4. SpeechTypes' /\ UtterInv'
      BY <1>1, <2>1, <3>2, <3>3 DEF SpeechTypes, UtterInv, UtterOf
    <3>5. u.revision \in Nat /\ u.id \in Nat
      BY <1>1 DEF Utter
    <3>6. HeldInv'
      <4> SUFFICES ASSUME NEW l \in Links, waiting'[l] # NoTranscript
                   PROVE  /\ waiting'[l].link = l /\ l <= current.link
                          /\ waiting'[l].id >= 1 /\ waiting'[l].revision >= 1
        BY <2>1 DEF HeldInv
      <4>1. CASE l = current.link
        BY <1>1, <3>2, <3>3, <3>5, <4>1
      <4>2. CASE l # current.link
        <5>1. waiting'[l] = waiting[l]
          BY <1>1, <3>3, <4>2
        <5> QED
          BY <5>1 DEF SpeechInv, HeldInv
      <4> QED
        BY <4>1, <4>2
    <3>7. waiting'[current.link] = w
      BY <1>1, <3>2, <3>3
    <3>8. PastIn(utter, w)'
      BY <3>3, <3>5 DEF PastIn
    <3>9. WaitPast'
      BY <2>1, <3>7, <3>8 DEF WaitPast, PastIn
    <3> QED
      BY <3>4, <3>6, <3>9 DEF SpeechInv
  <2> QED
    BY <2>1, <2>2, <2>3
<1>6. ASSUME NEW l \in Links, Publish(l)
      PROVE  SpeechInv'
  <2>1. /\ current' = current /\ utter' = utter /\ results' = results
        /\ waiting' = [waiting EXCEPT ![l] = NoTranscript]
    BY <1>6 DEF Publish
  <2>2. NoTranscript \in Spoken
    BY <1>1 DEF NoTranscript, Spoken
  <2>3. SpeechTypes' /\ UtterInv'
    BY <1>1, <2>1, <2>2 DEF SpeechTypes, UtterInv, UtterOf
  <2>4. \A k \in Links : waiting'[k] # NoTranscript => waiting'[k] = waiting[k]
    BY <1>1, <2>1
  <2>5. HeldInv'
    BY <2>1, <2>4 DEF SpeechInv, HeldInv
  <2>6. WaitPast'
    BY <2>1, <2>4 DEF SpeechInv, WaitPast
  <2> QED
    BY <2>3, <2>5, <2>6 DEF SpeechInv
<1>7. CASE UNCHANGED speechVars
  BY <1>1, <1>7 DEF speechVars, SpeechInv, SpeechTypes, UtterInv, HeldInv, WaitPast
<1> QED
  BY <1>2, <1>3, <1>4, <1>5, <1>6, <1>7 DEF SpeechStep, SpeechNext, GiveUp

\* What comes after t once comes after it as long as the connection lasts.
LEMMA OverKept ==
  ASSUME SpeechInv, SpeechStep \/ UNCHANGED speechVars,
         NEW l \in Links, l <= current.link, NEW t, Comparable(t), Over(l, t)
  PROVE  Over(l, t)'
<1>1. /\ current \in [link : 0..MaxLinks, up : BOOLEAN] /\ utter \in Utter
      /\ waiting \in [Links -> Spoken]
      /\ MaxSeq \in Nat /\ MaxLinks \in Nat /\ MaxRevision \in Nat /\ Links = 1..MaxLinks
  BY SpeechBounds DEF SpeechInv, SpeechTypes, UtterInv
<1>2. CASE Connect
  <2>1. current'.link = current.link + 1 /\ waiting' = waiting
    BY <1>2 DEF Connect
  <2>2. l # current.link + 1
    BY <1>1
  <2> QED
    BY <2>1, <2>2 DEF Over
<1>3. CASE current'.link = current.link /\ utter' = utter /\ waiting' = waiting
  BY <1>3 DEF Over, PastIn
<1>4. CASE ApplyResult \/ FinalizeLocally
  <2>1. /\ Ready /\ current' = current
        /\ \/ utter' = utter /\ waiting' = waiting
           \/ \E u \in Utter : Continues(u) /\ (Finalize(u) \/ Interim(u))
    BY <1>4, Said
  <2>2. CASE utter' = utter /\ waiting' = waiting
    BY <1>3, <2>1, <2>2
  <2>3. CASE \E u \in Utter : Continues(u) /\ (Finalize(u) \/ Interim(u))
    <3>1. PICK u \in Utter : Continues(u) /\ (Finalize(u) \/ Interim(u))
      BY <2>3
    <3>2. current.link \in Links
      BY <2>1, <3>1, SaidOf
    <3>3. PICK w \in Spoken :
            /\ waiting' = [waiting EXCEPT ![current.link] = w]
            /\ w.link = current.link /\ w.id = u.id /\ w.id >= 1 /\ w.revision = u.revision + 1
            /\ \/ utter'.id = 0 /\ utter'.seq = u.id
               \/ utter'.id = u.id /\ utter'.revision = w.revision /\ ~w.final
      BY <2>1, <3>1, SaidOf
    <3>4. CASE l # current.link
      <4>1. waiting'[l] = waiting[l]
        BY <1>1, <3>3, <3>4
      <4> QED
        BY <2>1, <3>4, <4>1 DEF Over
    <3>5. CASE l = current.link
      <4>1. /\ t.id <= u.seq
            /\ t.id < u.id \/ (t.id = u.id /\ t.revision <= u.revision /\ ~t.final)
        BY <3>1, <3>5, ContinuesPast DEF Over
      <4>2. u.seq = u.id /\ u.id \in Nat /\ u.id # 0 /\ u.revision \in Nat
        BY <1>1, <3>1 DEF Continues, Utter
      <4>3. waiting'[l] = w
        BY <1>1, <3>2, <3>3, <3>5
      <4>4. Precedes(t, w)
        BY <3>3, <4>1, <4>2 DEF Precedes, Comparable
      <4>5. PastIn(utter', t)
        BY <3>3, <4>1, <4>2 DEF PastIn, Comparable
      <4> QED
        BY <4>3, <4>4, <4>5 DEF Over, PastIn
    <3> QED
      BY <3>4, <3>5
  <2> QED
    BY <2>1, <2>2, <2>3
<1>5. ASSUME NEW k \in Links, Publish(k)
      PROVE  Over(l, t)'
  <2>1. /\ current' = current /\ utter' = utter
        /\ waiting' = [waiting EXCEPT ![k] = NoTranscript]
    BY <1>5 DEF Publish
  <2>2. waiting'[l] # NoTranscript => waiting'[l] = waiting[l]
    BY <1>1, <2>1
  <2> QED
    BY <2>1, <2>2 DEF Over, PastIn
<1>6. Disconnect => current'.link = current.link /\ utter' = utter /\ waiting' = waiting
  BY <1>1 DEF Disconnect
<1> QED
  BY <1>2, <1>3, <1>4, <1>5, <1>6 DEF SpeechStep, SpeechNext, GiveUp, Receive, speechVars

\* Whatever the connection of a transcript publishes later comes after it.
LEMMA PublishedOver ==
  ASSUME SpeechInv, NEW l \in Links, Publish(l)
  PROVE  LET t == waiting[l] IN
         /\ t \in Spoken /\ t.link = l /\ l <= current.link /\ t.id \in 1..MaxSeq
         /\ t.revision \in 1..MaxRevision /\ Comparable(t)
         /\ (l = current'.link => PastIn(utter', t)) /\ waiting'[l] = NoTranscript
<1> DEFINE t == waiting[l]
<1>1. t \in Spoken /\ waiting \in [Links -> Spoken]
  BY DEF SpeechInv, SpeechTypes
<1>2. /\ t # NoTranscript /\ current' = current /\ utter' = utter
      /\ waiting' = [waiting EXCEPT ![l] = NoTranscript]
  BY DEF Publish
<1>3. t.link = l /\ l <= current.link /\ t.id >= 1 /\ t.revision >= 1
  BY <1>2 DEF SpeechInv, HeldInv
<1>4. t.id \in 1..MaxSeq /\ t.revision \in 1..MaxRevision /\ Comparable(t)
  BY <1>1, <1>3, SpeechBounds DEF Spoken, Comparable
<1>5. l = current.link => PastIn(utter, t)
  BY <1>2 DEF SpeechInv, WaitPast
<1> QED
  BY <1>1, <1>2, <1>3, <1>4, <1>5
-----------------------------------------------------------------------------
(* CaptionPipeline: the transcripts in the scene.                           *)

\* Types, and what is published was spoken on a connection that was made.
PublishedInv ==
  /\ last \in Spoken /\ last.link <= current.link
  /\ shown \in [Utterances -> 0..MaxLinks]
  /\ \A id \in Utterances : shown[id] <= current.link

\* The transcripts of a connection are published in order.
OrderInv == last.link \in Links => Over(last.link, last)

\* What is compared of the caption of utterance id.
AsTranscript(id, c) == [id |-> id, revision |-> c.revision, final |-> c.final]

\* The connection that made a caption goes on from there.
CaptionInv ==
  \A id \in 1..MaxSeq, c \in ToSet(scene.captions) :
    c.utterance = id /\ shown[id] \in Links => Over(shown[id], AsTranscript(id, c))

PipeInv == SceneInv /\ SpeechInv /\ PublishedInv /\ OrderInv /\ CaptionInv

\* The bounds of the two parts fit.
LEMMA PipelineBounds ==
  /\ 1..MaxSeq \subseteq Utterances \ {NoUtterance} /\ 1..MaxRevision \subseteq Revisions
  /\ 1..MaxSeq \subseteq Nat /\ Revisions \subseteq Nat /\ Links \subseteq 0..MaxLinks
  /\ TheSpeaker \in Users /\ TheStream \in Streams
BY PipelineAssumption, SceneAssumption, SpeechBounds

\* A caption of the scene can be compared.
LEMMA CaptionCompares ==
  ASSUME SceneInv, NEW id \in 1..MaxSeq, NEW c \in ToSet(scene.captions)
  PROVE  Comparable(AsTranscript(id, c)) /\ c.revision \in Nat /\ c.final \in BOOLEAN
<1>1. ToSet(scene.captions) \subseteq Caption
  BY Fields, RangeFinite DEF SceneInv, Sound
<1>2. c.revision \in Nat /\ c.final \in BOOLEAN /\ id \in Nat
  BY <1>1, PipelineBounds DEF Caption
<1> QED
  BY <1>2 DEF Comparable, AsTranscript

\* Connections are numbered as they are made.
LEMMA LinkGrows ==
  ASSUME SpeechInv, SpeechStep \/ UNCHANGED speechVars
  PROVE  current.link \in Nat /\ current'.link \in Nat /\ current.link <= current'.link
<1>1. current \in [link : 0..MaxLinks, up : BOOLEAN] /\ MaxLinks \in Nat
  BY SpeechBounds DEF SpeechInv, SpeechTypes
<1>2. CASE Connect
  BY <1>1, <1>2 DEF Connect
<1>3. CASE current' = current \/ Disconnect
  BY <1>1, <1>3 DEF Disconnect
<1>4. CASE ApplyResult \/ FinalizeLocally
  BY <1>1, <1>3, <1>4 DEF ApplyResult, FinalizeLocally
<1> QED
  BY <1>2, <1>3, <1>4 DEF SpeechStep, SpeechNext, GiveUp, Publish, Receive, speechVars

\* The last transcript stays the last, or gives way to one published now.
LEMMA OrderKept ==
  ASSUME SpeechInv, PublishedInv, OrderInv, SpeechStep \/ UNCHANGED speechVars,
         last' = last \/ \E l \in Links : Publish(l) /\ last' = waiting[l]
  PROVE  OrderInv' /\ last' \in Spoken /\ last'.link <= current'.link
<1>1. current.link \in Nat /\ current'.link \in Nat /\ current.link <= current'.link
  BY LinkGrows
<1>2. CASE last' = last
  <2>1. PICK t : t = last
    OBVIOUS
  <2>2. t \in Spoken /\ t.link <= current.link
    BY <2>1 DEF PublishedInv
  <2>3. t.link \in Nat /\ Comparable(t)
    BY <2>2, SpeechBounds DEF Spoken, Comparable
  <2>4. t.link \in Links => Over(t.link, t)'
    <3> SUFFICES ASSUME t.link \in Links
                 PROVE  Over(t.link, t)'
      OBVIOUS
    <3>1. PICK l \in Links : l = t.link
      OBVIOUS
    <3>2. Over(l, t)'
      BY <2>1, <2>2, <2>3, <3>1, OverKept DEF OrderInv
    <3> QED
      BY <3>1, <3>2
  <2>5. OrderInv'
    BY <1>2, <2>1, <2>4 DEF OrderInv, Over, PastIn
  <2> QED
    BY <1>1, <1>2, <2>1, <2>2, <2>3, <2>5
<1>3. ASSUME NEW l \in Links, Publish(l), last' = waiting[l]
      PROVE  OrderInv' /\ last' \in Spoken /\ last'.link <= current'.link
  <2>1. /\ last' \in Spoken /\ last'.link = l /\ l <= current.link
        /\ (l = current'.link => PastIn(utter', last')) /\ waiting'[l] = NoTranscript
    BY <1>3, PublishedOver
  <2>2. OrderInv'
    BY <2>1 DEF OrderInv, Over, PastIn
  <2>3. l \in Nat
    BY SpeechBounds
  <2> QED
    BY <1>1, <2>1, <2>2, <2>3
<1> QED
  BY <1>2, <1>3

\* A caption that stays in the scene keeps its connection.
LEMMA CaptionStaysOver ==
  ASSUME SceneInv, SpeechInv, PublishedInv, CaptionInv, SpeechStep \/ UNCHANGED speechVars,
         NEW id \in 1..MaxSeq, NEW c \in ToSet(scene.captions), c.utterance = id, shown[id] \in Links
  PROVE  Over(shown[id], AsTranscript(id, c))'
         \/ shown'[id] # shown[id]
<1>1. PICK l \in Links : l = shown[id]
  OBVIOUS
<1>2. PICK t : t = AsTranscript(id, c)
  OBVIOUS
<1>3. Comparable(t) /\ Over(l, t)
  BY <1>1, <1>2, CaptionCompares DEF CaptionInv
<1>4. l <= current.link
  BY <1>1, PipelineBounds DEF PublishedInv
<1>5. Over(l, t)'
  BY <1>3, <1>4, OverKept
<1>6. t = AsTranscript(id, c)'
  BY <1>2 DEF AsTranscript
<1> QED
  BY <1>1, <1>2, <1>5, <1>6 DEF Over, PastIn, AsTranscript

\* No caption is added.
LEMMA CaptionsStayOver ==
  ASSUME SceneInv, SpeechInv, PublishedInv, CaptionInv, SpeechStep \/ UNCHANGED speechVars,
         ToSet(scene'.captions) \subseteq ToSet(scene.captions), shown' = shown
  PROVE  CaptionInv'
<1> SUFFICES ASSUME NEW id \in 1..MaxSeq, NEW c \in ToSet(scene'.captions), c.utterance = id,
                    shown'[id] \in Links
             PROVE  Over(shown[id], AsTranscript(id, c))'
  BY DEF CaptionInv
<1>1. c \in ToSet(scene.captions) /\ shown[id] \in Links /\ shown'[id] = shown[id]
  OBVIOUS
<1> QED
  BY <1>1, CaptionStaysOver

\* The captions that pruning leaves.
LEMMA PrunedCaptions ==
  ASSUME SceneInv, NEW now, NEW p \in Pruned(scene, now)
  PROVE  LET q == scene.captions P == Lasting(q, now) IN
         /\ q \in Seq(Caption) /\ P \in SUBSET (1..Len(q)) /\ DOMAIN q = 1..Len(q)
         /\ p.captions = Only(q, P) /\ p.captions \in Seq(Caption)
         /\ \A i \in 1..Len(p.captions) : Place(P, i) \in P /\ p.captions[i] = q[Place(P, i)]
         /\ \A k \in P : Rank(P, k) \in 1..Len(p.captions) /\ p.captions[Rank(P, k)] = q[k]
<1>1. scene \in SceneType
  BY DEF SceneInv, Sound
<1>2. PICK ids \in Remembered(scene.seen, now) :
        p = [scene EXCEPT !.chat = Only(@, Fresh(@, now)),
                          !.captions = Only(@, Lasting(@, now)),
                          !.conversation = Only(@, Fresh(@, now)),
                          !.seen = [id \in ids |-> @[id]]]
  BY DEF Pruned
<1>3. PICK q : q = scene.captions
  OBVIOUS
<1>4. PICK P : P = Lasting(q, now)
  OBVIOUS
<1>5. p.captions = Only(q, P)
  BY <1>1, <1>2, <1>3, <1>4 DEF SceneType
<1>6. q \in Seq(Caption) /\ P \in SUBSET (1..Len(q)) /\ DOMAIN q = 1..Len(q)
  BY <1>1, <1>3, <1>4, Fields DEF Lasting
<1>7. LET o == Only(q, P) IN
      /\ o \in Seq(Caption) /\ Len(o) = Cardinality(P) /\ Len(o) <= Len(q)
      /\ \A i \in 1..Len(o) : Place(P, i) \in P /\ o[i] = q[Place(P, i)]
      /\ \A i, j \in 1..Len(o) : Place(P, i) = Place(P, j) => i = j
      /\ \A k \in P : Rank(P, k) \in 1..Len(o) /\ o[Rank(P, k)] = q[k]
  BY <1>6, OnlyParts
<1> QED
  BY <1>3, <1>4, <1>5, <1>6, <1>7

\* Pruning adds none.
LEMMA PrunedSubset ==
  ASSUME SceneInv, NEW now, NEW p \in Pruned(scene, now)
  PROVE  \A c \in ToSet(p.captions) : c \in ToSet(scene.captions)
<1>1. PICK q : q = scene.captions
  OBVIOUS
<1>2. PICK P : P = Lasting(q, now)
  OBVIOUS
<1>3. /\ P \in SUBSET (1..Len(q)) /\ DOMAIN q = 1..Len(q)
      /\ p.captions \in Seq(Caption)
      /\ \A i \in 1..Len(p.captions) : Place(P, i) \in P /\ p.captions[i] = q[Place(P, i)]
  BY <1>1, <1>2, PrunedCaptions
<1>4. PICK r : r = p.captions
  OBVIOUS
<1>5. ASSUME NEW c \in ToSet(r)
      PROVE  c \in ToSet(q)
  <2>1. PICK i \in DOMAIN r : c = r[i]
    BY DEF ToSet
  <2>2. DOMAIN r = 1..Len(r)
    BY <1>3, <1>4
  <2>3. PICK k \in P : c = q[k]
    <3>1. Place(P, i) \in P /\ r[i] = q[Place(P, i)]
      BY <1>3, <1>4, <2>1, <2>2
    <3> QED
      BY <2>1, <3>1
  <2> QED
    BY <1>3, <2>3 DEF ToSet
<1> QED
  BY <1>1, <1>4, <1>5

\* What the scene drops is a repetition of a caption that pruning leaves.
LEMMA DroppedOfPruned ==
  ASSUME SceneInv, NEW now, NEW p \in Pruned(scene, now), NEW t, t.id \in 1..MaxSeq
  PROVE  Dropped(t, now) <=>
           \E i \in OfUtterance(p, t.id) : Repeats(p.captions[i], t.revision, t.final)
<1>1. PICK q : q = scene.captions
  OBVIOUS
<1>2. PICK P : P = Lasting(q, now)
  OBVIOUS
<1>3. PICK r : r = p.captions
  OBVIOUS
<1>4. /\ P \in SUBSET (1..Len(q)) /\ DOMAIN q = 1..Len(q) /\ r \in Seq(Caption)
      /\ \A i \in 1..Len(r) : Place(P, i) \in P /\ r[i] = q[Place(P, i)]
      /\ \A k \in P : Rank(P, k) \in 1..Len(r) /\ r[Rank(P, k)] = q[k]
  BY <1>1, <1>2, <1>3, PrunedCaptions
<1>5. DOMAIN r = 1..Len(r) /\ t.id # NoUtterance
  BY <1>4, PipelineBounds
<1>6. ASSUME NEW i \in OfUtterance(scene, t.id), q[i].expires > now,
             Repeats(q[i], t.revision, t.final)
      PROVE  \E j \in OfUtterance(p, t.id) : Repeats(p.captions[j], t.revision, t.final)
  <2>1. i \in P /\ q[i].utterance = t.id
    BY <1>1, <1>2, <1>6 DEF OfUtterance, Lasting
  <2>2. PICK j \in 1..Len(r) : r[j] = q[i]
    BY <1>4, <2>1
  <2>3. j \in OfUtterance(p, t.id)
    BY <1>3, <1>5, <2>1, <2>2 DEF OfUtterance
  <2> QED
    BY <1>3, <1>6, <2>2, <2>3
<1>7. ASSUME NEW j \in OfUtterance(p, t.id), Repeats(p.captions[j], t.revision, t.final)
      PROVE  Dropped(t, now)
  <2>1. j \in 1..Len(r) /\ r[j].utterance = t.id /\ p.captions[j] = r[j]
    BY <1>3, <1>5, <1>7 DEF OfUtterance
  <2>2. PICK i \in P : r[j] = q[i]
    BY <1>4, <2>1
  <2>3. i \in OfUtterance(scene, t.id) /\ q[i].expires > now
    BY <1>1, <1>2, <1>4, <1>5, <2>1, <2>2 DEF OfUtterance, Lasting
  <2> QED
    BY <1>1, <1>7, <2>1, <2>2, <2>3 DEF Dropped
<1> QED
  BY <1>1, <1>6, <1>7 DEF Dropped

\* A transcript is applied to the scene.
LEMMA Delivered ==
  ASSUME PipeInv, NEW l \in Links, NEW now \in 0..clock, Deliver(l, now)
  PROVE  SceneInv' /\ PublishedInv' /\ OrderInv' /\ CaptionInv'
<1>1. PICK t : t = waiting[l]
  OBVIOUS
<1>2. /\ Publish(l) /\ last' = t
      /\ ApplyCaption(TheStream, generation, now, t.id, TheSpeaker, t.revision, t.final)
      /\ shown' = IF Dropped(t, now) THEN shown ELSE [shown EXCEPT ![t.id] = l]
  BY <1>1 DEF Deliver
<1>3. /\ t \in Spoken /\ t.link = l /\ l <= current.link /\ t.id \in 1..MaxSeq
      /\ t.revision \in 1..MaxRevision /\ Comparable(t)
      /\ (l = current'.link => PastIn(utter', t)) /\ waiting'[l] = NoTranscript
  BY <1>1, <1>2, PublishedOver DEF PipeInv
<1>4. PICK id \in 1..MaxSeq : id = t.id
  BY <1>3
<1>5. PICK revision \in Revisions : revision = t.revision
  BY <1>3, PipelineBounds
<1>6. PICK final \in BOOLEAN : final = t.final
  BY <1>3 DEF Comparable
<1>7. id \in Utterances /\ id # NoUtterance /\ TheSpeaker \in Users \cup {NoUser}
  BY PipelineBounds DEF PipeInv, SceneInv
<1>8. ApplyCaption(TheStream, generation, now, id, TheSpeaker, revision, final)
  BY <1>2, <1>4, <1>5, <1>6
<1>9. SceneInv'
  BY <1>7, <1>8, CaptionApplied DEF PipeInv
<1>10. SpeechStep
  BY <1>2 DEF SpeechStep
<1>11. OrderInv' /\ last' \in Spoken /\ last'.link <= current'.link
  BY <1>1, <1>2, <1>10, OrderKept DEF PipeInv
<1>12. current' = current
  BY <1>2 DEF Publish
<1>13. PublishedInv'
  <2>1. shown' \in [Utterances -> 0..MaxLinks]
    BY <1>2, <1>3, <1>4, <1>7, PipelineBounds DEF PipeInv, PublishedInv
  <2>2. \A u \in Utterances : shown'[u] <= current.link
    BY <1>2, <1>3, <1>4, <1>7 DEF PipeInv, PublishedInv
  <2> QED
    BY <1>11, <1>12, <2>1, <2>2 DEF PublishedInv
<1>14. PICK p \in Pruned(scene, now) :
         scene' = WithCaption(p, id, TheSpeaker, revision, final, now)
  BY <1>8 DEF ApplyCaption, Applied
<1>15. Takes(p, scene', id, revision, final)
  <2>1. Sound(p, display.maxItems)
    BY PrunedSound DEF PipeInv
  <2>2. display \in Displays /\ now \in Nat
    BY DEF PipeInv, SceneInv
  <2> QED
    BY <1>7, <1>14, <2>1, <2>2, CaptionShown
<1>16. /\ Dropped(t, now) <=> \E i \in OfUtterance(p, id) : Repeats(p.captions[i], revision, final)
       /\ \A c \in ToSet(p.captions) : c \in ToSet(scene.captions)
  BY <1>3, <1>4, <1>5, <1>6, DroppedOfPruned, PrunedSubset DEF PipeInv
<1>17. \A b \in ToSet(p.captions) : b.utterance = id =>
         \E i \in OfUtterance(p, id) : p.captions[i] = b
  BY <1>7 DEF ToSet, OfUtterance
<1>18. CaptionInv'
  <2> SUFFICES ASSUME NEW k \in 1..MaxSeq, NEW c \in ToSet(scene'.captions), c.utterance = k,
                      shown'[k] \in Links
               PROVE  (Over(shown[k], AsTranscript(k, c)))'
    BY DEF CaptionInv
  <2>1. k \in Utterances
    BY PipelineBounds
  <2>2. CASE c \in ToSet(p.captions) /\ shown'[k] = shown[k]
    <3>1. c \in ToSet(scene.captions) /\ shown[k] \in Links
      BY <1>16, <2>2
    <3> QED
      BY <1>10, <2>2, <3>1, CaptionStaysOver DEF PipeInv
  <2>3. CASE Dropped(t, now)
    <3>1. c \in ToSet(p.captions)
      BY <1>15, <1>16, <2>3 DEF Takes
    <3>2. shown'[k] = shown[k]
      BY <1>2, <2>3
    <3> QED
      BY <2>2, <3>1, <3>2
  <2>4. CASE ~Dropped(t, now) /\ k # id
    <3>1. c \in ToSet(p.captions)
      BY <1>15, <2>4 DEF Takes
    <3>2. shown'[k] = shown[k]
      BY <1>2, <1>4, <2>1, <2>4 DEF PipeInv, PublishedInv
    <3> QED
      BY <2>2, <3>1, <3>2
  <2>5. CASE ~Dropped(t, now) /\ k = id
    <3>1. c.revision = revision /\ c.final = final
      BY <1>15, <1>16, <1>17, <2>5 DEF Takes
    <3>2. shown'[k] = l
      BY <1>2, <1>4, <2>1, <2>5 DEF PipeInv, PublishedInv
    <3>3. PICK w : w = AsTranscript(k, c)
      OBVIOUS
    <3>4. w.id = t.id /\ w.revision = t.revision /\ w.final = t.final
      BY <1>4, <1>5, <1>6, <2>5, <3>1, <3>3 DEF AsTranscript
    <3>5. l = current'.link => PastIn(utter', w)
      BY <1>3, <3>4 DEF PastIn
    <3>6. w = AsTranscript(k, c)'
      BY <3>3 DEF AsTranscript
    <3> QED
      BY <1>3, <3>2, <3>3, <3>5 DEF Over, PastIn, AsTranscript
  <2> QED
    BY <2>3, <2>4, <2>5
<1> QED
  BY <1>9, <1>11, <1>13, <1>18

\* A transcript is refused.
LEMMA Refused ==
  ASSUME PipeInv, NEW l \in Links, DeliverRefused(l)
  PROVE  SceneInv' /\ PublishedInv' /\ OrderInv' /\ CaptionInv'
<1>1. Publish(l) /\ last' = waiting[l] /\ UNCHANGED <<vars, shown>>
  BY DEF DeliverRefused
<1>2. SpeechStep /\ current' = current
  BY <1>1 DEF SpeechStep, Publish
<1>3. SceneInv'
  <2>1. [Next]_vars
    BY <1>1
  <2> QED
    BY <2>1, SceneStep DEF PipeInv
<1>4. OrderInv' /\ last' \in Spoken /\ last'.link <= current'.link
  BY <1>1, <1>2, OrderKept DEF PipeInv
<1>5. PublishedInv'
  BY <1>1, <1>2, <1>4 DEF PipeInv, PublishedInv
<1>6. CaptionInv'
  <2>1. scene' = scene /\ shown' = shown
    BY <1>1 DEF vars
  <2> QED
    BY <1>2, <2>1, CaptionsStayOver DEF PipeInv
<1> QED
  BY <1>3, <1>4, <1>5, <1>6

\* Speech goes on, or the scene changes, and nothing is published.
LEMMA NothingPublished ==
  ASSUME PipeInv, last' = last, shown' = shown,
         \/ SpeechStep /\ UNCHANGED vars
         \/ SceneNext /\ UNCHANGED speechVars
         \/ UNCHANGED <<vars, speechVars>>
  PROVE  SceneInv' /\ PublishedInv' /\ OrderInv' /\ CaptionInv'
<1>1. SpeechStep \/ UNCHANGED speechVars
  OBVIOUS
<1>2. [Next]_vars
  BY PipelineBounds DEF SceneNext, Next
<1>3. SceneInv'
  BY <1>2, SceneStep DEF PipeInv
<1>4. OrderInv' /\ last' \in Spoken /\ last'.link <= current'.link
  BY <1>1, OrderKept DEF PipeInv
<1>5. PublishedInv'
  <2>1. current.link \in Nat /\ current'.link \in Nat /\ current.link <= current'.link
    BY <1>1, LinkGrows DEF PipeInv
  <2>2. shown \in [Utterances -> 0..MaxLinks] /\ \A id \in Utterances : shown[id] <= current.link
    BY DEF PipeInv, PublishedInv
  <2>3. \A id \in Utterances : shown[id] \in Int
    BY <2>2
  <2>4. \A id \in Utterances : shown[id] <= current'.link
    BY <2>1, <2>2, <2>3
  <2> QED
    BY <1>4, <2>2, <2>4 DEF PublishedInv
<1>6. ToSet(scene'.captions) \subseteq ToSet(scene.captions)
  <2>1. CASE scene' = scene
    BY <2>1
  <2>2. CASE scene' = EmptyScene
    <3>1. scene'.captions = <<>> /\ DOMAIN <<>> = {}
      BY <2>2 DEF EmptyScene
    <3>2. ToSet(<<>>) = {}
      BY <3>1 DEF ToSet
    <3> QED
      BY <3>1, <3>2
  <2>3. CASE Snapshot
    <3>1. PICK p \in Pruned(scene, clock) : scene' = p
      BY <2>3 DEF Snapshot
    <3>2. \A c \in ToSet(p.captions) : c \in ToSet(scene.captions)
      BY PrunedSubset DEF PipeInv
    <3> QED
      BY <3>1, <3>2
  <2> QED
    BY <2>1, <2>2, <2>3 DEF SceneNext, Reset, Clear, Tick, vars
<1>7. CaptionInv'
  BY <1>1, <1>6, CaptionsStayOver DEF PipeInv
<1> QED
  BY <1>3, <1>4, <1>5, <1>7

\* It holds when the job starts.
LEMMA PipeStarts == PipelineInit => PipeInv
<1> SUFFICES ASSUME PipelineInit
             PROVE  PipeInv
  OBVIOUS
<1>1. /\ MaxSeq \in Nat /\ MaxLinks \in Nat /\ MaxRevision \in Nat /\ Links = 1..MaxLinks
      /\ Init /\ current = [link |-> 0, up |-> FALSE]
      /\ utter = NoUtter /\ results = <<>> /\ waiting = [l \in Links |-> NoTranscript]
      /\ shown = [id \in Utterances |-> 0] /\ last = NoTranscript
  BY SpeechBounds DEF PipelineInit, SpeechInit
<1>2. SceneInv
  BY <1>1, SceneStarts
<1>3. NoUtter \in Utter /\ UtterOf(NoUtter) /\ NoTranscript \in Spoken /\ NoTranscript.link = 0
  BY <1>1 DEF NoUtter, Utter, UtterOf, NoTranscript, Spoken
<1>4. SpeechInv
  BY <1>1, <1>3 DEF SpeechInv, SpeechTypes, UtterInv, HeldInv, WaitPast
<1>5. PublishedInv /\ OrderInv /\ CaptionInv
  <2>1. \A id \in 1..MaxSeq : shown[id] = 0
    BY <1>1, PipelineBounds
  <2> QED
    BY <1>1, <1>3, <2>1 DEF PublishedInv, OrderInv, CaptionInv
<1> QED
  BY <1>2, <1>4, <1>5 DEF PipeInv

\* No step breaks it.
LEMMA PipeKept == PipeInv /\ [PipelineNext]_pipelineVars => PipeInv'
<1> SUFFICES ASSUME PipeInv, [PipelineNext]_pipelineVars
             PROVE  PipeInv'
  OBVIOUS
<1>1. SpeechStep \/ UNCHANGED speechVars
  BY DEF PipelineNext, pipelineVars, SpeechStep, Handed, Deliver, DeliverRefused
<1>2. SpeechInv'
  BY <1>1, SpeechKept DEF PipeInv
<1>3. ASSUME NEW l \in Links, NEW now \in 0..clock, Deliver(l, now)
      PROVE  SceneInv' /\ PublishedInv' /\ OrderInv' /\ CaptionInv'
  BY <1>3, Delivered
<1>4. ASSUME NEW l \in Links, DeliverRefused(l)
      PROVE  SceneInv' /\ PublishedInv' /\ OrderInv' /\ CaptionInv'
  BY <1>4, Refused
<1>5. CASE SpeechNext /\ UNCHANGED <<vars, shown, last>>
  <2>1. SpeechStep /\ UNCHANGED vars /\ last' = last /\ shown' = shown
    BY <1>5 DEF SpeechStep
  <2> QED
    BY <1>2, <2>1, NothingPublished DEF PipeInv
<1>6. CASE SceneNext /\ UNCHANGED <<speechVars, shown, last>>
  <2>1. UNCHANGED speechVars /\ last' = last /\ shown' = shown
    BY <1>6
  <2> QED
    BY <1>2, <1>6, <2>1, NothingPublished DEF PipeInv
<1>7. CASE UNCHANGED pipelineVars
  <2>1. UNCHANGED <<vars, speechVars>> /\ last' = last /\ shown' = shown
    BY <1>7 DEF pipelineVars
  <2> QED
    BY <1>2, <2>1, NothingPublished DEF PipeInv
<1> QED
  BY <1>2, <1>3, <1>4, <1>5, <1>6, <1>7 DEF PipelineNext, Handed, PipeInv

\* Transcripts and captions are those of the connections that made them.
THEOREM PipelineIsSound == PipelineSpec => []PipeInv
BY PipeStarts, PipeKept, PTL DEF PipelineSpec

\* What is published was held back.
LEMMA PublishedNow ==
  ASSUME PipeInv, NEW l \in Links, Publish(l)
  PROVE  /\ waiting[l] # NoTranscript /\ waiting[l].link = l
         /\ waiting[l].id \in 1..MaxSeq /\ Comparable(waiting[l])
BY PublishedOver DEF PipeInv, Publish

\* The transcripts of one connection are published in order and none of them twice
\* (buildTranscriptLocked, resetUtteranceLocked, publishTranscript), whatever is spoken
\* and however results, local finalizations, delays and reconnects follow each other.
THEOREM RevisionsAlwaysGrow == PipelineSpec => RevisionsGrow
<1>1. ASSUME PipeInv, NEW l \in Links, Handed(l), last.link = l
      PROVE  Follows(waiting[l], last)
  <2>1. Publish(l)
    BY <1>1 DEF Handed, Deliver, DeliverRefused
  <2>2. waiting[l] # NoTranscript /\ Comparable(waiting[l])
    BY <1>1, <2>1, PublishedNow
  <2>3. Precedes(last, waiting[l])
    BY <1>1, <2>2 DEF PipeInv, OrderInv, Over
  <2>4. last.id \in Nat /\ last.revision \in Nat
    BY <1>1, SpeechBounds DEF PipeInv, PublishedInv, Spoken
  <2> QED
    BY <2>2, <2>3, <2>4 DEF Precedes, Comparable, Follows
<1>2. PipeInv => [\A l \in Links : Handed(l) /\ last.link = l => Follows(waiting[l], last)]_pipelineVars
  BY <1>1
<1> QED
  BY <1>2, PipelineIsSound, PTL DEF RevisionsGrow

\* The scene takes no transcript for a repetition of one of the same connection
\* (applyCaptionLocked): none is lost to it, whatever the displays and their times
\* to live are, and whatever was pruned or reset before.
THEOREM NothingIsDropped == PipelineSpec => NothingOfOneConnectionDropped
<1>1. ASSUME PipeInv, NEW l \in Links, NEW now \in 0..clock, Deliver(l, now),
             shown[waiting[l].id] = l, Dropped(waiting[l], now)
      PROVE  FALSE
  <2>1. PICK t : t = waiting[l]
    OBVIOUS
  <2>2. Publish(l)
    BY <1>1 DEF Deliver
  <2>3. /\ Dropped(t, now) /\ shown[t.id] = l /\ t.id \in 1..MaxSeq /\ Comparable(t)
        /\ waiting[l] # NoTranscript
    BY <1>1, <2>1, <2>2, PublishedNow
  <2>4. PICK i \in OfUtterance(scene, t.id) : Repeats(scene.captions[i], t.revision, t.final)
    BY <2>3 DEF Dropped
  <2>5. PICK c : c = scene.captions[i]
    OBVIOUS
  <2>6. c \in ToSet(scene.captions) /\ c.utterance = t.id
    BY <2>4, <2>5 DEF OfUtterance, ToSet
  <2>7. Over(l, AsTranscript(t.id, c))
    BY <1>1, <2>3, <2>6 DEF PipeInv, CaptionInv
  <2>8. c.revision \in Nat /\ c.final \in BOOLEAN
    BY <1>1, <2>3, <2>6, CaptionCompares DEF PipeInv
  <2>9. Precedes(AsTranscript(t.id, c), t)
    BY <2>1, <2>3, <2>7 DEF Over
  <2>10. c.revision < t.revision /\ ~c.final
    BY <2>3, <2>9 DEF Precedes, AsTranscript, Comparable
  <2> QED
    BY <2>3, <2>4, <2>5, <2>8, <2>10 DEF Repeats, Comparable
<1>2. PipeInv => [\A l \in Links, now \in 0..clock :
        Deliver(l, now) /\ shown[waiting[l].id] = l => ~Dropped(waiting[l], now)]_pipelineVars
  BY <1>1
<1> QED
  BY <1>2, PipelineIsSound, PTL DEF NothingOfOneConnectionDropped
=============================================================================
