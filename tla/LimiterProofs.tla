--------------------------- MODULE LimiterProofs ---------------------------
(***************************************************************************)
(* Theorems about the limiter, for every number of jobs, workers and       *)
(* priorities, every MaxInFlight and every WorkQueueLimit; the last part:  *)
(* the limiter implements JobSlots.                                        *)
(***************************************************************************)
EXTENDS LimiterSlots, FiniteSetTheorems, SequenceTheorems, TLAPS

-----------------------------------------------------------------------------
(* The queue arithmetic. *)

\* before gives, for every element of D, the elements a strict total order puts
\* before it.
StrictTotalOrder(D, before) ==
    /\ before \in [D -> SUBSET D]
    /\ \A i \in D : i \notin before[i]
    /\ \A i, k \in D : i # k => k \in before[i] \/ i \in before[k]
    /\ \A i, k \in D : k \in before[i] => before[k] \subseteq before[i]

RankOf(D, before) == [i \in D |-> Cardinality(before[i])]

\* Counting the predecessors in a strict total order on a finite set numbers its
\* elements 0, 1, 2, ..., in that order and without gaps (what the ranks behind
\* inPlaceDedup and the stable sort rely on).
LEMMA RankIsNumbering ==
    ASSUME NEW D, IsFiniteSet(D), NEW before, StrictTotalOrder(D, before)
    PROVE  LET rank == RankOf(D, before)
           IN /\ rank \in [D -> 0..(Cardinality(D) - 1)]
              /\ \A i, k \in D : k \in before[i] <=> rank[k] < rank[i]
              /\ \A m \in 0..(Cardinality(D) - 1) : \E i \in D : rank[i] = m
<1> DEFINE rank == RankOf(D, before)
           N == 0..(Cardinality(D) - 1)
<1>1. Cardinality(D) \in Nat
  BY FS_CardinalityType
<1>2. ASSUME NEW i \in D
      PROVE  IsFiniteSet(before[i]) /\ Cardinality(before[i]) \in N
  <2>1. before[i] \in SUBSET (D \ {i}) /\ before[i] \in SUBSET D
    BY <1>2 DEF StrictTotalOrder
  <2>2. IsFiniteSet(D \ {i}) /\ Cardinality(D \ {i}) = Cardinality(D) - 1
    BY <1>2, FS_RemoveElement
  <2>3. IsFiniteSet(before[i]) /\ Cardinality(before[i]) <= Cardinality(D) - 1
    BY <2>1, <2>2, FS_Subset
  <2>4. Cardinality(before[i]) \in Nat
    BY <2>3, FS_CardinalityType
  <2> QED BY <1>1, <2>3, <2>4
<1>3. ASSUME NEW i \in D, NEW k \in D, k \in before[i]
      PROVE  Cardinality(before[k]) < Cardinality(before[i])
  <2>1. before[k] \in SUBSET before[i] /\ before[k] # before[i]
    BY <1>3 DEF StrictTotalOrder
  <2>2. Cardinality(before[k]) <= Cardinality(before[i])
        /\ Cardinality(before[i]) # Cardinality(before[k])
    BY <1>2, <1>3, <2>1, FS_Subset
  <2> QED BY <1>1, <1>2, <2>2
<1>4. rank \in [D -> N]
  BY <1>2 DEF RankOf
<1>5. \A i \in D : rank[i] = Cardinality(before[i]) /\ rank[i] \in Nat
  BY <1>1, <1>2 DEF RankOf
<1>6. \A i, k \in D : k \in before[i] <=> rank[k] < rank[i]
  <2> SUFFICES ASSUME NEW i \in D, NEW k \in D
               PROVE  k \in before[i] <=> rank[k] < rank[i]
    OBVIOUS
  <2>1. k \in before[i] => rank[k] < rank[i]
    BY <1>3, <1>5
  <2>2. i \in before[k] => rank[i] < rank[k]
    BY <1>3, <1>5
  <2>3. i = k \/ k \in before[i] \/ i \in before[k]
    BY DEF StrictTotalOrder
  <2> QED BY <1>5, <2>1, <2>2, <2>3
<1>7. \A m \in N : \E i \in D : rank[i] = m
  <2>1. \A i, k \in D : rank[i] = rank[k] => i = k
    <3> SUFFICES ASSUME NEW i \in D, NEW k \in D, rank[i] = rank[k], i # k PROVE FALSE
      OBVIOUS
    <3>1. k \in before[i] \/ i \in before[k]
      BY DEF StrictTotalOrder
    <3> QED BY <1>5, <1>6, <3>1
  <2>2. rank \in Injection(D, N)
    BY <1>4, <2>1 DEF Injection, IsInjective
  <2>3. IsFiniteSet(N) /\ Cardinality(N) = Cardinality(D)
    <3>1. PICK n \in Nat : n = Cardinality(D)
      BY <1>1
    <3>2. IsFiniteSet(0..(n - 1)) /\ Cardinality(0..(n - 1)) = IF 0 > n - 1 THEN 0 ELSE n - 1 - 0 + 1
      BY FS_Interval
    <3> QED BY <3>1, <3>2
  <2>4. rank \in Surjection(D, N)
    BY <2>2, <2>3, FS_Injection
  <2> QED BY <2>4 DEF Surjection
<1> QED BY <1>4, <1>6, <1>7

\* t lists the elements that s has at the positions D, in the order before.
ListsInOrder(t, S, s, D, before) ==
    /\ t \in Seq(S)
    /\ Len(t) = Cardinality(D)
    /\ \A m, n \in 1..Len(t) : m < n =>
          \E k, i \in D : t[m] = s[k] /\ t[n] = s[i] /\ k \in before[i]
    /\ \A i \in D : \E n \in 1..Len(t) : t[n] = s[i]

\* Arranging the positions D of a sequence by such a numbering yields a sequence
\* of its elements, in the given order and without leaving one out.
LEMMA ArrangeFacts ==
    ASSUME NEW S, NEW s \in Seq(S), NEW D \in SUBSET (1..Len(s)),
           NEW before, StrictTotalOrder(D, before)
    PROVE  ListsInOrder(Arrange(s, RankOf(D, before)), S, s, D, before)
<1> DEFINE r == RankOf(D, before)
           t == Arrange(s, r)
           pick(n) == CHOOSE i \in D : r[i] = n - 1
<1>1. IsFiniteSet(D) /\ Cardinality(D) \in Nat
  <2>1. Len(s) \in Nat
    BY LenProperties
  <2>2. IsFiniteSet(1..Len(s))
    BY <2>1, FS_Interval
  <2> QED BY <2>2, FS_Subset, FS_CardinalityType
<1>2. /\ r \in [D -> 0..(Cardinality(D) - 1)]
      /\ \A i, k \in D : k \in before[i] <=> r[k] < r[i]
      /\ \A m \in 0..(Cardinality(D) - 1) : \E i \in D : r[i] = m
  BY <1>1, RankIsNumbering
<1>3. DOMAIN r = D
  BY <1>2
<1>4. t = [n \in 1..Cardinality(D) |-> s[pick(n)]]
  BY <1>3 DEF Arrange
<1>5. ASSUME NEW n \in 1..Cardinality(D)
      PROVE  pick(n) \in D /\ r[pick(n)] = n - 1
  <2>1. n - 1 \in 0..(Cardinality(D) - 1)
    BY <1>1
  <2>2. \E i \in D : r[i] = n - 1
    BY <1>2, <2>1
  <2> QED BY <2>2
<1>6. ASSUME NEW n \in 1..Cardinality(D) PROVE s[pick(n)] \in S
  <2>1. pick(n) \in 1..Len(s)
    BY <1>5
  <2> QED BY <2>1, ElementOfSeq
<1> HIDE DEF pick, r
<1>7. t \in [1..Cardinality(D) -> S]
  BY <1>4, <1>6
<1>8. t \in Seq(S) /\ Len(t) = Cardinality(D)
  BY <1>1, <1>7, SeqDef
<1>9. ASSUME NEW m \in 1..Cardinality(D), NEW n \in 1..Cardinality(D), m < n
      PROVE  \E k, i \in D : t[m] = s[k] /\ t[n] = s[i] /\ k \in before[i]
  <2>1. t[m] = s[pick(m)] /\ t[n] = s[pick(n)]
    BY <1>4
  <2>2. r[pick(m)] < r[pick(n)]
    BY <1>1, <1>5, <1>9
  <2> QED BY <1>2, <1>5, <2>1, <2>2
<1>10. ASSUME NEW i \in D PROVE \E n \in 1..Cardinality(D) : t[n] = s[i]
  <2>1. r[i] \in 0..(Cardinality(D) - 1)
    BY <1>2
  <2>2. PICK n \in 1..Cardinality(D) : n - 1 = r[i]
    <3>1. r[i] + 1 \in 1..Cardinality(D) /\ (r[i] + 1) - 1 = r[i]
      BY <1>1, <2>1
    <3> QED BY <3>1
  <2>3. pick(n) \in D /\ r[pick(n)] = r[i]
    BY <1>5, <2>2
  <2>4. i = pick(n) \/ pick(n) \in before[i] \/ i \in before[pick(n)]
    BY <2>3 DEF StrictTotalOrder
  <2>5. ~(pick(n) \in before[i]) /\ ~(i \in before[pick(n)])
    <3>1. r[i] \in Int /\ ~(r[i] < r[i])
      BY <1>1, <2>1
    <3>2. pick(n) \in before[i] <=> r[pick(n)] < r[i]
      BY <1>2, <2>3
    <3>3. i \in before[pick(n)] <=> r[i] < r[pick(n)]
      BY <1>2, <2>3
    <3> QED BY <2>3, <3>1, <3>2, <3>3
  <2>6. i = pick(n)
    BY <2>4, <2>5
  <2> QED BY <1>4, <2>6
<1> QED BY <1>8, <1>9, <1>10 DEF ListsInOrder, r

\* The ids of a sequence of queued jobs are pairwise different.
DistinctIds(q) == \A i, k \in 1..Len(q) : i < k => q[i].id # q[k].id

DescendingPriority(q) == \A i, k \in 1..Len(q) : i < k => q[i].priority >= q[k].priority

\* inPlaceDedup keeps a sequence of queued jobs and leaves each UUID once, by its
\* first entry.
LEMMA DedupFacts ==
    ASSUME NEW s \in Seq(QueuedJob)
    PROVE  /\ inPlaceDedup(s) \in Seq(QueuedJob)
           /\ DistinctIds(inPlaceDedup(s))
           /\ \A i \in FirstOccurrences(s) :
                 \E n \in 1..Len(inPlaceDedup(s)) : inPlaceDedup(s)[n] = s[i]
<1> DEFINE D == FirstOccurrences(s)
           before == [i \in D |-> {k \in D : k < i}]
           t == Arrange(s, RankOf(D, before))
<1>1. Len(s) \in Nat
  BY LenProperties
<1>2. D \in SUBSET (1..Len(s)) /\ D \in SUBSET Int
  BY <1>1 DEF FirstOccurrences
<1>3. StrictTotalOrder(D, before)
  <2>1. before \in [D -> SUBSET D]
    OBVIOUS
  <2>2. \A i \in D : i \notin before[i]
    BY <1>2
  <2>3. \A i, k \in D : i # k => k \in before[i] \/ i \in before[k]
    BY <1>2
  <2>4. \A i, k \in D : k \in before[i] => before[k] \subseteq before[i]
    BY <1>2
  <2> HIDE DEF before, D
  <2> QED BY <2>1, <2>2, <2>3, <2>4 DEF StrictTotalOrder
<1>4. inPlaceDedup(s) = t
  <2>1. RankOf(D, before) = DedupRank(s)
    BY DEF RankOf, DedupRank
  <2> QED BY <2>1 DEF inPlaceDedup
<1>5. ListsInOrder(t, QueuedJob, s, D, before)
  <2> HIDE DEF before, D
  <2> QED BY <1>2, <1>3, ArrangeFacts
<1>6. \A k, i \in D : k \in before[i] => s[k].id # s[i].id
  BY <1>1, <1>2 DEF FirstOccurrences
<1>7. DistinctIds(t)
  <2> HIDE DEF before, D, t
  <2>1. ASSUME NEW m \in 1..Len(t), NEW n \in 1..Len(t), m < n
        PROVE  t[m].id # t[n].id
    <3>1. PICK k, i \in D : t[m] = s[k] /\ t[n] = s[i] /\ k \in before[i]
      BY <1>5, <2>1 DEF ListsInOrder
    <3> QED BY <1>6, <3>1
  <2> QED BY <2>1 DEF DistinctIds
<1> QED BY <1>4, <1>5, <1>7 DEF ListsInOrder

\* The stable sort keeps the jobs, orders them by descending priority, and keeps
\* UUIDs distinct.
LEMMA SortFacts ==
    ASSUME NEW s \in Seq(QueuedJob), DistinctIds(s)
    PROVE  /\ SortByPriority(s) \in Seq(QueuedJob)
           /\ Len(SortByPriority(s)) = Len(s)
           /\ DistinctIds(SortByPriority(s))
           /\ DescendingPriority(SortByPriority(s))
           /\ \A i \in 1..Len(s) :
                 \E n \in 1..Len(SortByPriority(s)) : SortByPriority(s)[n] = s[i]
<1> DEFINE D == 1..Len(s)
           before == [i \in D |-> SortsBefore(s, i)]
           t == Arrange(s, RankOf(D, before))
<1>1. Len(s) \in Nat /\ Cardinality(D) = Len(s)
  <2>1. Len(s) \in Nat
    BY LenProperties
  <2>2. Cardinality(1..Len(s)) = IF 1 > Len(s) THEN 0 ELSE Len(s) - 1 + 1
    BY <2>1, FS_Interval
  <2> QED BY <2>1, <2>2
<1>2. \A i \in D : s[i] \in QueuedJob /\ s[i].priority \in Int
  <2> SUFFICES ASSUME NEW i \in D PROVE s[i] \in QueuedJob /\ s[i].priority \in Int
    OBVIOUS
  <2>1. s[i] \in QueuedJob
    BY ElementOfSeq
  <2> QED BY <2>1, LimiterAssumption DEF QueuedJob
<1>3. StrictTotalOrder(D, before)
  <2>1. before \in [D -> SUBSET D]
    BY DEF SortsBefore
  <2>2. \A i, k \in D : k \in before[i] <=>
            \/ s[k].priority > s[i].priority
            \/ s[k].priority = s[i].priority /\ k < i
    BY DEF SortsBefore
  <2> HIDE DEF before
  <2>3. \A i \in D : i \notin before[i]
    BY <1>1, <1>2, <2>2
  <2>4. \A i, k \in D : i # k => k \in before[i] \/ i \in before[k]
    BY <1>1, <1>2, <2>2
  <2>5. \A i, k \in D : k \in before[i] => before[k] \subseteq before[i]
    <3> SUFFICES ASSUME NEW i \in D, NEW k \in D, k \in before[i],
                        NEW l \in before[k]
                 PROVE  l \in before[i]
      OBVIOUS
    <3>1. l \in D
      BY <2>1
    <3> QED BY <1>1, <1>2, <2>2, <3>1
  <2> QED BY <2>1, <2>3, <2>4, <2>5 DEF StrictTotalOrder
<1>4. SortByPriority(s) = t
  <2>1. RankOf(D, before) = SortRank(s)
    BY DEF RankOf, SortRank
  <2> QED BY <2>1 DEF SortByPriority
<1>5. \A k, i \in D : k \in before[i] =>
            s[k].priority >= s[i].priority /\ s[k].id # s[i].id
  <2> SUFFICES ASSUME NEW k \in D, NEW i \in D, k \in before[i]
               PROVE  s[k].priority >= s[i].priority /\ s[k].id # s[i].id
    OBVIOUS
  <2>1. /\ \/ s[k].priority > s[i].priority
           \/ s[k].priority = s[i].priority /\ k < i
        /\ k # i
    BY <1>1, <1>2 DEF SortsBefore
  <2>2. k < i \/ i < k
    BY <1>1, <2>1
  <2> QED BY <1>1, <1>2, <2>1, <2>2 DEF DistinctIds
<1>6. ListsInOrder(t, QueuedJob, s, D, before)
  <2> HIDE DEF before
  <2> QED BY <1>3, ArrangeFacts
<1>7. DistinctIds(t) /\ DescendingPriority(t)
  <2> HIDE DEF before, D, t
  <2>1. ASSUME NEW m \in 1..Len(t), NEW n \in 1..Len(t), m < n
        PROVE  t[m].id # t[n].id /\ t[m].priority >= t[n].priority
    <3>1. PICK k, i \in D : t[m] = s[k] /\ t[n] = s[i] /\ k \in before[i]
      BY <1>6, <2>1 DEF ListsInOrder
    <3> QED BY <1>5, <3>1
  <2> QED BY <2>1 DEF DistinctIds, DescendingPriority
<1> QED BY <1>1, <1>4, <1>6, <1>7 DEF ListsInOrder

\* Any suffix or prefix of an ordered queue is an ordered queue.
LEMMA SubSeqFacts ==
    ASSUME NEW q \in Seq(QueuedJob), NEW a \in 1..(Len(q) + 1), NEW b \in 0..Len(q)
    PROVE  /\ SubSeq(q, a, b) \in Seq(QueuedJob)
           /\ Len(SubSeq(q, a, b)) = IF a <= b THEN b - a + 1 ELSE 0
           /\ DistinctIds(q) => DistinctIds(SubSeq(q, a, b))
           /\ DescendingPriority(q) => DescendingPriority(SubSeq(q, a, b))
<1>1. Len(q) \in Nat
  BY LenProperties
<1>2. /\ SubSeq(q, a, b) \in Seq(QueuedJob)
      /\ Len(SubSeq(q, a, b)) = IF a <= b THEN b - a + 1 ELSE 0
      /\ \A i \in 1..(b - a + 1) : SubSeq(q, a, b)[i] = q[a + i - 1]
  BY <1>1, SubSeqProperties
<1>3. \A i \in 1..Len(SubSeq(q, a, b)) :
          a + i - 1 \in 1..Len(q) /\ SubSeq(q, a, b)[i] = q[a + i - 1]
  BY <1>1, <1>2
<1>4. \A i, k \in 1..Len(SubSeq(q, a, b)) : i < k => a + i - 1 < a + k - 1
  BY <1>1, <1>2
<1> QED BY <1>2, <1>3, <1>4 DEF DistinctIds, DescendingPriority

\* What HandleMany leaves in the queue is typed, ordered and within its limit.
LEMMA EnqueueFacts ==
    ASSUME NEW q \in Seq(QueuedJob), NEW b \in Seq(QueuedJob)
    PROVE  LET r == Truncate(SortByPriority(inPlaceDedup(q \o b)))
           IN /\ r \in Seq(QueuedJob)
              /\ Len(r) <= WorkQueueLimit
              /\ DistinctIds(r)
              /\ DescendingPriority(r)
<1> DEFINE m == inPlaceDedup(q \o b)
           t == SortByPriority(m)
<1>1. m \in Seq(QueuedJob) /\ DistinctIds(m)
  BY DedupFacts, ConcatProperties
<1>2. t \in Seq(QueuedJob) /\ DistinctIds(t) /\ DescendingPriority(t)
  BY <1>1, SortFacts
<1> HIDE DEF m, t
<1>3. Len(t) \in Nat /\ WorkQueueLimit \in Nat
  BY <1>2, LenProperties, LimiterAssumption
<1>4. CASE Len(t) < WorkQueueLimit
  <2>1. 1 \in 1..(Len(t) + 1) /\ Len(t) \in 0..Len(t) /\ Truncate(t) = SubSeq(t, 1, Len(t))
    BY <1>3, <1>4 DEF Truncate
  <2> QED BY <1>2, <1>3, <1>4, <2>1, SubSeqFacts DEF m, t
<1>5. CASE ~(Len(t) < WorkQueueLimit)
  <2>1. 1 \in 1..(Len(t) + 1) /\ WorkQueueLimit \in 0..Len(t)
        /\ Truncate(t) = SubSeq(t, 1, WorkQueueLimit)
    BY <1>3, <1>5 DEF Truncate
  <2> QED BY <1>2, <1>3, <1>5, <2>1, SubSeqFacts DEF m, t
<1> QED BY <1>4, <1>5

\* What HandleMany cuts off is outranked by what it keeps: every first entry of
\* the merged queue is still listed, or the queue left behind is full of jobs at
\* least as urgent.
LEMMA ShedFacts ==
    ASSUME NEW s \in Seq(QueuedJob), NEW i \in FirstOccurrences(s)
    PROVE  LET r == Truncate(SortByPriority(inPlaceDedup(s)))
           IN Lists(r, s[i].id) \/ Outranked(s[i], r)
<1> DEFINE m == inPlaceDedup(s)
           t == SortByPriority(m)
           r == Truncate(t)
<1>1. m \in Seq(QueuedJob) /\ DistinctIds(m) /\ \E n \in 1..Len(m) : m[n] = s[i]
  BY DedupFacts
<1>2. t \in Seq(QueuedJob) /\ DescendingPriority(t) /\ \E n \in 1..Len(t) : t[n] = s[i]
  <2> HIDE DEF m
  <2>1. PICK a \in 1..Len(m) : m[a] = s[i]
    BY <1>1
  <2>2. \E n \in 1..Len(t) : t[n] = m[a]
    BY <1>1, SortFacts
  <2> QED BY <1>1, <2>1, <2>2, SortFacts
<1> HIDE DEF m, t
<1>3. PICK n \in 1..Len(t) : t[n] = s[i]
  BY <1>2
<1>4. Len(t) \in Nat /\ WorkQueueLimit \in Nat
  BY <1>2, LenProperties, LimiterAssumption
<1> DEFINE c == IF Len(t) < WorkQueueLimit THEN Len(t) ELSE WorkQueueLimit
<1>5. c \in 0..Len(t) /\ (c = Len(t) \/ c = WorkQueueLimit) /\ r = SubSeq(t, 1, c)
  BY <1>4 DEF Truncate
<1>6. Len(r) = c /\ \A k \in 1..c : k \in 1..Len(t) /\ r[k] = t[k]
  <2> HIDE DEF c
  <2> QED BY <1>2, <1>4, <1>5, SubSeqProperties
<1>7. CASE n <= c
  <2>1. n \in 1..c
    BY <1>4, <1>5, <1>7
  <2>2. n \in 1..Len(r) /\ r[n].id = s[i].id
    BY <1>3, <1>6, <2>1
  <2> HIDE DEF r
  <2> QED BY <2>2 DEF Lists, m, t, r
<1>8. CASE ~(n <= c)
  <2>1. c = WorkQueueLimit
    BY <1>4, <1>5, <1>8
  <2>2. \A k \in 1..c : t[k].priority >= t[n].priority
    BY <1>2, <1>4, <1>5, <1>8 DEF DescendingPriority
  <2>3. Len(r) = WorkQueueLimit /\ \A k \in 1..Len(r) : r[k].priority >= s[i].priority
    BY <1>3, <1>6, <2>1, <2>2
  <2> HIDE DEF r
  <2> QED BY <2>3 DEF Outranked, m, t, r
<1> QED BY <1>7, <1>8

-----------------------------------------------------------------------------
(* Slots. *)

\* Replacing one entry of l.jobs changes the number of occupied slots by what the
\* new entry occupies less what the old one occupied.
LEMMA OneEntryChange ==
    ASSUME NEW f \in [Job -> JobState \cup {NoState}], NEW j \in Job,
           NEW v \in JobState \cup {NoState}
    PROVE  LET before == Cardinality(OccupiedIn(f))
               after  == Cardinality(OccupiedIn([f EXCEPT ![j] = v]))
           IN /\ before \in Nat /\ after \in Nat
              /\ Occupies(f[j]) => before > 0
              /\ (Occupies(v) <=> Occupies(f[j])) => after = before
              /\ Occupies(v) /\ ~Occupies(f[j]) => after = before + 1
              /\ ~Occupies(v) /\ Occupies(f[j]) => after = before - 1
<1> DEFINE g == [f EXCEPT ![j] = v]
           F == OccupiedIn(f)
           G == OccupiedIn(g)
<1>1. IsFiniteSet(Job)
  BY LimiterAssumption
<1>2. F \in SUBSET Job /\ G \in SUBSET Job
  BY DEF OccupiedIn
<1>3. /\ IsFiniteSet(F) /\ Cardinality(F) \in Nat
      /\ IsFiniteSet(G) /\ Cardinality(G) \in Nat
  BY <1>1, <1>2, FS_Subset, FS_CardinalityType
<1>4. /\ Occupies(f[j]) <=> j \in F
      /\ Occupies(v) <=> j \in G
      /\ \A k \in Job \ {j} : k \in F <=> k \in G
  BY DEF OccupiedIn
<1> HIDE DEF F, G
<1>5. j \in F => Cardinality(F) > 0
  BY <1>3, FS_EmptySet
<1>6. CASE Occupies(v) <=> Occupies(f[j])
  <2>1. F = G
    BY <1>2, <1>4, <1>6
  <2> QED BY <1>3, <1>4, <1>5, <1>6, <2>1 DEF F, G
<1>7. CASE Occupies(v) /\ ~Occupies(f[j])
  <2>1. G = F \cup {j} /\ j \notin F
    BY <1>2, <1>4, <1>7
  <2>2. Cardinality(G) = Cardinality(F) + 1
    BY <1>3, <2>1, FS_AddElement
  <2> QED BY <1>3, <1>4, <1>5, <1>7, <2>2 DEF F, G
<1>8. CASE ~Occupies(v) /\ Occupies(f[j])
  <2>1. G = F \ {j} /\ j \in F
    BY <1>2, <1>4, <1>8
  <2>2. Cardinality(G) = Cardinality(F) - 1
    BY <1>3, <2>1, FS_RemoveElement
  <2> QED BY <1>3, <1>4, <1>5, <1>8, <2>2 DEF F, G
<1> QED BY <1>6, <1>7, <1>8

-----------------------------------------------------------------------------
(* The inductive invariant, action by action. *)

\* Initially the slots are those of the inherited unfinished Jobs.
LEMMA InitInv == Init => LimiterInv
<1> SUFFICES ASSUME NEW inherited \in Inherited, InitWith(inherited) PROVE LimiterInv
  BY DEF Init
<1>1. inherited \in [Job -> JobState \cup {NoState}]
  BY DEF Inherited, InformerState, JobState
<1>2. Cardinality(OccupiedIn(inherited)) \in Nat
  <2>1. OccupiedIn(inherited) \in SUBSET Job
    BY DEF OccupiedIn
  <2> QED BY <2>1, LimiterAssumption, FS_Subset, FS_CardinalityType
<1>3. TypeOK
  BY <1>1, <1>2, EmptySeq DEF InitWith, TypeOK
<1>4. SlotAccounting /\ NoLostWakeup /\ WorkAssigned /\ DispatchSurvivesIntake
  BY DEF InitWith, SlotAccounting, Occupying, NoLostWakeup, WorkAssigned,
         DispatchSurvivesIntake
<1>5. QueueOrdered
  <2>1. queue = <<>> /\ Len(queue) = 0
    BY DEF InitWith
  <2> QED BY <2>1, LimiterAssumption DEF QueueOrdered
<1>6. AttemptsUnfinished
  BY LimiterAssumption DEF InitWith, AttemptsUnfinished, Inherited, InformerState
<1> QED BY <1>3, <1>4, <1>5, <1>6 DEF LimiterInv

\* HandleMany rebuilds the queue, whatever the batch, and wakes every waiting worker.
LEMMA HandleManyStepInv ==
    ASSUME LimiterInv, NEW b \in Seq(QueuedJob), HandleManyStep(b) PROVE LimiterInv'
<1> DEFINE r == Truncate(SortByPriority(inPlaceDedup(queue \o b)))
<1>1. queue' = r
  BY DEF HandleManyStep
<1>2. /\ queue' \in Seq(QueuedJob)
      /\ Len(queue') <= WorkQueueLimit
      /\ DistinctIds(queue')
      /\ DescendingPriority(queue')
  BY <1>1, EnqueueFacts DEF LimiterInv, TypeOK
<1>3. /\ UNCHANGED <<paused, stopping, jobs, inFlight, intakeDone, dispatchDone, pc, work, drain>>
      /\ woken' = [w \in Worker |-> pc[w] = "wait"]
  BY DEF HandleManyStep, notifyWorkers
<1>4. TypeOK'
  BY <1>2, <1>3 DEF LimiterInv, TypeOK
<1>5. SlotAccounting'
  BY <1>3 DEF LimiterInv, SlotAccounting, Occupying
<1>6. NoLostWakeup'
  BY <1>3 DEF NoLostWakeup
<1>7. QueueOrdered'
  BY <1>2 DEF QueueOrdered, DistinctIds, DescendingPriority
<1>8. DispatchSurvivesIntake' /\ AttemptsUnfinished' /\ WorkAssigned'
  BY <1>3 DEF LimiterInv, DispatchSurvivesIntake, WorkersDone, AttemptsUnfinished, WorkAssigned
<1> QED BY <1>4, <1>5, <1>6, <1>7, <1>8 DEF LimiterInv

LEMMA HandleManyInv == ASSUME LimiterInv, HandleMany PROVE LimiterInv'
<1>1. PICK b \in Batches : HandleManyStep(b)
  BY DEF HandleMany
<1>2. b \in Seq(QueuedJob)
  BY MaxBatchAssumption, SeqDef DEF Batches
<1> QED BY <1>1, <1>2, HandleManyStepInv

\* Pause wakes every waiting worker.
LEMMA PauseInv == ASSUME LimiterInv, Pause PROVE LimiterInv'
<1>1. /\ paused' \in BOOLEAN
      /\ UNCHANGED <<queue, stopping, jobs, inFlight, intakeDone, dispatchDone, pc, work, drain>>
      /\ woken' = [w \in Worker |-> pc[w] = "wait"]
  BY DEF Pause, PauseStep, notifyWorkers
<1>2. TypeOK'
  BY <1>1 DEF LimiterInv, TypeOK
<1>3. SlotAccounting'
  BY <1>1 DEF LimiterInv, SlotAccounting, Occupying
<1>4. NoLostWakeup'
  BY <1>1 DEF NoLostWakeup
<1>5. QueueOrdered' /\ DispatchSurvivesIntake' /\ AttemptsUnfinished' /\ WorkAssigned'
  BY <1>1 DEF LimiterInv, QueueOrdered, DispatchSurvivesIntake, WorkersDone,
              AttemptsUnfinished, WorkAssigned
<1> QED BY <1>2, <1>3, <1>4, <1>5 DEF LimiterInv

\* An informer event changes one entry, the count by what that entry gains or
\* frees, and wakes the waiting workers if the count changed.
LEMMA ObserveInv ==
    ASSUME LimiterInv, NEW j \in Job, NEW fin \in BOOLEAN, NEW deleted \in BOOLEAN,
           observeJob(j, fin, deleted)
    PROVE  LimiterInv'
<1> DEFINE v == IF deleted THEN NoState
                ELSE IF jobs[j] = NoState THEN InformerState(fin)
                ELSE InformerState(jobs[j].finished \/ deleted \/ fin)
           change == IF jobs[j] = NoState THEN (IF fin \/ deleted THEN 0 ELSE 1)
                     ELSE IF Occupies(jobs[j]) /\ (deleted \/ fin) THEN -1 ELSE 0
<1>1. /\ jobs' = [jobs EXCEPT ![j] = v]
      /\ inFlight' = inFlight + change
      /\ change # 0 => woken' = [w \in Worker |-> pc[w] = "wait"]
      /\ change = 0 => woken' = woken
      /\ UNCHANGED <<queue, paused, stopping, intakeDone, dispatchDone, pc, work, drain>>
  BY DEF observeJob, SlotChange, notifyWorkers
<1>2. jobs \in [Job -> JobState \cup {NoState}] /\ inFlight \in Nat
  BY DEF LimiterInv, TypeOK
<1>3. jobs[j] # NoState => jobs[j].finished \in BOOLEAN
  BY <1>2 DEF JobState
<1>4. v \in JobState \cup {NoState}
  BY <1>3 DEF InformerState, JobState
<1>5. /\ change = 1 => Occupies(v) /\ ~Occupies(jobs[j])
      /\ change = -1 => ~Occupies(v) /\ Occupies(jobs[j])
      /\ change = 0 => (Occupies(v) <=> Occupies(jobs[j]))
      /\ change \in {-1, 0, 1}
  <2>1. \A f \in BOOLEAN : InformerState(f) # NoState /\ InformerState(f).finished = f
    BY NoStateAssumption DEF InformerState, JobState
  <2> QED BY <1>3, <2>1 DEF Occupies
<1> HIDE DEF v, change
<1>6. inFlight' = Cardinality(OccupiedIn(jobs')) /\ inFlight' \in Nat
  <2>1. inFlight = Cardinality(OccupiedIn(jobs))
    BY DEF LimiterInv, SlotAccounting, Occupying
  <2> DEFINE after == Cardinality(OccupiedIn([jobs EXCEPT ![j] = v]))
  <2>2. /\ after \in Nat
        /\ (Occupies(v) <=> Occupies(jobs[j])) => after = inFlight
        /\ Occupies(v) /\ ~Occupies(jobs[j]) => after = inFlight + 1
        /\ ~Occupies(v) /\ Occupies(jobs[j]) => after = inFlight - 1
    BY <1>2, <1>4, <2>1, OneEntryChange
  <2>3. after = Cardinality(OccupiedIn(jobs'))
    BY <1>1
  <2> HIDE DEF after
  <2> QED BY <1>1, <1>2, <1>5, <2>2, <2>3
<1>7. TypeOK'
  <2>1. woken' \in [Worker -> BOOLEAN]
    BY <1>1 DEF LimiterInv, TypeOK
  <2>2. jobs' \in [Job -> JobState \cup {NoState}]
    BY <1>1, <1>2, <1>4
  <2> QED BY <1>1, <1>6, <2>1, <2>2 DEF LimiterInv, TypeOK
<1>8. SlotAccounting'
  BY <1>6 DEF SlotAccounting, Occupying
<1>9. NoLostWakeup'
  <2>1. CASE change = 0
    BY <1>1, <1>2, <2>1 DEF LimiterInv, NoLostWakeup, Ready, AtCapacity
  <2>2. CASE change # 0
    BY <1>1, <2>2 DEF NoLostWakeup
  <2> QED BY <2>1, <2>2
<1>10. QueueOrdered' /\ DispatchSurvivesIntake' /\ WorkAssigned'
  BY <1>1 DEF LimiterInv, QueueOrdered, DispatchSurvivesIntake, WorkersDone, WorkAssigned
<1>11. AttemptsUnfinished'
  <2>1. v = NoState \/ v.owner \notin Worker
    BY LimiterAssumption DEF v, InformerState
  <2> QED BY <1>1, <1>2, <2>1 DEF LimiterInv, AttemptsUnfinished
<1> QED BY <1>7, <1>8, <1>9, <1>10, <1>11 DEF LimiterInv

LEMMA EventInv == ASSUME LimiterInv, OnEvent PROVE LimiterInv'
BY ObserveInv DEF OnEvent

\* The steps of a worker that look, wake up or check the context change nothing
\* but where the worker is; a worker goes to sleep only when it saw no work.
LEMMA WorkerMoveInv ==
    ASSUME LimiterInv, NEW w \in Worker, WorkerLook(w) \/ WorkerWake(w) \/ WorkerCheck(w)
    PROVE  LimiterInv'
<1>1. /\ UNCHANGED <<queue, paused, stopping, jobs, inFlight, intakeDone, dispatchDone, work, drain>>
      /\ pc' = [pc EXCEPT ![w] = pc'[w]]
      /\ pc'[w] \in {"wait", "check", "dequeue", "done"}
      /\ pc[w] \in {"top", "wait", "check"}
      /\ pc'[w] = "wait" => ~Ready
      /\ woken' \in {woken, [woken EXCEPT ![w] = FALSE]}
  BY DEF WorkerLook, WorkerWake, WorkerCheck, LimiterInv, TypeOK
<1>2. TypeOK'
  BY <1>1 DEF LimiterInv, TypeOK
<1>3. SlotAccounting' /\ QueueOrdered' /\ AttemptsUnfinished'
  BY <1>1 DEF LimiterInv, SlotAccounting, Occupying, QueueOrdered, AttemptsUnfinished
<1>4. NoLostWakeup'
  <2>1. Ready' = Ready
    BY <1>1 DEF Ready, AtCapacity
  <2> QED BY <1>1, <2>1 DEF LimiterInv, TypeOK, NoLostWakeup
<1>5. DispatchSurvivesIntake'
  BY <1>1 DEF LimiterInv, TypeOK, DispatchSurvivesIntake, WorkersDone
<1>6. WorkAssigned'
  BY <1>1 DEF LimiterInv, TypeOK, WorkAssigned
<1> QED BY <1>2, <1>3, <1>4, <1>5, <1>6 DEF LimiterInv

\* tryDequeueWork either takes the first fresh job with a slot, or at most empties
\* the queue.
LEMMA DequeueInv ==
    ASSUME LimiterInv, NEW w \in Worker, tryDequeueWork(w) PROVE LimiterInv'
<1>1. /\ UNCHANGED <<paused, stopping, intakeDone, dispatchDone, drain>>
      /\ pc[w] = "dequeue"
  BY DEF tryDequeueWork
<1>2. /\ queue \in Seq(QueuedJob)
      /\ jobs \in [Job -> JobState \cup {NoState}]
      /\ inFlight \in Nat
      /\ pc \in [Worker -> {"top", "wait", "check", "dequeue", "handle", "done"}]
      /\ work \in [Worker -> Job \cup {NoJob}]
  BY DEF LimiterInv, TypeOK
<1>3. ~WorkersDone
  BY <1>1 DEF WorkersDone
<1>4. CASE MayDequeue /\ TakeJob(w)
  <2>1. PICK i \in Fresh :
            /\ queue' = SubSeq(queue, i + 1, Len(queue))
            /\ jobs' = [jobs EXCEPT ![queue[i].id] = [owner |-> w, finished |-> FALSE]]
            /\ inFlight' = inFlight + 1
            /\ woken' = [x \in Worker |-> pc[x] = "wait"]
            /\ work' = [work EXCEPT ![w] = queue[i].id]
            /\ pc' = [pc EXCEPT ![w] = "handle"]
    BY <1>4 DEF TakeJob, notifyWorkers
  <2> DEFINE j == queue[i].id
             v == [owner |-> w, finished |-> FALSE]
  <2>2. Len(queue) \in Nat /\ i \in 1..Len(queue) /\ jobs[j] = NoState
    BY <1>2, LenProperties DEF Fresh
  <2>3. j \in Job
    <3>1. queue[i] \in QueuedJob
      BY <1>2, <2>2, ElementOfSeq
    <3> QED BY <3>1 DEF QueuedJob
  <2>4. v \in JobState /\ Occupies(v) /\ ~Occupies(jobs[j])
    <3>1. v \in JobState /\ ~v.finished
      BY DEF JobState
    <3> QED BY <2>2, <3>1, NoStateAssumption DEF Occupies
  <2>5. /\ queue' \in Seq(QueuedJob) /\ Len(queue') <= Len(queue)
        /\ DistinctIds(queue') /\ DescendingPriority(queue')
    <3>1. DistinctIds(queue) /\ DescendingPriority(queue)
      BY DEF LimiterInv, QueueOrdered, DistinctIds, DescendingPriority
    <3>2. i + 1 \in 1..(Len(queue) + 1) /\ Len(queue) \in 0..Len(queue)
      BY <2>2
    <3> DEFINE t == SubSeq(queue, i + 1, Len(queue))
    <3>3. /\ t \in Seq(QueuedJob) /\ DistinctIds(t) /\ DescendingPriority(t)
          /\ Len(t) = IF i + 1 <= Len(queue) THEN Len(queue) - (i + 1) + 1 ELSE 0
      BY <1>2, <3>1, <3>2, SubSeqFacts
    <3>4. Len(t) <= Len(queue)
      BY <2>2, <3>3
    <3> QED BY <2>1, <3>3, <3>4
  <2> HIDE DEF j, v
  <2>6. jobs' = [jobs EXCEPT ![j] = v] /\ work' = [work EXCEPT ![w] = j]
    BY <2>1 DEF j, v
  <2>7. TypeOK'
    BY <1>1, <1>2, <2>1, <2>3, <2>4, <2>5, <2>6 DEF LimiterInv, TypeOK
  <2>8. SlotAccounting'
    <3>1. inFlight = Cardinality(OccupiedIn(jobs))
      BY DEF LimiterInv, SlotAccounting, Occupying
    <3>2. Cardinality(OccupiedIn([jobs EXCEPT ![j] = v])) = inFlight + 1
      BY <1>2, <2>3, <2>4, <3>1, OneEntryChange
    <3> QED BY <2>1, <2>6, <3>2 DEF SlotAccounting, Occupying
  <2>9. NoLostWakeup'
    BY <1>2, <2>1 DEF NoLostWakeup
  <2>10. QueueOrdered'
    <3>1. Len(queue') <= WorkQueueLimit
      <4>1. Len(queue') \in Nat /\ WorkQueueLimit \in Nat
        BY <2>5, LenProperties, LimiterAssumption
      <4> QED BY <2>2, <2>5, <4>1 DEF LimiterInv, QueueOrdered
    <3> QED BY <2>5, <3>1 DEF QueueOrdered, DistinctIds, DescendingPriority
  <2>11. DispatchSurvivesIntake'
    BY <1>1, <1>3 DEF LimiterInv, DispatchSurvivesIntake
  <2>12. AttemptsUnfinished'
    BY <1>2, <2>3, <2>6 DEF v, LimiterInv, AttemptsUnfinished
  <2>13. WorkAssigned'
    BY <1>2, <2>1, <2>3, <2>6 DEF LimiterInv, WorkAssigned
  <2> QED BY <2>7, <2>8, <2>9, <2>10, <2>11, <2>12, <2>13 DEF LimiterInv
<1>5. CASE /\ queue' = IF MayDequeue THEN <<>> ELSE queue
           /\ pc' = [pc EXCEPT ![w] = "top"]
           /\ UNCHANGED <<jobs, inFlight, woken, work>>
  <2>1. queue' \in Seq(QueuedJob) /\ (queue' = queue \/ queue' = <<>>)
    BY <1>2, <1>5, EmptySeq
  <2>2. TypeOK'
    BY <1>1, <1>2, <1>5, <2>1 DEF LimiterInv, TypeOK
  <2>3. SlotAccounting' /\ AttemptsUnfinished'
    BY <1>5 DEF LimiterInv, SlotAccounting, Occupying, AttemptsUnfinished
  <2>4. NoLostWakeup'
    BY <1>1, <1>2, <1>5, <2>1 DEF LimiterInv, NoLostWakeup, Ready, AtCapacity
  <2>5. QueueOrdered'
    <3>1. CASE queue' = <<>>
      <4>1. Len(queue') = 0
        BY <3>1
      <4> QED BY <4>1, LimiterAssumption DEF QueueOrdered
    <3>2. CASE queue' = queue
      BY <3>2 DEF LimiterInv, QueueOrdered
    <3> QED BY <2>1, <3>1, <3>2
  <2>6. DispatchSurvivesIntake'
    BY <1>1, <1>3 DEF LimiterInv, DispatchSurvivesIntake
  <2>7. WorkAssigned'
    BY <1>2, <1>5 DEF LimiterInv, WorkAssigned
  <2> QED BY <2>2, <2>3, <2>4, <2>5, <2>6, <2>7 DEF LimiterInv
<1> QED BY <1>4, <1>5 DEF tryDequeueWork

\* A handler that fails gives back the slot of its own unobserved attempt and no
\* other; one that succeeds leaves the slot to the Job it created.
LEMMA HandlerInv ==
    ASSUME LimiterInv, NEW w \in Worker, HandlerReturns(w) PROVE LimiterInv'
<1>1. /\ pc[w] = "handle" /\ pc' = [pc EXCEPT ![w] = "top"]
      /\ work' = [work EXCEPT ![w] = NoJob]
      /\ UNCHANGED <<queue, paused, stopping, intakeDone, dispatchDone, drain>>
  BY DEF HandlerReturns, HandlerSucceeds, HandlerFails
<1>2. /\ jobs \in [Job -> JobState \cup {NoState}]
      /\ inFlight \in Nat
      /\ pc \in [Worker -> {"top", "wait", "check", "dequeue", "handle", "done"}]
      /\ work \in [Worker -> Job \cup {NoJob}]
      /\ work[w] \in Job
  BY <1>1 DEF LimiterInv, TypeOK, WorkAssigned
<1>3. QueueOrdered' /\ WorkAssigned'
  BY <1>1, <1>2 DEF LimiterInv, QueueOrdered, WorkAssigned
<1>4. DispatchSurvivesIntake'
  <2>1. ~WorkersDone
    BY <1>1 DEF WorkersDone
  <2> QED BY <1>1, <2>1 DEF LimiterInv, DispatchSurvivesIntake
<1>5. CASE UNCHANGED <<jobs, inFlight, woken>>
  <2>1. TypeOK'
    BY <1>1, <1>2, <1>5 DEF LimiterInv, TypeOK
  <2>2. SlotAccounting' /\ AttemptsUnfinished'
    BY <1>5 DEF LimiterInv, SlotAccounting, Occupying, AttemptsUnfinished
  <2>3. NoLostWakeup'
    BY <1>1, <1>2, <1>5 DEF LimiterInv, NoLostWakeup, Ready, AtCapacity
  <2> QED BY <1>3, <1>4, <2>1, <2>2, <2>3 DEF LimiterInv
<1>6. CASE /\ HoldsState(w, work[w])
           /\ jobs' = [jobs EXCEPT ![work[w]] = NoState]
           /\ inFlight' = inFlight - 1
           /\ notifyWorkers
  <2> DEFINE j == work[w]
  <2>1. Occupies(jobs[j]) /\ ~Occupies(NoState)
    BY <1>2, <1>6 DEF HoldsState, Occupies, LimiterInv, AttemptsUnfinished
  <2>2. Cardinality(OccupiedIn([jobs EXCEPT ![j] = NoState])) = inFlight - 1
        /\ inFlight > 0
    <3>1. inFlight = Cardinality(OccupiedIn(jobs))
      BY DEF LimiterInv, SlotAccounting, Occupying
    <3> HIDE DEF j
    <3>2. j \in Job
      BY <1>2 DEF j
    <3> QED BY <1>2, <2>1, <3>1, <3>2, OneEntryChange
  <2>3. woken' = [x \in Worker |-> pc[x] = "wait"]
    BY <1>6 DEF notifyWorkers
  <2>4. TypeOK'
    BY <1>1, <1>2, <1>6, <2>2, <2>3 DEF LimiterInv, TypeOK
  <2>5. SlotAccounting'
    BY <1>6, <2>2 DEF SlotAccounting, Occupying
  <2>6. NoLostWakeup'
    BY <1>1, <1>2, <2>3 DEF NoLostWakeup
  <2>7. AttemptsUnfinished'
    BY <1>2, <1>6 DEF LimiterInv, AttemptsUnfinished
  <2> QED BY <1>3, <1>4, <2>4, <2>5, <2>6, <2>7 DEF LimiterInv
<1> QED BY <1>5, <1>6 DEF HandlerReturns, HandlerSucceeds, HandlerFails

\* The steps of the shutdown touch neither jobs nor slots; Drain empties the queue.
LEMMA ShutdownInv == ASSUME LimiterInv, Shutdown PROVE LimiterInv'
<1>1. /\ UNCHANGED <<paused, jobs, inFlight, pc, work>>
      /\ stopping' \in BOOLEAN /\ intakeDone' \in BOOLEAN /\ dispatchDone' \in BOOLEAN
      /\ drain' \in {"idle", "waiting", "drained", "expired"}
      /\ queue' \in {queue, <<>>}
      /\ woken' \in {woken, [w \in Worker |-> pc[w] = "wait"]}
  BY DEF Shutdown, CancelIntake, DrainBegin, WorkersExited, DrainReturns, DrainExpires,
         notifyWorkers, LimiterInv, TypeOK
<1>2. queue' \in Seq(QueuedJob)
  BY <1>1, EmptySeq DEF LimiterInv, TypeOK
<1>3. TypeOK'
  BY <1>1, <1>2 DEF LimiterInv, TypeOK
<1>4. SlotAccounting' /\ AttemptsUnfinished' /\ WorkAssigned'
  BY <1>1 DEF LimiterInv, SlotAccounting, Occupying, AttemptsUnfinished, WorkAssigned
<1>5. NoLostWakeup'
  BY <1>1 DEF LimiterInv, NoLostWakeup, Ready, AtCapacity
<1>6. QueueOrdered'
  <2>1. CASE queue' = <<>>
    <3>1. Len(queue') = 0
      BY <2>1
    <3> QED BY <3>1, LimiterAssumption DEF QueueOrdered
  <2>2. CASE queue' = queue
    BY <2>2 DEF LimiterInv, QueueOrdered
  <2> QED BY <1>1, <2>1, <2>2
<1>7. DispatchSurvivesIntake'
  BY DEF Shutdown, CancelIntake, DrainBegin, WorkersExited, DrainReturns, DrainExpires,
         LimiterInv, DispatchSurvivesIntake, WorkersDone
<1> QED BY <1>3, <1>4, <1>5, <1>6, <1>7 DEF LimiterInv

\* A step that changes no variable of the limiter keeps the invariant.
LEMMA StutterInv == ASSUME LimiterInv, UNCHANGED limiterVars PROVE LimiterInv'
BY DEF limiterVars, LimiterInv, TypeOK, SlotAccounting, Occupying, NoLostWakeup, Ready,
       AtCapacity, QueueOrdered, DispatchSurvivesIntake, WorkersDone,
       AttemptsUnfinished, WorkAssigned

-----------------------------------------------------------------------------
(* The theorems. *)

\* The inductive invariant holds in every reachable state of the limiter.
THEOREM LimiterInvariant == Spec => []LimiterInv
<1>1. LimiterInv /\ [Next]_limiterVars => LimiterInv'
  <2> SUFFICES ASSUME LimiterInv, [Next]_limiterVars PROVE LimiterInv'
    OBVIOUS
  <2>1. CASE HandleMany
    BY <2>1, HandleManyInv
  <2>2. CASE Pause
    BY <2>2, PauseInv
  <2>3. CASE OnEvent
    BY <2>3, EventInv
  <2>4. ASSUME NEW w \in Worker, WorkerStep(w) PROVE LimiterInv'
    BY <2>4, WorkerMoveInv, DequeueInv DEF WorkerStep
  <2>5. ASSUME NEW w \in Worker, HandlerReturns(w) PROVE LimiterInv'
    BY <2>5, HandlerInv
  <2>6. CASE Shutdown
    BY <2>6, ShutdownInv
  <2>7. CASE UNCHANGED limiterVars
    BY <2>7, StutterInv
  <2> QED BY <2>1, <2>2, <2>3, <2>4, <2>5, <2>6, <2>7 DEF Next
<1> QED BY <1>1, InitInv, PTL DEF Spec

\* For every instance, inFlight is exactly the number of known unfinished jobs:
\* no interleaving of dispatch results and informer events leaks or double-frees
\* a slot of the limiter.
THEOREM SlotAccountingHolds == Spec => []SlotAccounting
<1>1. LimiterInv => SlotAccounting
  BY DEF LimiterInv
<1> QED BY <1>1, LimiterInvariant, PTL

\* For every instance, no worker sleeps on an open channel while a job could be
\* dispatched.
THEOREM NoLostWakeupHolds == Spec => []NoLostWakeup
<1>1. LimiterInv => NoLostWakeup
  BY DEF LimiterInv
<1> QED BY <1>1, LimiterInvariant, PTL

\* For every instance, every variable keeps its type.
THEOREM TypeCorrect == Spec => []TypeOK
<1>1. LimiterInv => TypeOK
  BY DEF LimiterInv
<1> QED BY <1>1, LimiterInvariant, PTL

\* For every instance, the queue stays free of duplicates, ordered and bounded.
THEOREM QueueOrderedHolds == Spec => []QueueOrdered
<1>1. LimiterInv => QueueOrdered
  BY DEF LimiterInv
<1> QED BY <1>1, LimiterInvariant, PTL

\* For every instance, dispatch is not cancelled by the end of intake.
THEOREM DispatchSurvivesIntakeHolds == Spec => []DispatchSurvivesIntake
<1>1. LimiterInv => DispatchSurvivesIntake
  BY DEF LimiterInv
<1> QED BY <1>1, LimiterInvariant, PTL

\* Only tryDequeueWork begins a dispatch.
LEMMA DispatchStep ==
    ASSUME LimiterInv, Next, NEW w \in Worker, Dispatches(w)
    PROVE  MayDequeue /\ TakeJob(w)
<1>1. pc \in [Worker -> {"top", "wait", "check", "dequeue", "handle", "done"}]
  BY DEF LimiterInv, TypeOK
<1>2. pc[w] # "handle" /\ pc'[w] = "handle"
  BY DEF Dispatches
<1>3. \E x \in Worker : WorkerStep(x) \/ HandlerReturns(x)
  BY <1>2 DEF Next, HandleMany, HandleManyStep, Pause, PauseStep, OnEvent, observeJob,
             Shutdown, CancelIntake, DrainBegin, WorkersExited, DrainReturns, DrainExpires
<1>4. PICK x \in Worker : WorkerStep(x) \/ HandlerReturns(x)
  BY <1>3
<1>5. tryDequeueWork(x) /\ MayDequeue /\ TakeJob(x)
  BY <1>1, <1>2, <1>4 DEF WorkerStep, WorkerLook, WorkerWake, WorkerCheck,
     tryDequeueWork, HandlerReturns, HandlerSucceeds, HandlerFails
<1>6. x = w
  BY <1>1, <1>2, <1>5 DEF TakeJob
<1> QED BY <1>5, <1>6

\* HandleMany keeps, of the queue and of the batch, what is not outranked.
LEMMA HandleManySheds ==
    ASSUME LimiterInv, NEW b \in Batches, HandleManyStep(b)
    PROVE  /\ \A i \in 1..Len(queue) :
                 Lists(queue', queue[i].id) \/ Outranked(queue[i], queue')
           /\ \A i \in FirstOccurrences(b) :
                 \/ Lists(queue, b[i].id) \/ Lists(queue', b[i].id)
                 \/ Outranked(b[i], queue')
<1> DEFINE s == queue \o b
<1>1. queue \in Seq(QueuedJob) /\ b \in Seq(QueuedJob)
  <2>1. b \in Seq(QueuedJob)
    BY MaxBatchAssumption, SeqDef DEF Batches
  <2> QED BY <2>1 DEF LimiterInv, TypeOK
<1>2. /\ Len(queue) \in Nat /\ Len(b) \in Nat
      /\ s \in Seq(QueuedJob)
      /\ Len(s) = Len(queue) + Len(b)
      /\ \A k \in 1..Len(queue) : s[k] = queue[k]
      /\ \A k \in 1..Len(b) : s[Len(queue) + k] = b[k]
  BY <1>1, LenProperties, ConcatProperties
<1>3. queue' = Truncate(SortByPriority(inPlaceDedup(s)))
  BY DEF HandleManyStep
<1>4. \A k \in FirstOccurrences(s) : Lists(queue', s[k].id) \/ Outranked(s[k], queue')
  <2> HIDE DEF s
  <2> QED BY <1>2, <1>3, ShedFacts
<1>5. \A a, c \in 1..Len(queue) : a < c => queue[a].id # queue[c].id
  BY DEF LimiterInv, QueueOrdered
<1> HIDE DEF s
<1>6. ASSUME NEW i \in 1..Len(queue)
      PROVE  Lists(queue', queue[i].id) \/ Outranked(queue[i], queue')
  <2>1. i \in FirstOccurrences(s)
    BY <1>2, <1>5 DEF FirstOccurrences
  <2> QED BY <1>2, <1>4, <2>1
<1>7. ASSUME NEW i \in FirstOccurrences(b), ~Lists(queue, b[i].id)
      PROVE  Lists(queue', b[i].id) \/ Outranked(b[i], queue')
  <2>1. i \in 1..Len(b) /\ \A k \in 1..(i - 1) : b[k].id # b[i].id
    BY DEF FirstOccurrences
  <2>2. \A k \in 1..Len(queue) : queue[k].id # b[i].id
    BY <1>7 DEF Lists
  <2>3. Len(queue) + i \in 1..Len(s) /\ s[Len(queue) + i] = b[i]
    BY <1>2, <2>1
  <2>4. ASSUME NEW k \in 1..(Len(queue) + i - 1) PROVE s[k].id # b[i].id
    <3>1. CASE k <= Len(queue)
      <4>1. k \in 1..Len(queue)
        BY <1>2, <2>1, <3>1
      <4> QED BY <1>2, <2>2, <4>1
    <3>2. CASE ~(k <= Len(queue))
      <4>1. k - Len(queue) \in 1..(i - 1) /\ k - Len(queue) \in 1..Len(b)
            /\ Len(queue) + (k - Len(queue)) = k
        BY <1>2, <2>1, <3>2
      <4>2. s[k] = b[k - Len(queue)]
        BY <1>2, <4>1
      <4> QED BY <2>1, <4>1, <4>2
    <3> QED BY <3>1, <3>2
  <2>5. Len(queue) + i \in FirstOccurrences(s)
    BY <2>3, <2>4 DEF FirstOccurrences
  <2> QED BY <1>4, <2>3, <2>5
<1> QED BY <1>6, <1>7

\* What tryDequeueWork takes out of the queue is known to the limiter.
LEMMA DequeueSheds ==
    ASSUME LimiterInv, NEW w \in Worker, tryDequeueWork(w), NEW i \in 1..Len(queue)
    PROVE  Lists(queue', queue[i].id) \/ jobs'[queue[i].id] # NoState
<1>1. /\ queue \in Seq(QueuedJob) /\ Len(queue) \in Nat
      /\ jobs \in [Job -> JobState \cup {NoState}]
      /\ \A k \in 1..Len(queue) : queue[k].id \in Job
  <2>1. queue \in Seq(QueuedJob)
    BY DEF LimiterInv, TypeOK
  <2>2. \A k \in 1..Len(queue) : queue[k] \in QueuedJob
    BY <2>1, ElementOfSeq
  <2>3. Len(queue) \in Nat
    BY <2>1, LenProperties
  <2> QED BY <2>1, <2>2, <2>3 DEF LimiterInv, TypeOK, QueuedJob
<1>2. CASE TakeJob(w)
  <2>1. PICK a \in Fresh :
            /\ \A k \in Fresh : a <= k
            /\ queue' = SubSeq(queue, a + 1, Len(queue))
            /\ jobs' = [jobs EXCEPT ![queue[a].id] = [owner |-> w, finished |-> FALSE]]
    BY <1>2 DEF TakeJob
  <2>2. a \in 1..Len(queue) /\ [owner |-> w, finished |-> FALSE] # NoState
    <3>1. [owner |-> w, finished |-> FALSE] \in JobState
      BY DEF JobState
    <3> QED BY <2>1, <3>1, NoStateAssumption DEF Fresh
  <2>3. CASE i < a
    <3>1. jobs[queue[i].id] # NoState
      BY <1>1, <2>1, <2>2, <2>3 DEF Fresh
    <3> QED BY <1>1, <2>1, <2>2, <3>1
  <2>4. CASE i = a
    BY <1>1, <2>1, <2>2, <2>4
  <2>5. CASE a < i
    <3>1. /\ Len(queue') = Len(queue) - a
          /\ i - a \in 1..(Len(queue) - a)
          /\ queue'[i - a] = queue[i]
      BY <1>1, <2>1, <2>2, <2>5
    <3> QED BY <3>1 DEF Lists
  <2> QED BY <1>1, <2>2, <2>3, <2>4, <2>5
<1>3. CASE /\ ~MayDequeue \/ Fresh = {}
           /\ queue' = IF MayDequeue THEN <<>> ELSE queue
           /\ UNCHANGED jobs
  <2>1. CASE MayDequeue
    <3>1. jobs[queue[i].id] # NoState
      BY <1>3, <2>1 DEF Fresh
    <3> QED BY <1>3, <3>1
  <2>2. CASE ~MayDequeue
    BY <1>3, <2>2 DEF Lists
  <2> QED BY <2>1, <2>2
<1> QED BY <1>2, <1>3 DEF tryDequeueWork

\* For every instance, no job is shed in favour of a less urgent one: whatever
\* leaves the queue, or never enters it, is dispatched, known, given up by Drain,
\* or outranked by a full queue.
THEOREM ShedOnlyWhenOutrankedHolds == Spec => ShedOnlyWhenOutranked
<1>1. ASSUME LimiterInv PROVE EntersUnlessOutranked
  BY <1>1, HandleManySheds DEF EntersUnlessOutranked
<1>2. ASSUME LimiterInv, Next PROVE LeavesForAReason
  <2>1. CASE UNCHANGED queue
    BY <2>1 DEF Lists, LeavesForAReason
  <2>2. CASE HandleMany
    BY <1>2, <2>2, HandleManySheds DEF HandleMany, LeavesForAReason
  <2>3. ASSUME NEW w \in Worker, tryDequeueWork(w) PROVE LeavesForAReason
    BY <1>2, <2>3, DequeueSheds DEF LeavesForAReason
  <2>4. CASE DrainBegin
    BY <2>4 DEF DrainBegin, LeavesForAReason
  <2>5. \/ UNCHANGED queue \/ HandleMany \/ DrainBegin
        \/ \E w \in Worker : tryDequeueWork(w)
    BY <1>2 DEF Next, Pause, PauseStep, OnEvent, observeJob, WorkerStep, WorkerLook,
       WorkerWake, WorkerCheck, HandlerReturns, HandlerSucceeds, HandlerFails,
       Shutdown, CancelIntake, WorkersExited, DrainReturns, DrainExpires
  <2> QED BY <2>1, <2>2, <2>3, <2>4, <2>5
<1>3. LimiterInv /\ [Next]_limiterVars => [LeavesForAReason /\ EntersUnlessOutranked]_limiterVars
  BY <1>1, <1>2
<1> QED BY <1>3, LimiterInvariant, PTL DEF Spec, ShedOnlyWhenOutranked

\* For every instance, tryDequeueWork takes a job of the highest priority among those
\* it could take, however the queue was merged, sorted and truncated before, and
\* leaves no other entry of it behind.
THEOREM HighestPriorityFirstHolds == Spec => HighestPriorityFirst
<1> DEFINE TakesBest(w) ==
             \E i \in Fresh :
                 /\ queue[i].id = work'[w]
                 /\ \A k \in Fresh : queue[k].priority <= queue[i].priority
                 /\ \A k \in 1..Len(queue') : queue'[k].id # work'[w]
<1>1. ASSUME LimiterInv, Next, NEW w \in Worker, Dispatches(w) PROVE TakesBest(w)
  <2>1. PICK i \in Fresh :
            /\ \A k \in Fresh : i <= k
            /\ queue' = SubSeq(queue, i + 1, Len(queue))
            /\ work' = [work EXCEPT ![w] = queue[i].id]
    BY <1>1, DispatchStep DEF TakeJob
  <2>2. /\ queue \in Seq(QueuedJob) /\ Len(queue) \in Nat
        /\ work \in [Worker -> Job \cup {NoJob}]
    BY <1>1, LenProperties DEF LimiterInv, TypeOK
  <2>3. Fresh \subseteq 1..Len(queue)
    BY DEF Fresh
  <2>4. \A a, b \in 1..Len(queue) :
            a < b => queue[a].id # queue[b].id /\ queue[a].priority >= queue[b].priority
    BY <1>1 DEF LimiterInv, QueueOrdered
  <2>5. \A a \in 1..Len(queue) : queue[a].priority \in Int
    <3>1. \A a \in 1..Len(queue) : queue[a] \in QueuedJob
      BY <2>2, ElementOfSeq
    <3> QED BY <3>1, LimiterAssumption DEF QueuedJob
  <2>6. queue[i].id = work'[w]
    BY <2>1, <2>2
  <2>7. \A k \in Fresh : queue[k].priority <= queue[i].priority
    <3> SUFFICES ASSUME NEW k \in Fresh PROVE queue[k].priority <= queue[i].priority
      OBVIOUS
    <3>1. k = i \/ i < k
      BY <2>1, <2>2, <2>3
    <3>2. queue[k].priority \in Int /\ queue[i].priority \in Int
      BY <2>3, <2>5
    <3> QED BY <2>3, <2>4, <3>1, <3>2
  <2>8. \A k \in 1..Len(queue') : queue'[k].id # work'[w]
    <3> SUFFICES ASSUME NEW k \in 1..Len(queue') PROVE queue'[k].id # queue[i].id
      BY <2>6
    <3>1. i \in 1..Len(queue)
      BY <2>3
    <3>2. Len(queue') = Len(queue) - i
      BY <2>1, <2>2, <3>1
    <3>3. queue'[k] = queue[i + k] /\ i + k \in 1..Len(queue) /\ i < i + k
      BY <2>1, <2>2, <3>1, <3>2
    <3> QED BY <2>4, <3>1, <3>3
  <2> QED BY <2>6, <2>7, <2>8
<1> HIDE DEF TakesBest
<1>2. LimiterInv /\ [Next]_limiterVars => [\A w \in Worker : Dispatches(w) => TakesBest(w)]_limiterVars
  BY <1>1
<1>3. Spec => [][\A w \in Worker : Dispatches(w) => TakesBest(w)]_limiterVars
  BY <1>2, LimiterInvariant, PTL DEF Spec
<1> QED BY <1>3 DEF HighestPriorityFirst, TakesBest

-----------------------------------------------------------------------------
(* The limiter implements JobSlots: step simulation under the inductive    *)
(* invariant, whose SlotAccounting turns the test of the counter into the  *)
(* abstract condition on the slots in use.                                 *)


\* A worker that is not inside the handler has no job.
IdleWorkers == \A w \in Worker : pc[w] # "handle" => work[w] = NoJob

SlotTable == [j \in Job |-> SlotOf(jobs[j])]

\* Only entering and leaving the handler gives a worker a job and takes it away.
LEMMA IdleWorkersStep ==
    ASSUME LimiterInv, IdleWorkers, [Next]_limiterVars PROVE IdleWorkers'
<1> USE DEF LimiterInv, TypeOK, IdleWorkers
<1>1. CASE HandleMany
  BY <1>1 DEF HandleMany, HandleManyStep
<1>2. CASE Pause
  BY <1>2 DEF Pause, PauseStep
<1>3. CASE OnEvent
  BY <1>3 DEF OnEvent, observeJob
<1>4. ASSUME NEW w \in Worker, WorkerStep(w) PROVE IdleWorkers'
  BY <1>4 DEF WorkerStep, WorkerLook, WorkerWake, WorkerCheck, tryDequeueWork, TakeJob
<1>5. ASSUME NEW w \in Worker, HandlerReturns(w) PROVE IdleWorkers'
  BY <1>5 DEF HandlerReturns, HandlerSucceeds, HandlerFails
<1>6. CASE Shutdown
  BY <1>6 DEF Shutdown, CancelIntake, DrainBegin, WorkersExited, DrainReturns, DrainExpires
<1>7. CASE UNCHANGED limiterVars
  BY <1>7 DEF limiterVars
<1> QED BY <1>1, <1>2, <1>3, <1>4, <1>5, <1>6, <1>7 DEF Next

\* What a slot says about the entry it stands for.
LEMMA SlotFacts ==
    ASSUME LimiterInv, NEW j \in Job
    PROVE  /\ SlotOf(jobs[j]) = Slots!Free <=> jobs[j] = NoState
           /\ SlotOf(jobs[j]).stage \in {"claimed", "running"} <=> Occupies(jobs[j])
           /\ SlotOf(jobs[j]).stage = "over" <=> jobs[j] # NoState /\ jobs[j].finished
<1>1. jobs[j] \in JobState \cup {NoState}
  BY DEF LimiterInv, TypeOK
<1>2. CASE jobs[j] = NoState
  BY <1>2 DEF SlotOf, Slots!Free, Slots!Slot, Occupies
<1>3. CASE jobs[j] # NoState /\ jobs[j].finished
  BY <1>1, <1>3 DEF SlotOf, Slots!Free, Slots!Slot, Occupies, JobState
<1>4. CASE jobs[j] # NoState /\ ~jobs[j].finished /\ jobs[j].owner = Informer
  BY <1>1, <1>4 DEF SlotOf, Slots!Free, Slots!Slot, Occupies, JobState
<1>5. CASE jobs[j] # NoState /\ ~jobs[j].finished /\ jobs[j].owner # Informer
  BY <1>1, <1>5 DEF SlotOf, Slots!Free, Slots!Slot, Occupies, JobState
<1> QED BY <1>2, <1>3, <1>4, <1>5

\* Changing one entry changes the slot of that job and no other.
LEMMA OneSlotChange ==
    ASSUME LimiterInv, NEW j \in Job, NEW s, jobs' = [jobs EXCEPT ![j] = s]
    PROVE  Slots!Set(j, SlotOf(s))
BY DEF LimiterInv, TypeOK, Slots!Set, SlotOf

\* A worker that takes a job claims a free slot while fewer than MaxInFlight are
\* in use.
LEMMA TakeJobClaims ==
    ASSUME LimiterInv, IdleWorkers, NEW w \in Worker,
           pc[w] = "dequeue", MayDequeue, TakeJob(w)
    PROVE  \E j \in Job : Slots!Claim(w, j)
<1>1. PICK i \in Fresh : /\ jobs' = [jobs EXCEPT ![queue[i].id] = [owner |-> w, finished |-> FALSE]]
                         /\ work' = [work EXCEPT ![w] = queue[i].id]
  BY DEF TakeJob
<1> DEFINE j == queue[i].id
<1>2. j \in Job /\ jobs[j] = NoState
  <2>1. i \in 1..Len(queue) /\ jobs[j] = NoState
    BY DEF Fresh
  <2>2. queue[i] \in QueuedJob
    BY <2>1, ElementOfSeq DEF LimiterInv, TypeOK
  <2> QED BY <2>1, <2>2 DEF QueuedJob
<1>3. work[w] = NoJob
  BY DEF IdleWorkers
<1>4. SlotTable[j] = Slots!Free
  BY <1>2, SlotFacts DEF SlotTable
<1>5. MaxInFlight > 0 => Slots!Cardinality(Slots!InUse) < MaxInFlight
  <2>1. Slots!InUse = Occupying
    BY SlotFacts DEF Slots!InUse, Occupying, OccupiedIn
  <2>2. MaxInFlight > 0 => inFlight < MaxInFlight
    BY LimiterAssumption DEF MayDequeue, AtCapacity, LimiterInv, TypeOK
  <2>3. Slots!Cardinality(Occupying) = Cardinality(Occupying)
    BY DEF Slots!Cardinality, Cardinality
  <2> QED BY <2>1, <2>2, <2>3 DEF LimiterInv, SlotAccounting
<1>6. SlotOf([owner |-> w, finished |-> FALSE]) = Slots!Claimed(w)
  <2>1. [owner |-> w, finished |-> FALSE] \in JobState /\ w # Informer
    BY LimiterAssumption DEF JobState
  <2>2. [owner |-> w, finished |-> FALSE] # NoState
    BY <2>1, NoStateAssumption
  <2> QED BY <2>1, <2>2 DEF SlotOf, Slots!Claimed, Slots!Slot
<1>7. Slots!Set(j, Slots!Claimed(w))
  BY <1>1, <1>2, <1>6, OneSlotChange
<1> QED BY <1>1, <1>2, <1>3, <1>4, <1>5, <1>7 DEF Slots!Claim, SlotTable

\* A handler that returns ends the dispatch, and frees at most its own claim.
LEMMA HandlerEndsDispatch ==
    ASSUME LimiterInv, NEW w \in Worker, HandlerReturns(w)
    PROVE  Slots!EndDispatch(w)
<1>1. pc[w] = "handle" /\ work[w] \in Job /\ work[w] # NoJob
  BY LimiterAssumption DEF HandlerReturns, HandlerSucceeds, HandlerFails, LimiterInv, WorkAssigned
<1>2. work' = [work EXCEPT ![w] = NoJob]
  BY DEF HandlerReturns, HandlerSucceeds, HandlerFails
<1>3. CASE UNCHANGED jobs
  BY <1>1, <1>2, <1>3 DEF Slots!EndDispatch
<1>4. CASE HoldsState(w, work[w]) /\ jobs' = [jobs EXCEPT ![work[w]] = NoState]
  <2> DEFINE j == work[w]
  <2>1. jobs[j] # NoState /\ jobs[j].owner = w /\ w # Informer /\ ~jobs[j].finished
    BY <1>1, <1>4, LimiterAssumption DEF HoldsState, LimiterInv, AttemptsUnfinished
  <2>2. SlotTable[j] = Slots!Claimed(w)
    BY <1>1, <2>1 DEF SlotTable, SlotOf, Slots!Claimed, Slots!Slot
  <2>3. SlotOf(NoState) = Slots!Free
    BY DEF SlotOf, Slots!Free, Slots!Slot
  <2>4. Slots!Set(j, Slots!Free)
    BY <1>1, <1>4, <2>3, OneSlotChange
  <2> QED BY <1>1, <1>2, <2>2, <2>4 DEF Slots!EndDispatch, SlotTable
<1> QED BY <1>3, <1>4 DEF HandlerReturns, HandlerSucceeds, HandlerFails

\* An informer event shows the Job of one UUID running, over or gone.
LEMMA EventSeen ==
    ASSUME LimiterInv, NEW j \in Job, NEW fin \in BOOLEAN, NEW deleted \in BOOLEAN,
           observeJob(j, fin, deleted)
    PROVE  Slots!Seen(j)
<1> DEFINE f == IF jobs[j] = NoState THEN fin ELSE jobs[j].finished \/ deleted \/ fin
           s == IF deleted THEN NoState ELSE InformerState(f)
<1>1. jobs' = [jobs EXCEPT ![j] = s] /\ work' = work
  BY DEF observeJob
<1>2. Slots!Set(j, SlotOf(s))
  BY <1>1, OneSlotChange
<1>3. jobs[j] # NoState => jobs[j].finished \in BOOLEAN
  BY DEF LimiterInv, TypeOK, JobState
<1>4. \A g \in BOOLEAN : InformerState(g) # NoState
  BY NoStateAssumption DEF InformerState, JobState
<1>5. CASE deleted
  <2>1. SlotOf(s) = Slots!Free
    BY <1>5 DEF SlotOf, Slots!Free, Slots!Slot
  <2> QED BY <1>1, <1>2, <2>1 DEF Slots!Seen
<1>6. CASE ~deleted /\ f
  <2>1. SlotOf(s) = Slots!Over
    <3>1. s = InformerState(TRUE)
      BY <1>3, <1>6
    <3> QED BY <1>4, <3>1 DEF SlotOf, InformerState, Slots!Over, Slots!Slot
  <2> QED BY <1>1, <1>2, <2>1 DEF Slots!Seen
<1>7. CASE ~deleted /\ ~f
  <2>1. SlotOf(s) = Slots!Running
    <3>1. s = InformerState(FALSE)
      BY <1>3, <1>7
    <3> QED BY <1>4, <3>1 DEF SlotOf, InformerState, Slots!Running, Slots!Slot
  <2>2. SlotTable[j].stage # "over"
    BY <1>7, SlotFacts DEF SlotTable
  <2> QED BY <1>1, <1>2, <2>1, <2>2 DEF Slots!Seen, SlotTable
<1> QED BY <1>5, <1>6, <1>7

\* Every step of the limiter is a step of JobSlots or leaves its state alone.
LEMMA StepSimulation ==
    ASSUME LimiterInv, IdleWorkers, [Next]_limiterVars
    PROVE  [Slots!SlotsNext]_(Slots!slotVars)
<1>1. CASE jobs' = jobs /\ work' = work
  BY <1>1 DEF Slots!slotVars
<1>2. ASSUME NEW w \in Worker, WorkerStep(w)
      PROVE  (jobs' = jobs /\ work' = work) \/ \E j \in Job : Slots!Claim(w, j)
  <2>1. CASE tryDequeueWork(w)
    BY <1>2, <2>1, TakeJobClaims DEF tryDequeueWork
  <2>2. CASE WorkerLook(w) \/ WorkerWake(w) \/ WorkerCheck(w)
    BY <2>2 DEF WorkerLook, WorkerWake, WorkerCheck
  <2> QED BY <1>2, <2>1, <2>2 DEF WorkerStep
<1>3. ASSUME NEW w \in Worker, HandlerReturns(w) PROVE Slots!EndDispatch(w)
  BY <1>3, HandlerEndsDispatch
<1>4. ASSUME OnEvent PROVE \E j \in Job : Slots!Seen(j)
  BY <1>4, EventSeen DEF OnEvent
<1>5. HandleMany \/ Pause \/ Shutdown => jobs' = jobs /\ work' = work
  BY DEF HandleMany, HandleManyStep, Pause, PauseStep, Shutdown, CancelIntake, DrainBegin,
         WorkersExited, DrainReturns, DrainExpires
<1>6. UNCHANGED limiterVars => jobs' = jobs /\ work' = work
  BY DEF limiterVars
<1> QED BY <1>1, <1>2, <1>3, <1>4, <1>5, <1>6 DEF Next, Slots!SlotsNext

\* The informer's first list gives every job a slot that is free, running or over.
LEMMA InitSimulation == Init => Slots!SlotsInit /\ IdleWorkers
<1> SUFFICES ASSUME NEW inherited \in Inherited, InitWith(inherited)
             PROVE  Slots!SlotsInit /\ IdleWorkers
  BY DEF Init
<1>1. jobs = inherited /\ work = [w \in Worker |-> NoJob]
  BY DEF InitWith
<1>2. ASSUME NEW j \in Job PROVE SlotOf(jobs[j]) \in {Slots!Free, Slots!Running, Slots!Over}
  <2>1. jobs[j] = NoState \/ \E f \in BOOLEAN : jobs[j] = InformerState(f)
    BY <1>1 DEF Inherited
  <2>2. CASE jobs[j] = NoState
    BY <2>2 DEF SlotOf, Slots!Free, Slots!Slot
  <2>3. ASSUME NEW f \in BOOLEAN, jobs[j] = InformerState(f), jobs[j] # NoState
        PROVE  SlotOf(jobs[j]) \in {Slots!Running, Slots!Over}
    BY <2>3 DEF SlotOf, InformerState, Slots!Running, Slots!Over, Slots!Slot
  <2> QED BY <2>1, <2>2, <2>3
<1>3. Slots!SlotsInit
  BY <1>1, <1>2 DEF Slots!SlotsInit
<1> QED BY <1>1, <1>3 DEF IdleWorkers

\* The limiter implements its abstract specification: whatever order dispatches,
\* failures and informer events come in, a slot is claimed only below MaxInFlight
\* and freed only by its claimant's failure or by the cluster
\* (limiter.go:219-238, 299-328, 354-415).
THEOREM LimiterImplementsJobSlots == Spec => ImplementsJobSlots
<1>1. Spec => [](LimiterInv /\ IdleWorkers)
  <2>1. Init => IdleWorkers
    BY InitSimulation
  <2>2. LimiterInv /\ IdleWorkers /\ [Next]_limiterVars => IdleWorkers'
    BY IdleWorkersStep
  <2> QED BY <2>1, <2>2, LimiterInvariant, PTL DEF Spec
<1>2. Init => Slots!SlotsInit
  BY InitSimulation
<1>3. LimiterInv /\ IdleWorkers /\ [Next]_limiterVars => [Slots!SlotsNext]_(Slots!slotVars)
  BY StepSimulation
<1> QED BY <1>1, <1>2, <1>3, PTL DEF Spec, ImplementsJobSlots, Slots!SlotsSpec
=============================================================================
