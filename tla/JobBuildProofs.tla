--------------------------- MODULE JobBuildProofs ---------------------------
(***************************************************************************)
(* Theorems about the pods that are built, for every set of configurations,*)
(* jobs and patches, jobs of any size, and any number of builds.           *)
(***************************************************************************)
EXTENDS JobBuild, FiniteSetTheorems, SequenceTheorems, WellFoundedInduction, TLAPS

-----------------------------------------------------------------------------
(* Sequences: what concatenating, picking positions and dropping duplicates *)
(* keep.                                                                   *)

\* A concatenation has the elements of both sequences.
LEMMA RangeConcat ==
    ASSUME NEW S, NEW s \in Seq(S), NEW t \in Seq(S)
    PROVE  /\ s \o t \in Seq(S)
           /\ ToSet(s \o t) = ToSet(s) \cup ToSet(t)
<1>1. /\ s \o t \in Seq(S) /\ Len(s \o t) = Len(s) + Len(t)
      /\ \A i \in 1..(Len(s) + Len(t)) :
            (s \o t)[i] = IF i <= Len(s) THEN s[i] ELSE t[i - Len(s)]
  BY ConcatProperties
<1>2. /\ DOMAIN s = 1..Len(s) /\ DOMAIN t = 1..Len(t) /\ Len(s) \in Nat /\ Len(t) \in Nat
      /\ DOMAIN (s \o t) = 1..(Len(s) + Len(t))
  BY <1>1, LenProperties
<1>3. ToSet(s \o t) \subseteq ToSet(s) \cup ToSet(t)
  BY <1>1, <1>2 DEF ToSet
<1>4. ASSUME NEW i \in DOMAIN s PROVE s[i] \in ToSet(s \o t)
  BY <1>1, <1>2, <1>4 DEF ToSet
<1>5. ASSUME NEW i \in DOMAIN t PROVE t[i] \in ToSet(s \o t)
  <2>1. i + Len(s) \in DOMAIN (s \o t) /\ (s \o t)[i + Len(s)] = t[i]
    BY <1>1, <1>2, <1>5
  <2> QED BY <2>1 DEF ToSet
<1>6. ToSet(s) \subseteq ToSet(s \o t) /\ ToSet(t) \subseteq ToSet(s \o t)
  BY <1>4, <1>5 DEF ToSet
<1> QED BY <1>1, <1>3, <1>6

\* The elements of a concatenation are distinct when those of the parts are and
\* the parts have none in common.
LEMMA DistinctConcat ==
    ASSUME NEW S, NEW s \in Seq(S), NEW t \in Seq(S)
    PROVE  Distinct(s \o t) <=> Distinct(s) /\ Distinct(t) /\ ToSet(s) \cap ToSet(t) = {}
<1> DEFINE u == s \o t
<1>1. /\ Len(u) = Len(s) + Len(t)
      /\ \A i \in 1..(Len(s) + Len(t)) : u[i] = IF i <= Len(s) THEN s[i] ELSE t[i - Len(s)]
  BY ConcatProperties
<1>2. /\ DOMAIN s = 1..Len(s) /\ DOMAIN t = 1..Len(t) /\ Len(s) \in Nat /\ Len(t) \in Nat
      /\ DOMAIN u = 1..(Len(s) + Len(t))
  BY <1>1, LenProperties, ConcatProperties
<1> HIDE DEF u
<1>3. ASSUME NEW i \in DOMAIN s PROVE i \in DOMAIN u /\ u[i] = s[i]
  BY <1>1, <1>2, <1>3
<1>4. ASSUME NEW i \in DOMAIN t PROVE i + Len(s) \in DOMAIN u /\ u[i + Len(s)] = t[i]
  BY <1>1, <1>2, <1>4
<1>5. ASSUME Distinct(u) PROVE Distinct(s) /\ Distinct(t) /\ ToSet(s) \cap ToSet(t) = {}
  <2>1. Distinct(s)
    BY <1>3, <1>5 DEF Distinct
  <2>2. Distinct(t)
    <3> SUFFICES ASSUME NEW i \in DOMAIN t, NEW k \in DOMAIN t, t[i] = t[k] PROVE i = k
      BY DEF Distinct
    <3>1. i + Len(s) = k + Len(s)
      BY <1>4, <1>5 DEF Distinct
    <3> QED BY <1>2, <3>1
  <2>3. ASSUME NEW i \in DOMAIN s, NEW k \in DOMAIN t, s[i] = t[k] PROVE FALSE
    <3>1. i = k + Len(s)
      BY <1>3, <1>4, <1>5, <2>3 DEF Distinct
    <3> QED BY <1>2, <3>1
  <2> QED BY <2>1, <2>2, <2>3 DEF ToSet
<1>6. ASSUME Distinct(s), Distinct(t), ToSet(s) \cap ToSet(t) = {} PROVE Distinct(u)
  <2> SUFFICES ASSUME NEW i \in DOMAIN u, NEW k \in DOMAIN u, u[i] = u[k] PROVE i = k
    BY DEF Distinct
  <2>1. \A n \in DOMAIN u : n > Len(s) => n - Len(s) \in DOMAIN t /\ u[n] = t[n - Len(s)]
    BY <1>1, <1>2
  <2>2. \A n \in DOMAIN u : n <= Len(s) => n \in DOMAIN s /\ u[n] = s[n]
    BY <1>1, <1>2
  <2>3. \A n \in DOMAIN s, m \in DOMAIN t : s[n] # t[m]
    BY <1>6 DEF ToSet
  <2>4. CASE i <= Len(s) /\ k <= Len(s)
    BY <1>6, <2>2, <2>4 DEF Distinct
  <2>5. CASE i > Len(s) /\ k > Len(s)
    <3>1. i - Len(s) = k - Len(s)
      BY <1>6, <2>1, <2>5 DEF Distinct
    <3> QED BY <1>2, <3>1
  <2>6. CASE (i <= Len(s) /\ k > Len(s)) \/ (i > Len(s) /\ k <= Len(s))
    <3>1. CASE i <= Len(s) /\ k > Len(s)
      BY <2>1, <2>2, <2>3, <3>1
    <3>2. CASE i > Len(s) /\ k <= Len(s)
      BY <2>1, <2>2, <2>3, <3>2
    <3> QED BY <2>6, <3>1, <3>2
  <2> QED BY <1>2, <2>4, <2>5, <2>6
<1> QED BY <1>5, <1>6 DEF u

\* Three and four sequences in a row.
LEMMA Concat3 ==
    ASSUME NEW S, NEW s \in Seq(S), NEW t \in Seq(S), NEW u \in Seq(S)
    PROVE  /\ s \o t \o u \in Seq(S)
           /\ ToSet(s \o t \o u) = ToSet(s) \cup ToSet(t) \cup ToSet(u)
           /\ Distinct(s \o t \o u) <=>
                 /\ Distinct(s) /\ Distinct(t) /\ Distinct(u)
                 /\ ToSet(s) \cap ToSet(t) = {} /\ (ToSet(s) \cup ToSet(t)) \cap ToSet(u) = {}
<1>1. PICK a : a = s \o t
  OBVIOUS
<1>2. a \in Seq(S) /\ ToSet(a) = ToSet(s) \cup ToSet(t)
  BY <1>1, RangeConcat
<1>3. Distinct(a) <=> Distinct(s) /\ Distinct(t) /\ ToSet(s) \cap ToSet(t) = {}
  BY <1>1, DistinctConcat
<1>4. a \o u \in Seq(S) /\ ToSet(a \o u) = ToSet(a) \cup ToSet(u)
  BY <1>2, RangeConcat
<1>5. Distinct(a \o u) <=> Distinct(a) /\ Distinct(u) /\ ToSet(a) \cap ToSet(u) = {}
  BY <1>2, DistinctConcat
<1>6. s \o t \o u = a \o u
  BY <1>1
<1> QED BY <1>2, <1>3, <1>4, <1>5, <1>6, Zenon

\* The elements of the parts are distinct, and the parts have none in common.
DistinctParts(s, t, u, v) ==
    /\ Distinct(s) /\ Distinct(t) /\ Distinct(u) /\ Distinct(v)
    /\ ToSet(s) \cap ToSet(t) = {} /\ (ToSet(s) \cup ToSet(t)) \cap ToSet(u) = {}
    /\ (ToSet(s) \cup ToSet(t) \cup ToSet(u)) \cap ToSet(v) = {}

\* The same for the four parts of a list that Build puts together.
LEMMA Concat4 ==
    ASSUME NEW S, NEW s \in Seq(S), NEW t \in Seq(S), NEW u \in Seq(S), NEW v \in Seq(S)
    PROVE  /\ s \o t \o u \o v \in Seq(S)
           /\ ToSet(s \o t \o u \o v) = ToSet(s) \cup ToSet(t) \cup ToSet(u) \cup ToSet(v)
           /\ Distinct(s \o t \o u \o v) <=> DistinctParts(s, t, u, v)
<1>1. PICK a : a = s \o t
  OBVIOUS
<1>2. a \in Seq(S) /\ ToSet(a) = ToSet(s) \cup ToSet(t)
  BY <1>1, RangeConcat
<1>3. Distinct(a) <=> Distinct(s) /\ Distinct(t) /\ ToSet(s) \cap ToSet(t) = {}
  BY <1>1, DistinctConcat
<1>4. /\ a \o u \o v \in Seq(S) /\ ToSet(a \o u \o v) = ToSet(a) \cup ToSet(u) \cup ToSet(v)
      /\ Distinct(a \o u \o v) <=>
                 /\ Distinct(a) /\ Distinct(u) /\ Distinct(v)
                 /\ ToSet(a) \cap ToSet(u) = {} /\ (ToSet(a) \cup ToSet(u)) \cap ToSet(v) = {}
  BY <1>2, Concat3
<1>5. s \o t \o u \o v = a \o u \o v
  BY <1>1
<1> QED BY <1>2, <1>3, <1>4, <1>5, Zenon DEF DistinctParts

\* Distinctness alone, for a list given by name.
LEMMA Distinct4 ==
    ASSUME NEW S, NEW s \in Seq(S), NEW t \in Seq(S), NEW u \in Seq(S), NEW v \in Seq(S),
           NEW all, all = s \o t \o u \o v
    PROVE  Distinct(all) <=> DistinctParts(s, t, u, v)
<1>1. Distinct(s \o t \o u \o v) <=> DistinctParts(s, t, u, v)
  BY Concat4
<1> QED BY <1>1

\* One element more.
LEMMA OneMore ==
    ASSUME NEW S, NEW s \in Seq(S), NEW x \in S
    PROVE  /\ s \o <<x>> \in Seq(S) /\ Len(s \o <<x>>) = Len(s) + 1
           /\ (s \o <<x>>)[Len(s) + 1] = x /\ \A i \in 1..Len(s) : (s \o <<x>>)[i] = s[i]
           /\ ToSet(s \o <<x>>) = ToSet(s) \cup {x}
<1>1. PICK t : t = <<x>>
  OBVIOUS
<1>2. t \in Seq(S) /\ Len(t) = 1 /\ t[1] = x /\ ToSet(t) = {x}
  BY <1>1 DEF ToSet
<1>3. /\ s \o t \in Seq(S) /\ Len(s \o t) = Len(s) + Len(t)
      /\ \A i \in 1..(Len(s) + Len(t)) :
            (s \o t)[i] = IF i <= Len(s) THEN s[i] ELSE t[i - Len(s)]
  BY <1>2, ConcatProperties
<1>4. Len(s) \in Nat
  BY LenProperties
<1>5. PICK u : u = s \o t
  OBVIOUS
<1>6. u[Len(s) + 1] = x /\ \A i \in 1..Len(s) : u[i] = s[i]
  BY <1>2, <1>3, <1>4, <1>5
<1>7. ToSet(s \o t) = ToSet(s) \cup ToSet(t)
  BY <1>2, RangeConcat
<1> QED BY <1>1, <1>2, <1>3, <1>5, <1>6, <1>7, Zenon

\* A function on 1..n is a sequence.
LEMMA FunctionIsSeq ==
    ASSUME NEW S, NEW n \in Nat, NEW g \in [1..n -> S]
    PROVE  g \in Seq(S) /\ Len(g) = n /\ DOMAIN g = 1..n
<1>1. g \in Seq(S)
  BY SeqDef
<1>2. Len(g) \in Nat /\ DOMAIN g = 1..Len(g) /\ DOMAIN g = 1..n
  BY <1>1, LenProperties
<1> QED BY <1>1, <1>2

\* t consists of the elements of s at the positions I; f says which is which.
Lists(t, s, I, f) ==
    /\ f \in [DOMAIN t -> I]
    /\ \A n \in DOMAIN t : t[n] = s[f[n]]
    /\ \A n, m \in DOMAIN t : f[n] = f[m] => n = m
    /\ \A i \in I : \E n \in DOMAIN t : f[n] = i

\* Picking the positions I enumerates them, each once and none left out.
LEMMA PickFacts ==
    ASSUME NEW S, NEW s \in Seq(S), NEW I \in SUBSET (DOMAIN s)
    PROVE  Pick(s, I) \in Seq(S) /\ \E f : Lists(Pick(s, I), s, I, f)
<1> DEFINE N == Cardinality(I)
           before(i) == {k \in I : k < i}
           rank == [i \in I |-> Cardinality(before(i))]
           f == [n \in 1..N |-> CHOOSE i \in I : Cardinality(before(i)) = n - 1]
<1>1. DOMAIN s = 1..Len(s) /\ Len(s) \in Nat /\ I \subseteq Nat
  BY LenProperties
<1>2. IsFiniteSet(I) /\ N \in Nat
  <2>1. IsFiniteSet(1..Len(s))
    BY <1>1, FS_Interval
  <2> QED BY <1>1, <2>1, FS_Subset, FS_CardinalityType
<1>3. ASSUME NEW i \in I
      PROVE  IsFiniteSet(before(i)) /\ Cardinality(before(i)) \in 0..(N - 1)
  <2>1. before(i) \in SUBSET (I \ {i})
    BY <1>1
  <2>2. IsFiniteSet(I \ {i}) /\ Cardinality(I \ {i}) = N - 1
    BY <1>2, <1>3, FS_RemoveElement
  <2>3. IsFiniteSet(before(i)) /\ Cardinality(before(i)) <= N - 1
    BY <2>1, <2>2, FS_Subset
  <2>4. Cardinality(before(i)) \in Nat
    BY <2>3, FS_CardinalityType
  <2> QED BY <1>2, <2>3, <2>4
<1>4. ASSUME NEW i \in I, NEW k \in I, k < i
      PROVE  Cardinality(before(k)) < Cardinality(before(i))
  <2>1. before(k) \in SUBSET before(i) /\ k \in before(i) /\ k \notin before(k)
    BY <1>1, <1>4
  <2>2. Cardinality(before(k)) <= Cardinality(before(i))
        /\ Cardinality(before(k)) # Cardinality(before(i))
    BY <1>3, <1>4, <2>1, FS_Subset
  <2>3. Cardinality(before(k)) \in 0..(N - 1) /\ Cardinality(before(i)) \in 0..(N - 1)
    BY <1>3
  <2> QED BY <1>2, <2>2, <2>3
<1>5. rank \in Injection(I, 0..(N - 1))
  <2>1. rank \in [I -> 0..(N - 1)]
    BY <1>3
  <2>2. ASSUME NEW i \in I, NEW k \in I, rank[i] = rank[k], i # k PROVE FALSE
    <3>1. i < k \/ k < i
      BY <1>1, <2>2
    <3>2. Cardinality(before(i)) \in 0..(N - 1) /\ Cardinality(before(k)) \in 0..(N - 1)
      BY <1>3
    <3>3. Cardinality(before(i)) = Cardinality(before(k))
      BY <2>2
    <3>4. i < k => Cardinality(before(i)) < Cardinality(before(k))
      BY <1>4
    <3>5. k < i => Cardinality(before(k)) < Cardinality(before(i))
      BY <1>4
    <3> QED BY <1>2, <3>1, <3>2, <3>3, <3>4, <3>5
  <2> QED BY <2>1, <2>2 DEF Injection, IsInjective
<1>6. \A n \in 1..N : \E i \in I : Cardinality(before(i)) = n - 1
  <2>1. IsFiniteSet(0..(N - 1)) /\ Cardinality(0..(N - 1)) = N
    <3>1. PICK n \in Nat : n = N
      BY <1>2
    <3>2. IsFiniteSet(0..(n - 1)) /\ Cardinality(0..(n - 1)) = IF 0 > n - 1 THEN 0 ELSE n - 1 - 0 + 1
      BY FS_Interval
    <3> QED BY <3>1, <3>2
  <2>2. rank \in Surjection(I, 0..(N - 1))
    BY <1>2, <1>5, <2>1, FS_Injection
  <2>3. \A m \in 0..(N - 1) : \E i \in I : rank[i] = m
    BY <2>2 DEF Surjection
  <2>4. \A n \in 1..N : n - 1 \in 0..(N - 1)
    BY <1>2
  <2> QED BY <2>3, <2>4
<1>7. f \in [1..N -> I] /\ \A n \in 1..N : Cardinality(before(f[n])) = n - 1
  BY <1>6
<1>8. ASSUME NEW n \in 1..N, NEW m \in 1..N, f[n] = f[m] PROVE n = m
  <2>1. n - 1 = m - 1
    BY <1>7, <1>8
  <2> QED BY <1>2, <2>1
<1>9. ASSUME NEW i \in I PROVE \E n \in 1..N : f[n] = i
  <2>1. PICK c \in 0..(N - 1) : c = Cardinality(before(i))
    BY <1>3
  <2>2. c + 1 \in 1..N /\ (c + 1) - 1 = c
    BY <1>2, <2>1
  <2>3. PICK k \in I : k = f[c + 1]
    BY <1>7, <2>2
  <2>4. rank[k] = c
    BY <1>7, <2>2, <2>3
  <2>5. rank[i] = c
    BY <2>1
  <2> HIDE DEF rank
  <2>6. k = i
    BY <1>5, <1>9, <2>4, <2>5 DEF Injection, IsInjective
  <2> QED BY <2>2, <2>3, <2>6
<1>10. Pick(s, I) = [n \in 1..N |-> s[f[n]]]
  BY DEF Pick
<1> HIDE DEF f
<1>11. \A n \in 1..N : s[f[n]] \in S
  BY <1>1, <1>7, ElementOfSeq
<1>12. Pick(s, I) \in Seq(S) /\ DOMAIN Pick(s, I) = 1..N
  BY <1>2, <1>10, <1>11
<1>13. Lists(Pick(s, I), s, I, f)
  BY <1>7, <1>8, <1>9, <1>10, <1>12 DEF Lists
<1> QED BY <1>12, <1>13

\* What is picked are the elements at those positions, and they are distinct when
\* those positions have different elements.
LEMMA PickRange ==
    ASSUME NEW S, NEW s \in Seq(S), NEW I \in SUBSET (DOMAIN s)
    PROVE  /\ Pick(s, I) \in Seq(S)
           /\ ToSet(Pick(s, I)) = {s[i] : i \in I}
           /\ (\A i, k \in I : s[i] = s[k] => i = k) => Distinct(Pick(s, I))
<1> DEFINE t == Pick(s, I)
<1>1. PICK f : Lists(t, s, I, f)
  BY PickFacts
<1>2. t \in Seq(S)
  BY PickFacts
<1> HIDE DEF t
<1>3. ToSet(t) = {s[i] : i \in I}
  BY <1>1 DEF ToSet, Lists
<1>4. (\A i, k \in I : s[i] = s[k] => i = k) => Distinct(t)
  BY <1>1 DEF Distinct, Lists
<1> QED BY <1>2, <1>3, <1>4 DEF t

\* PrepareVolumeMounts leaves no two mounts at one path and adds none.
LEMMA DeduplicatedFacts ==
    ASSUME NEW ms \in Seq(VolumeMount)
    PROVE  LET kept == Deduplicated(ms)
           IN /\ kept \in Seq(VolumeMount)
              /\ ToSet(kept) \subseteq ToSet(ms)
              /\ Distinct([i \in DOMAIN kept |-> kept[i].path])
<1> DEFINE I == {i \in DOMAIN ms : \A k \in 1..(i - 1) : ms[k].path # ms[i].path}
           t == Pick(ms, I)
<1>1. DOMAIN ms = 1..Len(ms) /\ Len(ms) \in Nat
  BY LenProperties
<1>2. I \in SUBSET (DOMAIN ms)
  OBVIOUS
<1>3. PICK f : Lists(t, ms, I, f)
  <2> HIDE DEF I
  <2> QED BY <1>2, PickFacts
<1>4. t \in Seq(VolumeMount) /\ ToSet(t) = {ms[i] : i \in I}
  BY <1>2, PickRange
<1>5. \A i, k \in I : ms[i].path = ms[k].path => i = k
  BY <1>1
<1> HIDE DEF t, I
<1>6. Distinct([i \in DOMAIN t |-> t[i].path])
  <2>1. ASSUME NEW n \in DOMAIN t, NEW m \in DOMAIN t, t[n].path = t[m].path PROVE n = m
    <3>1. f[n] \in I /\ f[m] \in I /\ t[n] = ms[f[n]] /\ t[m] = ms[f[m]]
      BY <1>3 DEF Lists
    <3>2. f[n] = f[m]
      BY <1>5, <2>1, <3>1
    <3> QED BY <1>3, <3>2 DEF Lists
  <2> QED BY <2>1 DEF Distinct
<1>7. ToSet(t) \subseteq ToSet(ms)
  BY <1>2, <1>4 DEF ToSet
<1>8. t = Deduplicated(ms)
  BY DEF t, I, Deduplicated
<1> QED BY <1>4, <1>6, <1>7, <1>8

\* A set of positions that is not empty has a last one.
LEMMA MaxFacts ==
    ASSUME NEW S, NEW s \in Seq(S), NEW I \in SUBSET (DOMAIN s), I # {}
    PROVE  Max(I) \in I /\ \A i \in I : i <= Max(I)
<1> DEFINE n == Len(s)
           T == {m \in Nat : \E i \in I : m = n - i}
           R == OpToRel(<, Nat)
<1>1. n \in Nat /\ \A i \in I : i \in Nat /\ i <= n
  BY LenProperties
<1>2. T # {}
  <2>1. PICK i \in I : TRUE
    OBVIOUS
  <2>2. n - i \in T
    BY <1>1, <2>1
  <2> QED BY <2>2
<1>3. PICK m \in T : \A k \in T : ~(<<k, m>> \in R)
  <2> HIDE DEF R
  <2> QED BY <1>2, WFMin, NatLessThanWellFounded DEF R
<1>4. PICK last \in I : m = n - last
  BY <1>3
<1>5. \A i \in I : last >= i
  <2> TAKE i \in I
  <2>1. n - i \in T
    BY <1>1
  <2>2. ~(n - i < m)
    BY <2>1, <1>3 DEF OpToRel
  <2> QED BY <1>1, <1>4, <2>2
<1>6. Max(I) \in I /\ \A i \in I : Max(I) >= i
  BY <1>5 DEF Max
<1> QED BY <1>1, <1>6

-----------------------------------------------------------------------------
(* Merging a patch into a list of containers. *)

PodContainer ==
    [name : Text, image : Text, policy : Text, entry : Text, command : Seq(Text),
     id : Int, mounts : Seq(VolumeMount)]

\* The fields of a container are what it is made of.
LEMMA ContainerFields ==
    ASSUME NEW name \in Text, NEW image \in Text, NEW policy \in Text, NEW entry \in Text,
           NEW command \in Seq(Text), NEW id \in Int, NEW mounts \in Seq(VolumeMount)
    PROVE  LET c == Container(name, image, policy, entry, command, id, mounts)
           IN /\ c \in PodContainer
              /\ c.name = name /\ c.image = image /\ c.policy = policy /\ c.entry = entry
              /\ c.command = command /\ c.id = id /\ c.mounts = mounts
BY DEF Container, PodContainer

\* The names of the patch's containers, or of its init containers.
PatchNames(ps, init) == {ps[k].name : k \in {l \in DOMAIN ps : ps[l].init = init}}

\* The mounts are on volumes of the set.
MountsIn(ms, V) == ms \in Seq(VolumeMount) /\ \A m \in ToSet(ms) : m.vol \in V

\* Concatenating lists of mounts adds no volumes.
LEMMA MountsInConcat ==
    ASSUME NEW ms, NEW ns, NEW V, MountsIn(ms, V), MountsIn(ns, V)
    PROVE  MountsIn(ms \o ns, V)
BY RangeConcat DEF MountsIn

\* What the patch mounts is on volumes of the set.
PatchMountsIn(ps, V) ==
    \A k \in DOMAIN ps : ps[k].mount = NoMount \/ ps[k].mount.vol \in V

\* A patch changes neither of these.
SameContainer(c, d) == d.name = c.name /\ d.id = c.id

\* The containers' mounts are on volumes of the set.
AllMountsIn(cs, V) == \A i \in 1..Len(cs) : MountsIn(cs[i].mounts, V)

\* ds lists the containers of cs, perhaps patched, and then new ones, each with a
\* name of its own out of names.
Extension(cs, ds, names) ==
    /\ ds \in Seq(PodContainer) /\ Len(cs) <= Len(ds)
    /\ \A i \in 1..Len(cs) : SameContainer(cs[i], ds[i])
    /\ \A i \in 1..Len(ds) : i > Len(cs) =>
          /\ ds[i].id = NoId /\ ds[i].name \in names
          /\ \A k \in 1..Len(ds) : ds[k].name = ds[i].name => k = i

\* The last container of the patch that sets a field decides about it.
LEMMA LastSetFacts ==
    ASSUME NEW ps \in Seq(PatchContainer), NEW init, NEW name, NEW field, NEW unset, NEW otherwise,
           NEW set, set = Setting(ps, init, name, field, unset)
    PROVE  /\ set = {} => LastSet(ps, init, name, field, unset, otherwise) = otherwise
           /\ set # {} => /\ Max(set) \in set /\ \A k \in set : k <= Max(set)
                          /\ LastSet(ps, init, name, field, unset, otherwise) = ps[Max(set)][field]
<1>1. set \in SUBSET (DOMAIN ps)
  BY DEF Setting
<1>2. set # {} => Max(set) \in set /\ \A k \in set : k <= Max(set)
  BY <1>1, MaxFacts
<1>3. LastSet(ps, init, name, field, unset, otherwise)
        = IF set = {} THEN otherwise ELSE ps[Max(set)][field]
  BY DEF LastSet
<1> QED BY <1>2, <1>3

\* A field is what it was or what some container of the patch gives.
LEMMA LastSetIn ==
    ASSUME NEW ps \in Seq(PatchContainer), NEW init, NEW name, NEW field, NEW unset, NEW otherwise,
           NEW T, otherwise \in T, \A k \in DOMAIN ps : ps[k][field] \in T
    PROVE  LastSet(ps, init, name, field, unset, otherwise) \in T
<1>0. PICK set : set = Setting(ps, init, name, field, unset)
  OBVIOUS
<1>1. set = {} \/ Max(set) \in DOMAIN ps
  <2>1. set \in SUBSET (DOMAIN ps)
    BY <1>0 DEF Setting
  <2>2. set # {} => Max(set) \in set
    BY <2>1, MaxFacts
  <2> QED BY <2>1, <2>2
<1>2. LastSet(ps, init, name, field, unset, otherwise)
        = IF set = {} THEN otherwise ELSE ps[Max(set)][field]
  BY <1>0 DEF LastSet
<1> QED BY <1>1, <1>2

\* The mounts that a patch gives a container are mounts of the patch.
LEMMA MountingFacts ==
    ASSUME NEW ps \in Seq(PatchContainer), NEW init, NEW name
    PROVE  /\ Mounting(ps, init, name) \in Seq(VolumeMount)
           /\ \A V : PatchMountsIn(ps, V) => MountsIn(Mounting(ps, init, name), V)
<1> DEFINE I == Setting(ps, init, name, "mount", NoMount)
           set == Pick(ps, I)
           ms == Mounting(ps, init, name)
<1>1. I \in SUBSET (DOMAIN ps) /\ \A k \in I : ps[k]["mount"] # NoMount
  BY DEF Setting
<1> HIDE DEF I
<1>2. set \in Seq(PatchContainer) /\ ToSet(set) = {ps[k] : k \in I}
  BY <1>1, PickRange
<1> HIDE DEF set
<1>3. DOMAIN set = 1..Len(set) /\ Len(set) \in Nat /\ \A n \in 1..Len(set) : set[n] \in PatchContainer
  BY <1>2, LenProperties, ElementOfSeq
<1>4. ms = [n \in 1..Len(set) |-> set[Len(set) + 1 - n].mount]
  BY <1>3 DEF Mounting, set, I
<1> HIDE DEF ms
<1>5. \A n \in 1..Len(set) : Len(set) + 1 - n \in 1..Len(set)
  BY <1>3
<1>6. \A n \in 1..Len(set) : set[n].mount \in VolumeMount
  BY <1>3 DEF PatchContainer
<1>7. ms \in [1..Len(set) -> VolumeMount]
  BY <1>4, <1>5, <1>6
<1>8. ms \in Seq(VolumeMount) /\ DOMAIN ms = 1..Len(set)
  BY <1>3, <1>7, FunctionIsSeq
<1>9. ASSUME NEW V, PatchMountsIn(ps, V), NEW n \in 1..Len(set) PROVE ms[n].vol \in V
  <2>1. PICK i \in 1..Len(set) : i = Len(set) + 1 - n /\ ms[n] = set[i].mount
    BY <1>4, <1>5
  <2>2. PICK k \in I : set[i] = ps[k]
    BY <1>2, <1>3 DEF ToSet
  <2> QED BY <1>1, <1>9, <2>1, <2>2 DEF PatchMountsIn
<1>10. \A V : PatchMountsIn(ps, V) => MountsIn(ms, V)
  BY <1>8, <1>9 DEF MountsIn, ToSet
<1> QED BY <1>8, <1>10 DEF ms

\* Merging keeps what it should of a container, and sets the rest as the last
\* container of the patch that sets it says; it adds mounts of the patch.
LEMMA MergeFacts ==
    ASSUME NEW c \in PodContainer, NEW ps \in Seq(PatchContainer), NEW init
    PROVE  LET d == Merge(c, ps, init)
           IN /\ d \in PodContainer /\ SameContainer(c, d)
              /\ d.image = LastSet(ps, init, c.name, "image", "", c.image)
              /\ d.policy = LastSet(ps, init, c.name, "policy", "", c.policy)
              /\ d.entry = LastSet(ps, init, c.name, "cmd", "", c.entry)
              /\ d.command = LastSet(ps, init, c.name, "command", NoCommand, c.command)
              /\ \A V : PatchMountsIn(ps, V) /\ MountsIn(c.mounts, V) => MountsIn(d.mounts, V)
<1> DEFINE image == LastSet(ps, init, c.name, "image", "", c.image)
           policy == LastSet(ps, init, c.name, "policy", "", c.policy)
           entry == LastSet(ps, init, c.name, "cmd", "", c.entry)
           command == LastSet(ps, init, c.name, "command", NoCommand, c.command)
           mounts == Mounting(ps, init, c.name) \o c.mounts
<1>1. \A k \in DOMAIN ps : /\ ps[k]["image"] \in Text /\ ps[k]["policy"] \in Text
                           /\ ps[k]["cmd"] \in Text /\ ps[k]["command"] \in Seq(Text)
  <2> TAKE k \in DOMAIN ps
  <2>1. ps[k] \in PatchContainer
    BY ElementOfSeq, LenProperties
  <2> QED BY <2>1 DEF PatchContainer
<1>2. /\ c.image \in Text /\ c.policy \in Text /\ c.entry \in Text /\ c.command \in Seq(Text)
      /\ c.mounts \in Seq(VolumeMount)
  BY DEF PodContainer
<1>3. image \in Text /\ policy \in Text /\ entry \in Text /\ command \in Seq(Text)
  BY <1>1, <1>2, LastSetIn
<1>4. mounts \in Seq(VolumeMount)
  BY <1>2, MountingFacts, RangeConcat
<1>5. \A V : PatchMountsIn(ps, V) /\ MountsIn(c.mounts, V) => MountsIn(mounts, V)
  BY MountingFacts, MountsInConcat
<1>6. Merge(c, ps, init) = [c EXCEPT !.image = image, !.policy = policy, !.entry = entry,
                                     !.command = command, !.mounts = mounts]
  BY DEF Merge
<1> HIDE DEF image, policy, entry, command, mounts
<1>7. LET d == Merge(c, ps, init)
      IN /\ d \in PodContainer /\ SameContainer(c, d)
         /\ d.image = image /\ d.policy = policy /\ d.entry = entry /\ d.command = command
         /\ d.mounts = mounts
  BY <1>3, <1>4, <1>6 DEF PodContainer, SameContainer
<1> QED BY <1>5, <1>7 DEF image, policy, entry, command

\* A patch extends the containers of its list: those there are stay in place with
\* their names and IDs; a name the list lacks is added once; and mounts come from
\* the list or from the patch.
LEMMA MergeAllFacts ==
    ASSUME NEW cs \in Seq(PodContainer), NEW ps \in Seq(PatchContainer), NEW init
    PROVE  LET ds == MergeAll(cs, ps, init)
           IN /\ Extension(cs, ds, PatchNames(ps, init))
              /\ \A i \in 1..Len(cs) : ds[i] = Merge(cs[i], ps, init)
              /\ \A V : PatchMountsIn(ps, V) /\ AllMountsIn(cs, V) => AllMountsIn(ds, V)
<1> DEFINE I == Added(cs, ps, init)
           added == Pick(ps, I)
           blank == [i \in DOMAIN added |->
                        Container(added[i].name, "", "", "", NoCommand, NoId, <<>>)]
           all == cs \o blank
           ds == MergeAll(cs, ps, init)
<1>1. I \in SUBSET (DOMAIN ps)
  BY DEF Added
<1> HIDE DEF I
<1>2. added \in Seq(PatchContainer)
  BY <1>1, PickFacts
<1>3. PICK f : Lists(added, ps, I, f)
  BY <1>1, PickFacts
<1>4. /\ DOMAIN ps = 1..Len(ps) /\ Len(ps) \in Nat /\ DOMAIN cs = 1..Len(cs) /\ Len(cs) \in Nat
      /\ DOMAIN added = 1..Len(added) /\ Len(added) \in Nat
  BY <1>2, LenProperties
<1> HIDE DEF added
<1>5. \A n \in DOMAIN added :
          /\ added[n].name \in Text /\ added[n].name \in PatchNames(ps, init)
          /\ Named(cs, added[n].name) = {}
  <2> TAKE n \in DOMAIN added
  <2>1. f[n] \in I /\ added[n] = ps[f[n]] /\ ps[f[n]] \in PatchContainer
    BY <1>1, <1>3 DEF Lists
  <2> QED BY <2>1 DEF I, Added, PatchNames, PatchContainer
<1>6. \A n, m \in DOMAIN added : added[n].name = added[m].name => n = m
  <2> SUFFICES ASSUME NEW n \in DOMAIN added, NEW m \in DOMAIN added,
                      added[n].name = added[m].name
               PROVE  n = m
    OBVIOUS
  <2>1. f[n] \in I /\ f[m] \in I /\ added[n] = ps[f[n]] /\ added[m] = ps[f[m]]
    BY <1>3 DEF Lists
  <2>2. f[n] = f[m]
    BY <1>4, <2>1 DEF I, Added
  <2> QED BY <1>3, <2>2 DEF Lists
<1>7. /\ blank \in Seq(PodContainer) /\ Len(blank) = Len(added)
      /\ \A n \in 1..Len(added) : blank[n].name = added[n].name /\ blank[n].id = NoId
                                  /\ blank[n].mounts = <<>>
  <2>1. NoId \in Int /\ NoCommand \in Seq(Text) /\ <<>> \in Seq(VolumeMount)
    BY EmptySeq DEF NoId, NoCommand
  <2>2. \A n \in DOMAIN added : blank[n] \in PodContainer
    <3> TAKE n \in DOMAIN added
    <3>1. blank[n] = Container(added[n].name, "", "", "", NoCommand, NoId, <<>>)
      OBVIOUS
    <3>2. PICK name \in Text : name = added[n].name
      BY <1>5
    <3>3. "" \in Text
      BY DEF Text
    <3>4. PICK empty \in Text, none \in Seq(VolumeMount) : empty = "" /\ none = <<>>
      BY <2>1, <3>3
    <3>5. Container(name, empty, empty, empty, NoCommand, NoId, none) \in PodContainer
      BY <2>1, ContainerFields
    <3> QED BY <3>1, <3>2, <3>4, <3>5
  <2>3. blank \in [1..Len(added) -> PodContainer]
    BY <1>4, <2>2
  <2>4. blank \in Seq(PodContainer) /\ Len(blank) = Len(added)
    BY <1>4, <2>3, FunctionIsSeq
  <2> QED BY <1>4, <2>4 DEF Container
<1> HIDE DEF blank
<1>8. /\ all \in Seq(PodContainer) /\ Len(all) = Len(cs) + Len(added)
      /\ \A i \in 1..Len(all) : all[i] = IF i <= Len(cs) THEN cs[i] ELSE blank[i - Len(cs)]
  <2>1. blank \in Seq(PodContainer) /\ Len(blank) = Len(added)
    BY <1>7
  <2>2. cs \o blank \in Seq(PodContainer) /\ Len(cs \o blank) = Len(cs) + Len(blank)
    BY <2>1, ConcatProperties
  <2>3. \A i \in 1..(Len(cs) + Len(blank)) :
            (cs \o blank)[i] = IF i <= Len(cs) THEN cs[i] ELSE blank[i - Len(cs)]
    BY <2>1, ConcatProperties
  <2> QED BY <2>1, <2>2, <2>3
<1>9. DOMAIN all = 1..Len(all)
  BY <1>8, LenProperties
<1>10. ds = [i \in 1..Len(all) |-> Merge(all[i], ps, init)]
  BY <1>9 DEF MergeAll, added, blank, I
<1> HIDE DEF all, ds
<1>11. \A i \in 1..Len(all) :
          /\ all[i] \in PodContainer /\ ds[i] \in PodContainer /\ SameContainer(all[i], ds[i])
          /\ \A V : PatchMountsIn(ps, V) /\ MountsIn(all[i].mounts, V) => MountsIn(ds[i].mounts, V)
  BY <1>8, <1>10, ElementOfSeq, MergeFacts
<1>12. ds \in Seq(PodContainer) /\ Len(ds) = Len(all)
  BY <1>4, <1>8, <1>10, <1>11
<1>13. \A i \in 1..Len(cs) : SameContainer(cs[i], ds[i]) /\ ds[i] = Merge(cs[i], ps, init)
  BY <1>4, <1>8, <1>10, <1>11
<1>14. ASSUME NEW i \in 1..Len(ds), i > Len(cs)
       PROVE  /\ ds[i].id = NoId /\ ds[i].name \in PatchNames(ps, init)
              /\ \A k \in 1..Len(ds) : ds[k].name = ds[i].name => k = i
  <2>1. PICK n \in 1..Len(added) : n = i - Len(cs) /\ all[i] = blank[n]
    BY <1>4, <1>8, <1>12, <1>14
  <2>2. SameContainer(blank[n], ds[i])
    BY <1>11, <1>12, <2>1
  <2>3. ds[i].name = added[n].name /\ ds[i].id = NoId
    BY <1>7, <2>2 DEF SameContainer
  <2>4. ASSUME NEW k \in 1..Len(ds), ds[k].name = ds[i].name PROVE k = i
    <3>1. CASE k <= Len(cs)
      <4>1. k \in DOMAIN cs /\ cs[k].name = added[n].name
        BY <1>4, <1>12, <1>13, <2>3, <2>4, <3>1 DEF SameContainer
      <4> QED BY <1>4, <1>5, <4>1 DEF Named
    <3>2. CASE k > Len(cs)
      <4>1. PICK m \in 1..Len(added) : m = k - Len(cs) /\ all[k] = blank[m]
        BY <1>4, <1>8, <1>12, <3>2
      <4>2. ds[k].name = added[m].name
        BY <1>7, <1>11, <1>12, <4>1 DEF SameContainer
      <4>3. m = n
        BY <1>4, <1>6, <2>3, <2>4, <4>2
      <4> QED BY <1>4, <1>8, <1>12, <2>1, <4>1, <4>3
    <3> QED BY <1>4, <3>1, <3>2
  <2> QED BY <1>4, <1>5, <2>3, <2>4
<1>15. Len(cs) <= Len(ds)
  BY <1>4, <1>8, <1>12
<1>16. Extension(cs, ds, PatchNames(ps, init))
  BY <1>12, <1>13, <1>14, <1>15 DEF Extension
<1>17. ASSUME NEW V, PatchMountsIn(ps, V), AllMountsIn(cs, V) PROVE AllMountsIn(ds, V)
  <2>1. MountsIn(<<>>, V)
    BY EmptySeq DEF MountsIn, ToSet
  <2>2. \A i \in 1..Len(all) : MountsIn(all[i].mounts, V)
    <3> TAKE i \in 1..Len(all)
    <3>1. CASE i <= Len(cs)
      BY <1>4, <1>8, <1>17, <3>1 DEF AllMountsIn
    <3>2. CASE i > Len(cs)
      <4>1. PICK n \in 1..Len(added) : all[i] = blank[n]
        BY <1>4, <1>8, <3>2
      <4> QED BY <1>7, <2>1, <4>1
    <3> QED BY <1>4, <1>8, <3>1, <3>2
  <2> QED BY <1>11, <1>12, <1>17, <2>2 DEF AllMountsIn
<1> QED BY <1>13, <1>16, <1>17 DEF ds

\* SetToSeq lists a finite set, each element once.
LEMMA SetToSeqFacts ==
    ASSUME NEW S, IsFiniteSet(S)
    PROVE  /\ SetToSeq(S) \in Seq(S) /\ Len(SetToSeq(S)) = Cardinality(S)
           /\ Distinct(SetToSeq(S)) /\ ToSet(SetToSeq(S)) = S
<1>1. Cardinality(S) \in Nat
  BY FS_CardinalityType
<1>2. PICK n \in Nat : ExistsBijection(1..n, S)
  BY FS_NatBijection
<1>3. Cardinality(S) = n
  BY <1>2, FS_CountingElements
<1>4. PICK g \in Bijection(1..n, S) : TRUE
  BY <1>2 DEF ExistsBijection
<1>5. g \in [1..Cardinality(S) -> S] /\ IsInjective(g)
  BY <1>3, <1>4 DEF Bijection, Injection
<1>6. SetToSeq(S) \in [1..Cardinality(S) -> S] /\ IsInjective(SetToSeq(S))
  BY <1>5 DEF SetToSeq
<1>7. /\ SetToSeq(S) \in Seq(S) /\ Len(SetToSeq(S)) = Cardinality(S)
      /\ DOMAIN SetToSeq(S) = 1..Cardinality(S)
  BY <1>1, <1>6, FunctionIsSeq
<1>8. Distinct(SetToSeq(S))
  BY <1>6 DEF Distinct, IsInjective
<1>9. SetToSeq(S) \in Surjection(1..Cardinality(S), S)
  <2>1. SetToSeq(S) \in Injection(1..Cardinality(S), S)
    BY <1>6 DEF Injection
  <2>2. Cardinality(1..n) = n
    <3>1. Cardinality(1..n) = IF 1 > n THEN 0 ELSE n - 1 + 1
      BY FS_Interval
    <3> QED BY <3>1
  <2> QED BY <1>3, <2>1, <2>2, FS_Injection
<1>10. ToSet(SetToSeq(S)) = S
  BY <1>7, <1>9 DEF Surjection, ToSet
<1> QED BY <1>7, <1>8, <1>10

\* The image of the positions of a sequence is finite and no larger.
LEMMA ImageOfPositions ==
    ASSUME NEW n \in Nat, NEW g, DOMAIN g = 1..n, NEW T, T = {g[i] : i \in 1..n}
    PROVE  IsFiniteSet(T) /\ Cardinality(T) \in Nat /\ Cardinality(T) <= n
<1> DEFINE h == [i \in 1..n |-> g[i]]
<1>1. h \in Surjection(1..n, T)
  BY DEF Surjection
<1>2. IsFiniteSet(1..n) /\ Cardinality(1..n) = IF 1 > n THEN 0 ELSE n - 1 + 1
  BY FS_Interval
<1>3. IsFiniteSet(T) /\ Cardinality(T) <= Cardinality(1..n)
  BY <1>1, <1>2, FS_Surjection
<1>4. Cardinality(T) \in Nat
  BY <1>3, FS_CardinalityType
<1> QED BY <1>2, <1>3, <1>4

-----------------------------------------------------------------------------
(* What a job brings, and the volumes and mounts. *)

\* The settings of a configuration are well typed.
LEMMA ConfigFacts ==
    ASSUME NEW w \in Configs
    PROVE  /\ w.skip \in Text /\ w.interposer \in Text /\ w.pullPolicy \in Text
           /\ w.checkPolicy \in Text /\ w.mirrors \in Text
           /\ w.checkoutMounts \in Seq(VolumeMount) /\ w.commandMounts \in Seq(VolumeMount)
           /\ w.sidecarMounts \in Seq(VolumeMount) /\ w.patchVolumes \in Seq(Text)
BY JobBuildAssumption DEF Configuration

\* What the plugin gives, or its absence leaves, is well typed.
LEMMA GivenFacts ==
    ASSUME NEW j \in Jobs
    PROVE  /\ Given(j, "containers", <<>>) \in Seq(UserContainer)
           /\ Given(j, "sidecars", <<>>) \in Seq(UserContainer)
           /\ Given(j, "init", <<>>) \in Seq(UserContainer)
           /\ PluginPatch(j) \in Seq(PatchContainer)
           /\ Given(j, "volumes", <<>>) \in Seq(Text)
           /\ Given(j, "extraMounts", <<>>) \in Seq(VolumeMount)
           /\ Given(j, "checkoutMounts", <<>>) \in Seq(VolumeMount)
           /\ Given(j, "commandMounts", <<>>) \in Seq(VolumeMount)
           /\ Given(j, "sidecarMounts", <<>>) \in Seq(VolumeMount)
           /\ Given(j, "patchVolumes", <<>>) \in Seq(Text)
           /\ Given(j, "mirrors", "") \in Text /\ Given(j, "interposer", "") \in Text
           /\ Len(Given(j, "containers", <<>>)) \in 0..Len(ContainerNames)
           /\ Len(Given(j, "sidecars", <<>>)) \in 0..Len(SidecarNames)
           /\ Len(Given(j, "containers", <<>>)) + 3 <= Len(ImageCheckNames)
<1>1. j \in BuildkiteJob
  BY JobBuildAssumption
<1>2. "" \in Text
  BY DEF Text
<1>3. /\ Len(j.containers) <= Len(ContainerNames) /\ Len(j.sidecars) <= Len(SidecarNames)
      /\ Len(j.containers) + 3 <= Len(ImageCheckNames)
  BY NamesAssumption
<1>4. /\ ContainerNames \in Seq(Text) /\ SidecarNames \in Seq(Text) /\ ImageCheckNames \in Seq(Text)
  BY NamesAssumption
<1>5. CASE HasPlugin(j)
  <2>1. /\ Given(j, "containers", <<>>) = j["containers"]
        /\ Given(j, "sidecars", <<>>) = j["sidecars"]
        /\ Given(j, "patch", <<>>) = j["patch"]
        /\ Given(j, "volumes", <<>>) = j["volumes"]
        /\ Given(j, "init", <<>>) = j["init"]
        /\ Given(j, "extraMounts", <<>>) = j["extraMounts"]
        /\ Given(j, "checkoutMounts", <<>>) = j["checkoutMounts"]
        /\ Given(j, "commandMounts", <<>>) = j["commandMounts"]
        /\ Given(j, "sidecarMounts", <<>>) = j["sidecarMounts"]
        /\ Given(j, "patchVolumes", <<>>) = j["patchVolumes"]
        /\ Given(j, "mirrors", "") = j["mirrors"]
        /\ Given(j, "interposer", "") = j["interposer"]
    BY <1>5 DEF Given
  <2>2. /\ j["containers"] \in Seq(UserContainer) /\ j["sidecars"] \in Seq(UserContainer)
        /\ j["patch"] \in Seq(PatchContainer) /\ j["volumes"] \in Seq(Text)
        /\ j["init"] \in Seq(UserContainer)
        /\ j["extraMounts"] \in Seq(VolumeMount) /\ j["checkoutMounts"] \in Seq(VolumeMount)
        /\ j["commandMounts"] \in Seq(VolumeMount) /\ j["sidecarMounts"] \in Seq(VolumeMount)
        /\ j["patchVolumes"] \in Seq(Text)
        /\ j["mirrors"] \in Text /\ j["interposer"] \in Text
    BY <1>1 DEF BuildkiteJob
  <2>3. /\ Len(j["containers"]) \in Nat /\ Len(j["sidecars"]) \in Nat
        /\ Len(ContainerNames) \in Nat /\ Len(SidecarNames) \in Nat
    BY <1>4, <2>2, LenProperties
  <2>4. /\ Len(j["containers"]) <= Len(ContainerNames) /\ Len(j["sidecars"]) <= Len(SidecarNames)
        /\ Len(j["containers"]) + 3 <= Len(ImageCheckNames)
    BY <1>3
  <2>5. Len(j["containers"]) \in 0..Len(ContainerNames) /\ Len(j["sidecars"]) \in 0..Len(SidecarNames)
    BY <2>3, <2>4
  <2> QED BY <2>1, <2>2, <2>4, <2>5, Zenon DEF PluginPatch
<1>6. CASE ~HasPlugin(j)
  <2>1. /\ Given(j, "containers", <<>>) = <<>>
        /\ Given(j, "sidecars", <<>>) = <<>>
        /\ Given(j, "patch", <<>>) = <<>>
        /\ Given(j, "volumes", <<>>) = <<>>
        /\ Given(j, "init", <<>>) = <<>>
        /\ Given(j, "extraMounts", <<>>) = <<>>
        /\ Given(j, "checkoutMounts", <<>>) = <<>>
        /\ Given(j, "commandMounts", <<>>) = <<>>
        /\ Given(j, "sidecarMounts", <<>>) = <<>>
        /\ Given(j, "patchVolumes", <<>>) = <<>>
        /\ Given(j, "mirrors", "") = ""
        /\ Given(j, "interposer", "") = ""
    BY <1>6 DEF Given
  <2>2. \A S : <<>> \in Seq(S)
    BY EmptySeq
  <2>3. /\ Len(<<>>) = 0 /\ Len(ContainerNames) \in Nat /\ Len(SidecarNames) \in Nat
        /\ Len(ImageCheckNames) \in Nat /\ Len(j.containers) \in Nat
    BY <1>1, <1>4, LenProperties, EmptySeq DEF BuildkiteJob
  <2>4. PICK empty : empty = <<>>
    OBVIOUS
  <2>5. /\ Len(empty) \in 0..Len(ContainerNames) /\ Len(empty) \in 0..Len(SidecarNames)
        /\ Len(empty) + 3 <= Len(ImageCheckNames)
    BY <1>3, <2>3, <2>4
  <2> QED BY <1>2, <2>1, <2>2, <2>4, <2>5, Zenon DEF PluginPatch
<1> QED BY <1>5, <1>6

ConfigVolumes == {"hooks", "more-hooks", "plugins", "signing", "verification"}

\* The volumes that the agent's configuration may add are five different ones.
LEMMA ConfigMountsFacts ==
    /\ configMounts \in Seq(VolumeMount) /\ DOMAIN configMounts = 1..5
    /\ {configMounts[i].vol : i \in 1..5} = ConfigVolumes
    /\ \A i \in 1..5 : configMounts[i] \in VolumeMount
    /\ \A i, k \in 1..5 : configMounts[i].vol = configMounts[k].vol => i = k
<1>1. /\ configMounts[1] = Mount("hooks", "/workspace/hooks")
      /\ configMounts[2] = Mount("more-hooks", "/more-hooks")
      /\ configMounts[3] = Mount("plugins", "/workspace/plugins")
      /\ configMounts[4] = Mount("signing", "/buildkite/signing-jwks")
      /\ configMounts[5] = Mount("verification", "/buildkite/verification-jwks")
      /\ DOMAIN configMounts = 1..5
  BY DEF configMounts
<1>2. \A i \in 1..5 : i = 1 \/ i = 2 \/ i = 3 \/ i = 4 \/ i = 5
  OBVIOUS
<1>3. ASSUME NEW i \in 1..5 PROVE configMounts[i] \in VolumeMount
  <2>1. \A v, p \in Text : Mount(v, p) \in VolumeMount
    BY DEF Mount, VolumeMount
  <2>2. /\ "hooks" \in Text /\ "more-hooks" \in Text /\ "plugins" \in Text /\ "signing" \in Text
        /\ "verification" \in Text /\ "/workspace/hooks" \in Text /\ "/more-hooks" \in Text
        /\ "/workspace/plugins" \in Text /\ "/buildkite/signing-jwks" \in Text
        /\ "/buildkite/verification-jwks" \in Text
    BY DEF Text
  <2> QED BY <1>1, <1>2, <2>1, <2>2
<1>4. configMounts \in Seq(VolumeMount)
  <2>1. configMounts \in [1..5 -> VolumeMount]
    BY <1>1, <1>3 DEF configMounts
  <2> QED BY <2>1, FunctionIsSeq
<1>5. /\ configMounts[1].vol = "hooks" /\ configMounts[2].vol = "more-hooks"
      /\ configMounts[3].vol = "plugins" /\ configMounts[4].vol = "signing"
      /\ configMounts[5].vol = "verification"
  BY <1>1 DEF Mount
<1>6. {configMounts[i].vol : i \in 1..5} = ConfigVolumes
  BY <1>2, <1>5 DEF ConfigVolumes
<1>7. \A i, k \in 1..5 : configMounts[i].vol = configMounts[k].vol => i = k
  BY <1>2, <1>5
<1> QED BY <1>1, <1>3, <1>4, <1>6, <1>7

\* The agent's configuration adds each of its volumes at most once.
LEMMA ApplyVolumesFacts ==
    ASSUME NEW w
    PROVE  /\ ApplyVolumesTo(w) \in Seq(Text) /\ Distinct(ApplyVolumesTo(w))
           /\ ToSet(ApplyVolumesTo(w)) = ConfigVolumes \cap w.volumes
<1> DEFINE vols == [i \in DOMAIN configMounts |-> configMounts[i].vol]
           I == {i \in DOMAIN configMounts : configMounts[i].vol \in w.volumes}
<1>1. /\ \A i \in 1..5 : configMounts[i] \in VolumeMount
      /\ DOMAIN configMounts = 1..5 /\ {configMounts[i].vol : i \in 1..5} = ConfigVolumes
      /\ \A i, k \in 1..5 : configMounts[i].vol = configMounts[k].vol => i = k
  BY ConfigMountsFacts
<1>2. vols \in [1..5 -> Text]
  BY <1>1 DEF VolumeMount
<1>3. vols \in Seq(Text) /\ DOMAIN vols = 1..5 /\ \A i \in 1..5 : vols[i] = configMounts[i].vol
  BY <1>1, <1>2, FunctionIsSeq
<1>4. I \in SUBSET (DOMAIN vols) /\ {vols[i] : i \in I} = ConfigVolumes \cap w.volumes
  <2>1. I = {i \in 1..5 : vols[i] \in w.volumes} /\ {vols[i] : i \in 1..5} = ConfigVolumes
    BY <1>1, <1>3
  <2> HIDE DEF vols, I
  <2> QED BY <1>3, <2>1
<1>5. \A i, k \in I : vols[i] = vols[k] => i = k
  BY <1>1, <1>3
<1>6. ApplyVolumesTo(w) = Pick(vols, I)
  BY DEF ApplyVolumesTo
<1> HIDE DEF vols, I
<1> QED BY <1>3, <1>4, <1>5, <1>6, PickRange

\* The checkout parameters add volumes of their own only.
LEMMA GitFacts ==
    ASSUME NEW w \in Configs, NEW j \in Jobs
    PROVE  GitMirrors(w, j) \in Seq(Text) /\ GitCreds(w, j) \in Seq(Text)
           /\ ToSet(GitCreds(w, j)) \subseteq {"git-credentials-ro"} /\ Distinct(GitCreds(w, j))
           /\ \A v \in {w.mirrors, Given(j, "mirrors", "")} \ {""} : v \in ToSet(GitMirrors(w, j))
<1> DEFINE ms == <<w.mirrors, Given(j, "mirrors", "")>>
           I == {i \in DOMAIN ms : ms[i] # ""}
<1>1. ms \in Seq(Text)
  <2>1. w.mirrors \in Text /\ Given(j, "mirrors", "") \in Text
    BY ConfigFacts, GivenFacts
  <2>2. PICK a \in Text, b \in Text : ms = <<a, b>>
    BY <2>1
  <2>3. <<a, b>> \in Seq(Text)
    OBVIOUS
  <2> QED BY <2>2, <2>3
<1>2. I \in SUBSET (DOMAIN ms) /\ GitMirrors(w, j) = Pick(ms, I)
  BY DEF GitMirrors
<1>3. /\ GitMirrors(w, j) \in Seq(Text)
      /\ \A v \in {w.mirrors, Given(j, "mirrors", "")} \ {""} : v \in ToSet(GitMirrors(w, j))
  <2>0. 1 \in DOMAIN ms /\ 2 \in DOMAIN ms /\ ms[1] = w.mirrors /\ ms[2] = Given(j, "mirrors", "")
    OBVIOUS
  <2> HIDE DEF ms
  <2>1. /\ ms[1] = w.mirrors /\ ms[2] = Given(j, "mirrors", "")
        /\ (ms[1] # "" => 1 \in I) /\ (ms[2] # "" => 2 \in I)
    BY <2>0
  <2> HIDE DEF I
  <2>2. GitMirrors(w, j) \in Seq(Text) /\ ToSet(GitMirrors(w, j)) = {ms[i] : i \in I}
    BY <1>1, <1>2, PickRange
  <2> QED BY <2>1, <2>2
<1>4. CASE GitCredsSecret(w, j)
  <2>1. GitCreds(w, j) = <<"git-credentials-ro">>
    BY <1>4 DEF GitCreds
  <2>2. "git-credentials-ro" \in Text
    BY DEF Text
  <2>3. /\ GitCreds(w, j) \in Seq(Text) /\ Distinct(GitCreds(w, j))
        /\ ToSet(GitCreds(w, j)) \subseteq {"git-credentials-ro"}
    BY <2>1, <2>2 DEF ToSet, Distinct
  <2> QED BY <1>3, <2>3
<1>5. CASE ~GitCredsSecret(w, j)
  <2>1. GitCreds(w, j) = <<>>
    BY <1>5 DEF GitCreds
  <2>2. /\ GitCreds(w, j) \in Seq(Text) /\ Distinct(GitCreds(w, j))
        /\ ToSet(GitCreds(w, j)) \subseteq {"git-credentials-ro"}
    BY <2>1 DEF ToSet, Distinct
  <2> QED BY <1>3, <2>2
<1> QED BY <1>4, <1>5

\* The volumes have what the mounts of the containers are on.
LEMMA VolumesFacts ==
    ASSUME NEW w \in Configs, NEW j \in Jobs
    PROVE  LET V == ToSet(Volumes(w, j))
           IN /\ Volumes(w, j) \in Seq(Text)
              /\ ToSet(Given(j, "volumes", <<>>)) \subseteq V /\ "workspace" \in V
              /\ ConfigVolumes \cap w.volumes \subseteq V
              /\ ~skipCheckout(w, j) => ToSet(GitMirrors(w, j)) \cup ToSet(GitCreds(w, j)) \subseteq V
<1> DEFINE given == Given(j, "volumes", <<>>)
           A == ApplyVolumesTo(w)
           R == IF skipCheckout(w, j) THEN <<>> ELSE GitMirrors(w, j) \o GitCreds(w, j)
<1>1. /\ given \in Seq(Text) /\ A \in Seq(Text) /\ ToSet(A) = ConfigVolumes \cap w.volumes
      /\ GitMirrors(w, j) \in Seq(Text) /\ GitCreds(w, j) \in Seq(Text)
  BY GivenFacts, ApplyVolumesFacts, GitFacts
<1>2. <<"workspace">> \in Seq(Text) /\ ToSet(<<"workspace">>) = {"workspace"}
  <2>1. "workspace" \in Text
    BY DEF Text
  <2> QED BY <2>1 DEF ToSet
<1>3. /\ R \in Seq(Text)
      /\ ~skipCheckout(w, j) => ToSet(R) = ToSet(GitMirrors(w, j)) \cup ToSet(GitCreds(w, j))
  <2>1. /\ GitMirrors(w, j) \o GitCreds(w, j) \in Seq(Text)
        /\ ToSet(GitMirrors(w, j) \o GitCreds(w, j)) = ToSet(GitMirrors(w, j)) \cup ToSet(GitCreds(w, j))
    BY <1>1, RangeConcat
  <2> QED BY <2>1, EmptySeq
<1>4. Volumes(w, j) = given \o <<"workspace">> \o A \o R
  BY DEF Volumes
<1> HIDE DEF given, A, R
<1>5. PICK W : W = <<"workspace">>
  OBVIOUS
<1>6. W \in Seq(Text) /\ ToSet(W) = {"workspace"}
  BY <1>2, <1>5
<1>7. /\ Volumes(w, j) \in Seq(Text)
      /\ ToSet(Volumes(w, j)) = ToSet(given) \cup ToSet(W) \cup ToSet(A) \cup ToSet(R)
  <2>1. given \in Seq(Text) /\ W \in Seq(Text) /\ A \in Seq(Text) /\ R \in Seq(Text)
    BY <1>1, <1>3, <1>6
  <2>2. /\ given \o W \o A \o R \in Seq(Text)
        /\ ToSet(given \o W \o A \o R) = ToSet(given) \cup ToSet(W) \cup ToSet(A) \cup ToSet(R)
    BY <2>1, Concat4
  <2>3. Volumes(w, j) = given \o W \o A \o R
    BY <1>4, <1>5
  <2> QED BY <2>2, <2>3
<1> QED BY <1>1, <1>3, <1>6, <1>7 DEF given

\* Volumes with different names yield a list of distinct ones.
LEMMA VolumesDistinct ==
    ASSUME NEW w \in Configs, NEW j \in Jobs, NEW shared, ValidVolumes(w, j, shared)
    PROVE  Distinct(Volumes(w, j))
<1> DEFINE given == Given(j, "volumes", <<>>)
           X == <<"workspace", "git-credentials-ro">>
           C == [i \in DOMAIN configMounts |-> configMounts[i].vol]
           G == GitMirrors(w, j)
           K == GitCreds(w, j)
           A == ApplyVolumesTo(w)
           W == <<"workspace">>
           R == IF skipCheckout(w, j) THEN <<>> ELSE G \o K
<1>1. /\ given \in Seq(Text) /\ A \in Seq(Text) /\ ToSet(A) \subseteq ConfigVolumes /\ Distinct(A)
      /\ G \in Seq(Text) /\ K \in Seq(Text) /\ ToSet(K) \subseteq {"git-credentials-ro"} /\ Distinct(K)
  BY GivenFacts, ApplyVolumesFacts, GitFacts
<1>2. /\ X \in Seq(Text) /\ ToSet(X) = {"workspace", "git-credentials-ro"}
      /\ W \in Seq(Text) /\ ToSet(W) = {"workspace"} /\ Distinct(W)
  <2>1. "workspace" \in Text /\ "git-credentials-ro" \in Text
    BY DEF Text
  <2>2. X \in Seq(Text) /\ W \in Seq(Text)
    BY <2>1
  <2>3. ToSet(X) = {"workspace", "git-credentials-ro"}
    <3>1. DOMAIN X = {1, 2} /\ X[1] = "workspace" /\ X[2] = "git-credentials-ro"
      OBVIOUS
    <3> HIDE DEF X
    <3> QED BY <3>1 DEF ToSet
  <2> QED BY <2>2, <2>3 DEF ToSet, Distinct
<1>3. C \in Seq(Text) /\ ToSet(C) = ConfigVolumes
  <2>1. /\ \A i \in 1..5 : configMounts[i] \in VolumeMount
        /\ DOMAIN configMounts = 1..5 /\ {configMounts[i].vol : i \in 1..5} = ConfigVolumes
    BY ConfigMountsFacts
  <2>2. C \in [1..5 -> Text]
    BY <2>1 DEF VolumeMount
  <2>3. C \in Seq(Text) /\ DOMAIN C = 1..5 /\ \A i \in 1..5 : C[i] = configMounts[i].vol
    BY <2>1, <2>2, FunctionIsSeq
  <2> QED BY <2>1, <2>3 DEF ToSet
<1>4. Distinct(given \o X \o C \o G)
  BY DEF ValidVolumes
<1>5. Volumes(w, j) = given \o W \o A \o R
  BY DEF Volumes
<1> HIDE DEF given, X, C, G, K, A, W
<1>6. /\ Distinct(given) /\ Distinct(G)
      /\ ToSet(given) \cap ToSet(X) = {} /\ (ToSet(given) \cup ToSet(X)) \cap ToSet(C) = {}
      /\ (ToSet(given) \cup ToSet(X) \cup ToSet(C)) \cap ToSet(G) = {}
  <2>1. given \in Seq(Text) /\ X \in Seq(Text) /\ C \in Seq(Text) /\ G \in Seq(Text)
    BY <1>1, <1>2, <1>3
  <2>2. PICK all : all = given \o X \o C \o G
    OBVIOUS
  <2>3. Distinct(all) <=> DistinctParts(given, X, C, G)
    BY <2>1, <2>2, Distinct4
  <2> QED BY <1>4, <2>2, <2>3 DEF DistinctParts
<1>7. /\ "git-credentials-ro" \notin ConfigVolumes /\ "workspace" \notin ConfigVolumes
      /\ "workspace" # "git-credentials-ro"
  BY DEF ConfigVolumes
<1>8. /\ ToSet(given) \cap ToSet(W) = {} /\ (ToSet(given) \cup ToSet(W)) \cap ToSet(A) = {}
      /\ ToSet(G) \cap ToSet(K) = {}
      /\ (ToSet(given) \cup ToSet(W) \cup ToSet(A)) \cap (ToSet(G) \cup ToSet(K)) = {}
  BY <1>1, <1>2, <1>3, <1>6, <1>7
<1>9. /\ G \o K \in Seq(Text) /\ ToSet(G \o K) = ToSet(G) \cup ToSet(K)
      /\ Distinct(G \o K)
  BY <1>1, <1>6, <1>8, RangeConcat, DistinctConcat
<1>10. /\ R \in Seq(Text) /\ Distinct(R) /\ ToSet(R) \subseteq ToSet(G) \cup ToSet(K)
  <2>1. <<>> \in Seq(Text) /\ Distinct(<<>>) /\ ToSet(<<>>) = {}
    BY EmptySeq DEF Distinct, ToSet
  <2> QED BY <1>9, <2>1
<1> HIDE DEF R
<1>11. (ToSet(given) \cup ToSet(W) \cup ToSet(A)) \cap ToSet(R) = {}
  BY <1>8, <1>10
<1>12. given \in Seq(Text) /\ W \in Seq(Text) /\ A \in Seq(Text) /\ R \in Seq(Text)
  BY <1>1, <1>2, <1>10
<1>13. DistinctParts(given, W, A, R)
  BY <1>1, <1>2, <1>6, <1>8, <1>10, <1>11 DEF DistinctParts
<1>14. PICK all : all = given \o W \o A \o R
  OBVIOUS
<1>15. Distinct(all) <=> DistinctParts(given, W, A, R)
  BY <1>12, <1>14, Distinct4
<1> QED BY <1>5, <1>13, <1>14, <1>15

\* A set of positions that is not empty has a first one.
LEMMA FirstPosition ==
    ASSUME NEW S, NEW s \in Seq(S), NEW I \in SUBSET (DOMAIN s), I # {}
    PROVE  \E first \in I : \A i \in I : first <= i
<1> DEFINE R == OpToRel(<, Nat)
<1>1. I \subseteq Nat
  BY LenProperties
<1>2. PICK first \in I : \A i \in I : ~(<<i, first>> \in R)
  <2> HIDE DEF R
  <2> QED BY <1>1, WFMin, NatLessThanWellFounded DEF R
<1>3. \A i \in I : ~(i < first)
  BY <1>1, <1>2 DEF OpToRel
<1> QED BY <1>1, <1>3

\* A patch adds the volumes that are missing.
LEMMA MergeVolumesFacts ==
    ASSUME NEW vs \in Seq(Text), NEW new \in Seq(Text)
    PROVE  /\ MergeVolumes(vs, new) \in Seq(Text)
           /\ ToSet(MergeVolumes(vs, new)) = ToSet(vs) \cup ToSet(new)
           /\ Distinct(vs) => Distinct(MergeVolumes(vs, new))
<1> DEFINE I == {i \in DOMAIN new : new[i] \notin ToSet(vs) /\ \A k \in 1..(i - 1) : new[k] # new[i]}
           t == Pick(new, I)
<1>1. DOMAIN new = 1..Len(new) /\ Len(new) \in Nat
  BY LenProperties
<1>2. I \in SUBSET (DOMAIN new)
  OBVIOUS
<1>3. \A i, k \in I : new[i] = new[k] => i = k
  BY <1>1
<1>4. \A i \in I : new[i] \notin ToSet(vs)
  OBVIOUS
<1>5. ASSUME NEW n \in DOMAIN new, new[n] \notin ToSet(vs) PROVE \E i \in I : new[i] = new[n]
  <2> DEFINE same == {k \in DOMAIN new : new[k] = new[n]}
  <2>1. same \in SUBSET (DOMAIN new) /\ same # {}
    OBVIOUS
  <2>2. PICK first \in same : \A k \in same : first <= k
    <3> HIDE DEF same
    <3> QED BY <2>1, FirstPosition
  <2>3. \A k \in 1..(first - 1) : k \in DOMAIN new /\ ~(first <= k)
    BY <1>1, <2>2
  <2> QED BY <1>5, <2>2, <2>3
<1>6. MergeVolumes(vs, new) = vs \o t
  BY DEF MergeVolumes
<1> HIDE DEF I
<1>7. t \in Seq(Text) /\ ToSet(t) = {new[i] : i \in I} /\ Distinct(t)
  BY <1>2, <1>3, PickRange
<1> HIDE DEF t
<1>8. ToSet(t) \subseteq ToSet(new) /\ ToSet(new) \subseteq ToSet(vs) \cup ToSet(t)
  BY <1>2, <1>5, <1>7 DEF ToSet
<1>9. ToSet(vs) \cap ToSet(t) = {}
  BY <1>4, <1>7
<1>10. vs \o t \in Seq(Text) /\ ToSet(vs \o t) = ToSet(vs) \cup ToSet(t)
  BY <1>7, RangeConcat
<1>11. Distinct(vs \o t) <=> Distinct(vs) /\ Distinct(t) /\ ToSet(vs) \cap ToSet(t) = {}
  BY <1>7, DistinctConcat
<1> QED BY <1>6, <1>7, <1>8, <1>9, <1>10, <1>11

\* The volumes after the controller's patch, and after the plugin's.
PatchedVolumes(w, j) == MergeVolumes(Volumes(w, j), w.patchVolumes)

FinalVolumes(w, j) == MergeVolumes(PatchedVolumes(w, j), Given(j, "patchVolumes", <<>>))

\* The patches add their volumes to those of the pod.
LEMMA FinalVolumesFacts ==
    ASSUME NEW w \in Configs, NEW j \in Jobs
    PROVE  /\ ToSet(FinalVolumes(w, j)) = ToSet(Volumes(w, j)) \cup ToSet(w.patchVolumes)
                                             \cup ToSet(Given(j, "patchVolumes", <<>>))
           /\ Distinct(Volumes(w, j)) => Distinct(FinalVolumes(w, j))
<1>1. /\ Volumes(w, j) \in Seq(Text) /\ w.patchVolumes \in Seq(Text)
      /\ Given(j, "patchVolumes", <<>>) \in Seq(Text)
  BY VolumesFacts, ConfigFacts, GivenFacts
<1>2. /\ PatchedVolumes(w, j) \in Seq(Text)
      /\ ToSet(PatchedVolumes(w, j)) = ToSet(Volumes(w, j)) \cup ToSet(w.patchVolumes)
      /\ Distinct(Volumes(w, j)) => Distinct(PatchedVolumes(w, j))
  BY <1>1, MergeVolumesFacts DEF PatchedVolumes
<1>3. /\ ToSet(FinalVolumes(w, j))
            = ToSet(PatchedVolumes(w, j)) \cup ToSet(Given(j, "patchVolumes", <<>>))
      /\ Distinct(PatchedVolumes(w, j)) => Distinct(FinalVolumes(w, j))
  BY <1>1, <1>2, MergeVolumesFacts DEF FinalVolumes
<1> QED BY <1>2, <1>3

\* The volumes of the set are enough for what every container mounts, and for what
\* the checkout container mounts.
Covers(V, w, j) ==
    /\ "workspace" \in V /\ ConfigVolumes \cap w.volumes \subseteq V
    /\ \A m \in WrittenMounts(w, j) : m.vol \in V

CoversCheckout(V, w, j) == ToSet(GitMirrors(w, j)) \cup ToSet(GitCreds(w, j)) \subseteq V

\* What controller and plugin mount, and the containers themselves, is covered.
LEMMA WrittenCovered ==
    ASSUME NEW w \in Configs, NEW j \in Jobs, NEW V, Covers(V, w, j)
    PROVE  /\ MountsIn(w.checkoutMounts, V) /\ MountsIn(w.commandMounts, V)
           /\ MountsIn(w.sidecarMounts, V)
           /\ MountsIn(Given(j, "checkoutMounts", <<>>), V) /\ MountsIn(Given(j, "commandMounts", <<>>), V)
           /\ MountsIn(Given(j, "sidecarMounts", <<>>), V) /\ MountsIn(Given(j, "extraMounts", <<>>), V)
           /\ \A c \in ToSet(Given(j, "containers", <<>>)) \cup ToSet(Given(j, "sidecars", <<>>))
                            \cup ToSet(Given(j, "init", <<>>)) : MountsIn(c.mounts, V)
<1> DEFINE given == ToSet(Given(j, "containers", <<>>)) \cup ToSet(Given(j, "sidecars", <<>>))
                       \cup ToSet(Given(j, "init", <<>>))
<1>1. \A m \in WrittenMounts(w, j) : m.vol \in V
  BY DEF Covers
<1>2. \A c \in given : c.mounts \in Seq(VolumeMount)
  <2>1. /\ Given(j, "containers", <<>>) \in Seq(UserContainer)
        /\ Given(j, "sidecars", <<>>) \in Seq(UserContainer) /\ Given(j, "init", <<>>) \in Seq(UserContainer)
    BY GivenFacts
  <2>2. \A s \in Seq(UserContainer) : \A c \in ToSet(s) : c \in UserContainer
    BY ElementOfSeq, LenProperties DEF ToSet
  <2>3. \A c \in given : c \in UserContainer
    BY <2>1, <2>2
  <2> QED BY <2>3 DEF UserContainer
<1>3. WrittenMounts(w, j) =
          ToSet(w.checkoutMounts) \cup ToSet(w.commandMounts) \cup ToSet(w.sidecarMounts)
          \cup ToSet(Given(j, "checkoutMounts", <<>>)) \cup ToSet(Given(j, "commandMounts", <<>>))
          \cup ToSet(Given(j, "sidecarMounts", <<>>)) \cup ToSet(Given(j, "extraMounts", <<>>))
          \cup UNION {ToSet(c.mounts) : c \in given}
  BY DEF WrittenMounts
<1> HIDE DEF given
<1>4. \A c \in given : MountsIn(c.mounts, V)
  BY <1>1, <1>2, <1>3 DEF MountsIn
<1>5. /\ w.checkoutMounts \in Seq(VolumeMount) /\ w.commandMounts \in Seq(VolumeMount)
      /\ w.sidecarMounts \in Seq(VolumeMount)
  BY ConfigFacts
<1>6. /\ Given(j, "checkoutMounts", <<>>) \in Seq(VolumeMount)
      /\ Given(j, "commandMounts", <<>>) \in Seq(VolumeMount)
      /\ Given(j, "sidecarMounts", <<>>) \in Seq(VolumeMount)
      /\ Given(j, "extraMounts", <<>>) \in Seq(VolumeMount)
  BY GivenFacts
<1> QED BY <1>1, <1>3, <1>4, <1>5, <1>6 DEF MountsIn, given

\* The mounts that all containers share are on volumes that Build adds.
LEMMA CommonMounts ==
    ASSUME NEW w \in Configs, NEW j \in Jobs, NEW V, Covers(V, w, j)
    PROVE  /\ MountsIn(<<workspaceVolumeMount>>, V) /\ MountsIn(volumeMounts(j), V)
           /\ \A names : MountsIn(ConfigMounts(w, names), V)
<1>1. MountsIn(<<workspaceVolumeMount>>, V)
  <2>1. "workspace" \in Text /\ "/workspace" \in Text
    BY DEF Text
  <2>2. workspaceVolumeMount \in VolumeMount /\ workspaceVolumeMount.vol \in V
    BY <2>1 DEF workspaceVolumeMount, Mount, VolumeMount, Covers
  <2>3. PICK m \in VolumeMount : m = workspaceVolumeMount
    BY <2>2
  <2>4. <<m>> \in Seq(VolumeMount) /\ ToSet(<<m>>) = {m}
    BY DEF ToSet
  <2> QED BY <2>2, <2>3, <2>4 DEF MountsIn
<1>2. MountsIn(Given(j, "extraMounts", <<>>), V)
  BY WrittenCovered
<1>3. MountsIn(volumeMounts(j), V)
  BY <1>1, <1>2, MountsInConcat DEF volumeMounts
<1>4. ASSUME NEW names PROVE MountsIn(ConfigMounts(w, names), V)
  <2> DEFINE I == {i \in DOMAIN configMounts : configMounts[i].vol \in names \cap w.volumes}
  <2>1. /\ configMounts \in Seq(VolumeMount) /\ DOMAIN configMounts = 1..5
        /\ {configMounts[i].vol : i \in 1..5} = ConfigVolumes
    BY ConfigMountsFacts
  <2>2. I \in SUBSET (DOMAIN configMounts) /\ \A i \in I : configMounts[i].vol \in V
    BY <2>1 DEF Covers
  <2>3. ConfigMounts(w, names) = Pick(configMounts, I)
    BY DEF ConfigMounts
  <2> HIDE DEF I
  <2>4. /\ ConfigMounts(w, names) \in Seq(VolumeMount)
        /\ ToSet(ConfigMounts(w, names)) = {configMounts[i] : i \in I}
    BY <2>1, <2>2, <2>3, PickRange
  <2> QED BY <2>2, <2>4 DEF MountsIn
<1> QED BY <1>1, <1>3, <1>4

\* A mount for each of some volumes.
LEMMA MountEach ==
    ASSUME NEW vs \in Seq(Text), NEW path \in Text, NEW V, ToSet(vs) \subseteq V
    PROVE  MountsIn([i \in DOMAIN vs |-> Mount(vs[i], path)], V)
<1> DEFINE ms == [i \in DOMAIN vs |-> Mount(vs[i], path)]
<1>1. DOMAIN vs = 1..Len(vs) /\ Len(vs) \in Nat /\ \A i \in DOMAIN vs : vs[i] \in Text /\ vs[i] \in V
  BY LenProperties, ElementOfSeq DEF ToSet
<1>2. \A i \in DOMAIN vs : ms[i] \in VolumeMount /\ ms[i].vol \in V
  BY <1>1 DEF Mount, VolumeMount
<1>3. ms \in [1..Len(vs) -> VolumeMount]
  BY <1>1, <1>2
<1>4. ms \in Seq(VolumeMount)
  BY <1>1, <1>3, FunctionIsSeq
<1> QED BY <1>2, <1>4 DEF MountsIn, ToSet

\* The checkout container's mounts are on volumes that Build adds for it.
LEMMA CheckoutMountsFacts ==
    ASSUME NEW w \in Configs, NEW j \in Jobs, NEW V, Covers(V, w, j), CoversCheckout(V, w, j)
    PROVE  MountsIn(CheckoutMounts(w, j), V)
<1> DEFINE A == volumeMounts(j)
           B == ApplyToCheckout(w)
           M == MirrorsMount(w.mirrors)
           C == w.checkoutMounts
           N == MirrorsMount(Given(j, "mirrors", ""))
           D == Given(j, "checkoutMounts", <<>>)
           K == [i \in DOMAIN GitCreds(w, j) |-> Mount(GitCreds(w, j)[i], "/buildkite/git-credentials-ro")]
<1>1. MountsIn(A, V) /\ MountsIn(B, V) /\ MountsIn(C, V) /\ MountsIn(D, V)
  BY CommonMounts, WrittenCovered DEF ApplyToCheckout
<1>2. "/buildkite/git-mirrors" \in Text /\ "/buildkite/git-credentials-ro" \in Text
  BY DEF Text
<1>3. /\ GitCreds(w, j) \in Seq(Text) /\ w.mirrors \in Text /\ Given(j, "mirrors", "") \in Text
      /\ \A v \in {w.mirrors, Given(j, "mirrors", "")} \ {""} : v \in ToSet(GitMirrors(w, j))
  BY GitFacts, ConfigFacts, GivenFacts
<1>4. ToSet(GitMirrors(w, j)) \subseteq V /\ ToSet(GitCreds(w, j)) \subseteq V
  BY DEF CoversCheckout
<1>5. MountsIn(K, V)
  BY <1>2, <1>3, <1>4, MountEach
<1>6. ASSUME NEW v \in Text, v # "" => v \in V PROVE MountsIn(MirrorsMount(v), V)
  <2>1. CASE v = ""
    <3>1. MirrorsMount(v) = <<>>
      BY <2>1 DEF MirrorsMount
    <3> QED BY <3>1, EmptySeq DEF MountsIn, ToSet
  <2>2. CASE v # ""
    <3>1. PICK m : m = Mount(v, "/buildkite/git-mirrors")
      OBVIOUS
    <3>2. m \in VolumeMount /\ m.vol \in V
      BY <1>2, <1>6, <2>2, <3>1 DEF Mount, VolumeMount
    <3>3. <<m>> \in Seq(VolumeMount) /\ ToSet(<<m>>) = {m}
      BY <3>2 DEF ToSet
    <3>4. MirrorsMount(v) = <<m>>
      BY <2>2, <3>1 DEF MirrorsMount
    <3> QED BY <3>2, <3>3, <3>4 DEF MountsIn
  <2> QED BY <2>1, <2>2
<1>7. MountsIn(M, V) /\ MountsIn(N, V)
  BY <1>3, <1>4, <1>6
<1>8. CheckoutMounts(w, j) = A \o B \o M \o C \o N \o D \o K
  BY DEF CheckoutMounts
<1> HIDE DEF A, B, M, C, N, D, K
<1>9. PICK P : P = A \o B \o M
  OBVIOUS
<1>10. MountsIn(P, V)
  BY <1>1, <1>7, <1>9, MountsInConcat
<1>11. PICK Q : Q = P \o C \o N
  OBVIOUS
<1>12. MountsIn(Q, V)
  BY <1>1, <1>7, <1>10, <1>11, MountsInConcat
<1>13. MountsIn(Q \o D \o K, V)
  BY <1>1, <1>5, <1>12, MountsInConcat
<1>14. CheckoutMounts(w, j) = Q \o D \o K
  BY <1>8, <1>9, <1>11
<1> QED BY <1>13, <1>14

\* The set of all strings covers everything.
LEMMA AllCovered ==
    ASSUME NEW w \in Configs, NEW j \in Jobs
    PROVE  Covers(Text, w, j) /\ CoversCheckout(Text, w, j)
<1>1. "workspace" \in Text /\ ConfigVolumes \subseteq Text
  BY DEF ConfigVolumes, Text
<1>2. \A ms \in Seq(VolumeMount) : \A m \in ToSet(ms) : m.vol \in Text
  <2>1. \A ms \in Seq(VolumeMount) : \A m \in ToSet(ms) : m \in VolumeMount
    BY ElementOfSeq, LenProperties DEF ToSet
  <2> QED BY <2>1 DEF VolumeMount
<1>3. CoversCheckout(Text, w, j)
  <2>1. GitMirrors(w, j) \in Seq(Text) /\ GitCreds(w, j) \in Seq(Text)
    BY GitFacts
  <2> QED BY <2>1, ElementOfSeq, LenProperties DEF ToSet, CoversCheckout
<1>4. \A m \in WrittenMounts(w, j) : m.vol \in Text
  <2> DEFINE given == ToSet(Given(j, "containers", <<>>)) \cup ToSet(Given(j, "sidecars", <<>>))
                         \cup ToSet(Given(j, "init", <<>>))
  <2>1. /\ Given(j, "containers", <<>>) \in Seq(UserContainer)
        /\ Given(j, "sidecars", <<>>) \in Seq(UserContainer) /\ Given(j, "init", <<>>) \in Seq(UserContainer)
    BY GivenFacts
  <2>2. \A s \in Seq(UserContainer) : \A c \in ToSet(s) : c \in UserContainer
    BY ElementOfSeq, LenProperties DEF ToSet
  <2>3. \A c \in given : c \in UserContainer
    BY <2>1, <2>2
  <2>4. \A c \in given : c.mounts \in Seq(VolumeMount)
    BY <2>3 DEF UserContainer
  <2>5. /\ w.checkoutMounts \in Seq(VolumeMount) /\ w.commandMounts \in Seq(VolumeMount)
        /\ w.sidecarMounts \in Seq(VolumeMount)
    BY ConfigFacts
  <2>6. /\ Given(j, "checkoutMounts", <<>>) \in Seq(VolumeMount)
        /\ Given(j, "commandMounts", <<>>) \in Seq(VolumeMount)
        /\ Given(j, "sidecarMounts", <<>>) \in Seq(VolumeMount)
        /\ Given(j, "extraMounts", <<>>) \in Seq(VolumeMount)
    BY GivenFacts
  <2>7. WrittenMounts(w, j) =
          ToSet(w.checkoutMounts) \cup ToSet(w.commandMounts) \cup ToSet(w.sidecarMounts)
          \cup ToSet(Given(j, "checkoutMounts", <<>>)) \cup ToSet(Given(j, "commandMounts", <<>>))
          \cup ToSet(Given(j, "sidecarMounts", <<>>)) \cup ToSet(Given(j, "extraMounts", <<>>))
          \cup UNION {ToSet(c.mounts) : c \in given}
    BY DEF WrittenMounts
  <2> HIDE DEF given
  <2>8. \A c \in given : \A m \in ToSet(c.mounts) : m.vol \in Text
    BY <1>2, <2>4
  <2> QED BY <1>2, <2>5, <2>6, <2>7, <2>8
<1>5. Covers(Text, w, j)
  BY <1>1, <1>4 DEF Covers
<1> QED BY <1>3, <1>5

\* The volumes that are listed in the end cover everything, when what is mounted is
\* brought.
LEMMA VolumesCover ==
    ASSUME NEW w \in Configs, NEW j \in Jobs, NEW ps \in Seq(PatchContainer),
           ValidVolumes(w, j, ps), NEW V, V = ToSet(FinalVolumes(w, j))
    PROVE  /\ Covers(V, w, j) /\ (~skipCheckout(w, j) => CoversCheckout(V, w, j))
           /\ PatchMountsIn(ps, V) /\ PatchMountsIn(PluginPatch(j), V)
<1>1. PICK B : B = ToSet(Given(j, "volumes", <<>>)) \cup {"workspace"} \cup ToSet(w.patchVolumes)
                        \cup ToSet(Given(j, "patchVolumes", <<>>))
  OBVIOUS
<1>2. PICK P : P = {p.mount : p \in ToSet(ps) \cup ToSet(PluginPatch(j))} \ {NoMount}
  OBVIOUS
<1>3. \A m \in WrittenMounts(w, j) \cup P : m.vol \in B
  BY <1>1, <1>2 DEF ValidVolumes
<1>4. PICK U : U = ToSet(Volumes(w, j))
  OBVIOUS
<1>5. /\ ToSet(Given(j, "volumes", <<>>)) \subseteq U /\ "workspace" \in U
      /\ ConfigVolumes \cap w.volumes \subseteq U
      /\ ~skipCheckout(w, j) => ToSet(GitMirrors(w, j)) \cup ToSet(GitCreds(w, j)) \subseteq U
  BY <1>4, VolumesFacts
<1>7. V = U \cup ToSet(w.patchVolumes) \cup ToSet(Given(j, "patchVolumes", <<>>))
  BY <1>4, FinalVolumesFacts
<1>8. B \subseteq V
  BY <1>1, <1>5, <1>7
<1>9. Covers(V, w, j) /\ (~skipCheckout(w, j) => CoversCheckout(V, w, j))
  BY <1>3, <1>5, <1>7, <1>8 DEF Covers, CoversCheckout
<1>10. \A p \in ToSet(ps) \cup ToSet(PluginPatch(j)) : p.mount = NoMount \/ p.mount.vol \in V
  BY <1>2, <1>3, <1>8
<1>11. PatchMountsIn(ps, V) /\ PatchMountsIn(PluginPatch(j), V)
  BY <1>10 DEF PatchMountsIn, ToSet
<1> QED BY <1>9, <1>11

-----------------------------------------------------------------------------
(* The containers before any patch. *)

\* The user's init containers have a name each, if only the empty one.
LEMMA UserInitNamesFacts ==
    ASSUME NEW j \in Jobs
    PROVE  UserInitNames(j) \in Seq(Text) /\ Len(UserInitNames(j)) = Len(Given(j, "init", <<>>))
<1>1. PICK given : given = Given(j, "init", <<>>)
  OBVIOUS
<1>2. given \in Seq(UserContainer)
  BY <1>1, GivenFacts
<1>3. DOMAIN given = 1..Len(given) /\ Len(given) \in Nat /\ \A i \in 1..Len(given) : given[i] \in UserContainer
  BY <1>2, LenProperties, ElementOfSeq
<1>4. UserInitNames(j) = [i \in 1..Len(given) |-> given[i].name]
  BY <1>1, <1>3 DEF UserInitNames
<1>5. UserInitNames(j) \in [1..Len(given) -> Text]
  BY <1>3, <1>4 DEF UserContainer
<1> QED BY <1>1, <1>3, <1>5, FunctionIsSeq

\* There is a command container, a name for each of them and for each sidecar.
LEMMA NamesFacts ==
    ASSUME NEW j \in Jobs
    PROVE  /\ CommandNames(j) \in Seq(Text) /\ SidecarsNamed(j) \in Seq(Text)
           /\ Len(CommandNames(j)) >= 1 /\ Len(CommandNames(j)) + 2 <= Len(ImageCheckNames)
           /\ Given(j, "containers", <<>>) # <<>> =>
                 Len(CommandNames(j)) = Len(Given(j, "containers", <<>>))
           /\ Given(j, "containers", <<>>) = <<>> => Len(CommandNames(j)) = 1
           /\ Len(SidecarsNamed(j)) = Len(Given(j, "sidecars", <<>>))
<1>1. PICK given, side : given = Given(j, "containers", <<>>) /\ side = Given(j, "sidecars", <<>>)
  OBVIOUS
<1>2. /\ given \in Seq(UserContainer) /\ side \in Seq(UserContainer)
      /\ Len(given) \in 0..Len(ContainerNames) /\ Len(side) \in 0..Len(SidecarNames)
      /\ Len(given) + 3 <= Len(ImageCheckNames)
  BY <1>1, GivenFacts
<1>3. /\ DOMAIN given = 1..Len(given) /\ Len(given) \in Nat
      /\ DOMAIN side = 1..Len(side) /\ Len(side) \in Nat
      /\ \A i \in DOMAIN given : given[i].name \in Text
      /\ \A i \in DOMAIN side : side[i].name \in Text
  <2>1. /\ DOMAIN given = 1..Len(given) /\ Len(given) \in Nat
        /\ DOMAIN side = 1..Len(side) /\ Len(side) \in Nat
    BY <1>2, LenProperties
  <2>2. /\ \A i \in DOMAIN given : given[i] \in UserContainer
        /\ \A i \in DOMAIN side : side[i] \in UserContainer
    BY <1>2, <2>1, ElementOfSeq
  <2> QED BY <2>1, <2>2 DEF UserContainer
<1>4. /\ ContainerNames \in Seq(Text) /\ SidecarNames \in Seq(Text) /\ ImageCheckNames \in Seq(Text)
      /\ Len(ContainerNames) >= 1
  BY NamesAssumption
<1>5. /\ Len(ImageCheckNames) \in Nat
      /\ Len(ContainerNames) \in Nat /\ \A i \in 1..Len(ContainerNames) : ContainerNames[i] \in Text
      /\ Len(SidecarNames) \in Nat /\ \A i \in 1..Len(SidecarNames) : SidecarNames[i] \in Text
  BY <1>4, LenProperties, ElementOfSeq
<1>6. \A a, b \in Text : Or(a, b) \in Text
  BY DEF Or
<1>7. SidecarsNamed(j) \in Seq(Text) /\ Len(SidecarsNamed(j)) = Len(side)
  <2>1. SidecarsNamed(j) = [i \in 1..Len(side) |-> Or(side[i].name, SidecarNames[i])]
    BY <1>1, <1>3 DEF SidecarsNamed
  <2>2. \A i \in 1..Len(side) : side[i].name \in Text /\ SidecarNames[i] \in Text
    BY <1>2, <1>3, <1>5
  <2>3. SidecarsNamed(j) \in [1..Len(side) -> Text]
    BY <1>6, <2>1, <2>2
  <2> QED BY <1>3, <2>3, FunctionIsSeq
<1>8. CASE given = <<>>
  <2>1. CommandNames(j) = <<ContainerNames[1]>>
    BY <1>1, <1>8 DEF CommandNames
  <2>2. PICK n \in Text : n = ContainerNames[1]
    BY <1>4, <1>5
  <2>3. CommandNames(j) \in Seq(Text) /\ Len(CommandNames(j)) = 1
    BY <2>1, <2>2
  <2>4. Len(given) = 0
    BY <1>8, EmptySeq
  <2> QED BY <1>1, <1>2, <1>5, <1>7, <1>8, <2>3, <2>4
<1>9. CASE given # <<>>
  <2>1. CommandNames(j) = [i \in 1..Len(given) |-> Or(given[i].name, ContainerNames[i])]
    BY <1>1, <1>3, <1>9 DEF CommandNames
  <2>2. \A i \in 1..Len(given) : given[i].name \in Text /\ ContainerNames[i] \in Text
    BY <1>2, <1>3, <1>5
  <2>3. CommandNames(j) \in [1..Len(given) -> Text]
    BY <1>6, <2>1, <2>2
  <2>4. CommandNames(j) \in Seq(Text) /\ Len(CommandNames(j)) = Len(given)
    BY <1>3, <2>3, FunctionIsSeq
  <2>5. Len(given) # 0
    BY <1>2, <1>9, EmptySeq
  <2> QED BY <1>1, <1>2, <1>3, <1>5, <1>7, <1>9, <2>4, <2>5
<1> QED BY <1>8, <1>9

\* The literals of the module are strings.
LEMMA Literals ==
    /\ {"", "step", "buildkite", "agent", "checkout", "copy-agent", "agent-image", "bootstrap",
        "agent start", "setup", "check", "Always", "IfNotPresent"} \subseteq Text
    /\ AgentContainerName \in Text /\ CheckoutContainerName \in Text
    /\ CopyAgentContainerName \in Text /\ AgentImage \in Text
BY DEF Text, AgentContainerName, CheckoutContainerName, CopyAgentContainerName, AgentImage

\* A joined command line is not empty, and its command can be told from it.
LEMMA CommandLines ==
    ASSUME NEW w \in Configs, NEW j \in Jobs, NEW cmd \in Text
    PROVE  /\ Command(w, j, cmd) \in Seq(Text) /\ Len(Command(w, j, cmd)) = 2
           /\ Command(w, j, cmd)[2] = cmd /\ Command(w, j, cmd) # NoCommand
           /\ StepCommand \in Seq(Text) /\ NoCommand \in Seq(Text) /\ StepCommand # NoCommand
<1>1. InterposerFor(w, j) \in Text
  <2>1. /\ w.interposer \in Text /\ Given(j, "interposer", "") \in Text /\ "buildkite" \in Text
    BY ConfigFacts, GivenFacts, Literals
  <2> QED BY <2>1 DEF InterposerFor, Or
<1>2. PICK a \in Text : Command(w, j, cmd) = <<a, cmd>>
  BY <1>1 DEF Command
<1>3. "step" \in Text
  BY Literals
<1>4. StepCommand \in Seq(Text) /\ NoCommand \in Seq(Text) /\ StepCommand # NoCommand
  BY <1>3 DEF StepCommand, NoCommand
<1>5. /\ <<a, cmd>> \in Seq(Text) /\ Len(<<a, cmd>>) = 2 /\ <<a, cmd>>[2] = cmd
      /\ <<a, cmd>> # NoCommand
  BY DEF NoCommand
<1> QED BY <1>2, <1>4, <1>5

\* What the i-th command container is to run.
CommandOf(w, j, i) ==
    LET given == Given(j, "containers", <<>>)
    IN IF given = <<>> \/ given[i].cmd = "" THEN StepCommand ELSE Command(w, j, given[i].cmd)

\* The i-th command container has its name and ID, and runs kubernetes-bootstrap
\* with its command.
IsCommandContainer(w, j, i, c) ==
    /\ c \in PodContainer
    /\ c.name = CommandNames(j)[i] /\ c.id = i - 1 + systemContainerCount(w, j)
    /\ c.entry = "bootstrap" /\ c.command = CommandOf(w, j, i) /\ c.command # NoCommand
    /\ \A V : Covers(V, w, j) => MountsIn(c.mounts, V)

\* The command containers are numbered on from the checkout container.
LEMMA CommandContainersFacts ==
    ASSUME NEW w \in Configs, NEW j \in Jobs
    PROVE  /\ CommandContainers(w, j) \in Seq(PodContainer)
           /\ Len(CommandContainers(w, j)) = Len(CommandNames(j))
           /\ \A i \in 1..Len(CommandNames(j)) :
                 IsCommandContainer(w, j, i, CommandContainers(w, j)[i])
<1>1. PICK given : given = Given(j, "containers", <<>>)
  OBVIOUS
<1>2. given \in Seq(UserContainer)
  BY <1>1, GivenFacts
<1>3. DOMAIN given = 1..Len(given) /\ Len(given) \in Nat
  BY <1>2, LenProperties
<1>4. systemContainerCount(w, j) \in Int /\ systemContainerCount(w, j) \in 0..1
  BY DEF systemContainerCount
<1>5. /\ CommandNames(j) \in Seq(Text)
      /\ given # <<>> => Len(CommandNames(j)) = Len(given)
      /\ given = <<>> => Len(CommandNames(j)) = 1
  BY <1>1, NamesFacts
<1>6. \A i \in 1..Len(CommandNames(j)) : CommandNames(j)[i] \in Text
  BY <1>5, ElementOfSeq, LenProperties
<1> DEFINE back(i) == given[i].mounts \o CommandMounts(w, j) \o volumeMounts(j)
<1>7. ASSUME NEW V, Covers(V, w, j)
      PROVE  /\ MountsIn(volumeMounts(j) \o CommandMounts(w, j), V)
             /\ \A i \in 1..Len(given) : MountsIn(back(i), V)
  <2>1. /\ MountsIn(volumeMounts(j), V) /\ MountsIn(ApplyToCommand(w), V)
        /\ MountsIn(w.commandMounts, V) /\ MountsIn(Given(j, "commandMounts", <<>>), V)
    BY <1>7, CommonMounts, WrittenCovered DEF ApplyToCommand
  <2>2. MountsIn(CommandMounts(w, j), V)
    <3>1. MountsIn(ApplyToCommand(w) \o w.commandMounts, V)
      BY <2>1, MountsInConcat
    <3> QED BY <2>1, <3>1, MountsInConcat DEF CommandMounts
  <2>3. ASSUME NEW i \in 1..Len(given) PROVE MountsIn(back(i), V)
    <3>1. given[i] \in ToSet(given)
      BY <1>3 DEF ToSet
    <3>2. MountsIn(given[i].mounts, V)
      BY <1>1, <1>7, <3>1, WrittenCovered
    <3>3. MountsIn(given[i].mounts \o CommandMounts(w, j), V)
      BY <2>2, <3>2, MountsInConcat
    <3> QED BY <2>1, <3>3, MountsInConcat
  <2> QED BY <2>1, <2>2, <2>3, MountsInConcat
<1>8. /\ volumeMounts(j) \o CommandMounts(w, j) \in Seq(VolumeMount)
      /\ \A i \in 1..Len(given) : back(i) \in Seq(VolumeMount)
  <2> HIDE DEF back
  <2>1. Covers(Text, w, j)
    BY AllCovered
  <2> QED BY <1>7, <2>1 DEF MountsIn
<1>9. "" \in Text /\ "bootstrap" \in Text /\ AgentImage \in Text
  BY Literals
<1>12. PICK empty \in Text, boot \in Text, img \in Text :
          empty = "" /\ boot = "bootstrap" /\ img = AgentImage
  BY <1>9
<1>13. StepCommand \in Seq(Text) /\ StepCommand # NoCommand
  BY <1>12, CommandLines
<1>14. PICK front : front = volumeMounts(j) \o CommandMounts(w, j)
  OBVIOUS
<1>15. front \in Seq(VolumeMount) /\ \A V : Covers(V, w, j) => MountsIn(front, V)
  BY <1>7, <1>8, <1>14
<1>10. CASE given = <<>>
  <2>1. PICK name \in Text, n \in Int : name = CommandNames(j)[1] /\ n = systemContainerCount(w, j)
    <3>0. Len(CommandNames(j)) = 1
      BY <1>5, <1>10, Zenon
    <3>1. 1 \in 1..Len(CommandNames(j))
      BY <3>0
    <3>2. CommandNames(j)[1] \in Text
      BY <1>6, <3>1
    <3> QED BY <1>4, <3>2
  <2>2. PICK c : c = Container(name, img, empty, boot, StepCommand, n, front)
    OBVIOUS
  <2>3. CommandContainers(w, j) = <<c>>
    BY <1>1, <1>10, <1>12, <1>14, <2>1, <2>2 DEF CommandContainers
  <2>4. /\ c \in PodContainer /\ c.name = name /\ c.id = n
        /\ c.entry = boot /\ c.command = StepCommand /\ c.mounts = front
    BY <1>13, <1>15, <2>2, ContainerFields
  <2>5. CommandOf(w, j, 1) = StepCommand
    BY <1>1, <1>10 DEF CommandOf
  <2>6. n = 1 - 1 + systemContainerCount(w, j)
    BY <1>4, <2>1
  <2>7. IsCommandContainer(w, j, 1, c)
    BY <1>12, <1>13, <1>15, <2>1, <2>4, <2>5, <2>6 DEF IsCommandContainer
  <2>8. PICK cs : cs = <<c>>
    OBVIOUS
  <2>9. cs \in Seq(PodContainer) /\ Len(cs) = 1 /\ cs[1] = c
    BY <2>4, <2>8
  <2>10. CommandContainers(w, j) = cs /\ Len(CommandNames(j)) = 1
    BY <1>5, <1>10, <2>3, <2>8
  <2>11. \A i \in 1..1 : IsCommandContainer(w, j, i, cs[i])
    BY <2>7, <2>9
  <2> QED BY <2>9, <2>10, <2>11
<1>11. CASE given # <<>>
  <2> DEFINE C(i) == Container(CommandNames(j)[i], given[i].image, given[i].policy,
                          boot,
                          IF given[i].cmd # "" THEN Command(w, j, given[i].cmd) ELSE StepCommand,
                          i - 1 + systemContainerCount(w, j), back(i))
  <2>1. CommandContainers(w, j) = [i \in 1..Len(given) |-> C(i)]
    BY <1>1, <1>3, <1>11, <1>12, <1>14 DEF CommandContainers
  <2>2. ASSUME NEW i \in 1..Len(given) PROVE IsCommandContainer(w, j, i, C(i))
    <3>1. given[i] \in UserContainer
      BY <1>2, <1>3, ElementOfSeq
    <3>2. given[i].image \in Text /\ given[i].policy \in Text /\ given[i].cmd \in Text
      BY <3>1 DEF UserContainer
    <3>3. PICK name \in Text, image \in Text, policy \in Text, id \in Int :
             /\ name = CommandNames(j)[i] /\ image = given[i].image /\ policy = given[i].policy
             /\ id = i - 1 + systemContainerCount(w, j)
      BY <1>3, <1>4, <1>5, <1>6, <1>11, <3>2
    <3>4. PICK command : command = CommandOf(w, j, i)
      OBVIOUS
    <3>5. command = IF given[i].cmd # "" THEN Command(w, j, given[i].cmd) ELSE StepCommand
      BY <1>1, <1>11, <3>4 DEF CommandOf
    <3>6. command \in Seq(Text) /\ command # NoCommand
      BY <3>2, <3>5, CommandLines
    <3>11. PICK mounts : mounts = back(i)
      OBVIOUS
    <3>12. mounts \in Seq(VolumeMount) /\ \A V : Covers(V, w, j) => MountsIn(mounts, V)
      BY <1>7, <1>8, <3>11
    <3>7. C(i) = Container(name, image, policy, boot, command, id, mounts)
      BY <3>3, <3>5, <3>11
    <3>8. PICK c : c = C(i)
      OBVIOUS
    <3>9. /\ c \in PodContainer /\ c.name = name /\ c.entry = boot
          /\ c.command = command /\ c.id = id /\ c.mounts = mounts
      <4> HIDE DEF C
      <4> QED BY <3>6, <3>7, <3>8, <3>12, ContainerFields
    <3>10. IsCommandContainer(w, j, i, c)
      BY <1>12, <3>3, <3>4, <3>6, <3>9, <3>12 DEF IsCommandContainer
    <3> QED BY <3>8, <3>10
  <2> HIDE DEF C
  <2>3. CommandContainers(w, j) \in [1..Len(given) -> PodContainer]
    BY <2>1, <2>2 DEF IsCommandContainer
  <2>4. /\ CommandContainers(w, j) \in Seq(PodContainer)
        /\ Len(CommandContainers(w, j)) = Len(given)
    BY <1>3, <2>3, FunctionIsSeq
  <2>5. \A i \in 1..Len(given) : IsCommandContainer(w, j, i, CommandContainers(w, j)[i])
    BY <2>1, <2>2
  <2> QED BY <1>5, <1>11, <2>4, <2>5
<1> QED BY <1>10, <1>11

\* There is one sidecar for each that the plugin gives.
LEMMA SidecarFacts ==
    ASSUME NEW w \in Configs, NEW j \in Jobs, NEW cs, cs = SidecarContainers(w, j)
    PROVE  /\ cs \in Seq(PodContainer) /\ Len(cs) = Len(SidecarsNamed(j))
           /\ \A i \in 1..Len(cs) :
                 /\ cs[i].name = SidecarsNamed(j)[i]
                 /\ \A V : Covers(V, w, j) => MountsIn(cs[i].mounts, V)
<1>1. PICK given : given = Given(j, "sidecars", <<>>)
  OBVIOUS
<1>2. given \in Seq(UserContainer)
  BY <1>1, GivenFacts
<1>3. DOMAIN given = 1..Len(given) /\ Len(given) \in Nat
  BY <1>2, LenProperties
<1>4. SidecarsNamed(j) \in Seq(Text) /\ Len(SidecarsNamed(j)) = Len(given)
  BY <1>1, NamesFacts
<1>5. \A i \in 1..Len(given) : SidecarsNamed(j)[i] \in Text
  BY <1>4, ElementOfSeq, LenProperties
<1> DEFINE mounts(i) == given[i].mounts \o SidecarMounts(w, j)
<1>6. ASSUME NEW i \in 1..Len(given), NEW V, Covers(V, w, j) PROVE MountsIn(mounts(i), V)
  <2>1. given[i] \in ToSet(given)
    BY <1>3 DEF ToSet
  <2>2. MountsIn(given[i].mounts, V)
    BY <1>1, <1>6, <2>1, WrittenCovered
  <2>3. /\ MountsIn(w.sidecarMounts, V) /\ MountsIn(volumeMounts(j), V)
        /\ MountsIn(Given(j, "sidecarMounts", <<>>), V)
    BY <1>6, CommonMounts, WrittenCovered
  <2>4. MountsIn(SidecarMounts(w, j), V)
    <3>1. MountsIn(w.sidecarMounts \o volumeMounts(j), V)
      BY <2>3, MountsInConcat
    <3> QED BY <2>3, <3>1, MountsInConcat DEF SidecarMounts
  <2> QED BY <2>2, <2>4, MountsInConcat
<1>7. \A i \in 1..Len(given) : mounts(i) \in Seq(VolumeMount)
  <2>1. Covers(Text, w, j)
    BY AllCovered
  <2> HIDE DEF mounts
  <2> QED BY <1>6, <2>1 DEF MountsIn
<1>8. NoCommand \in Seq(Text) /\ NoId \in Int
  BY EmptySeq DEF NoCommand, NoId
<1> DEFINE C(i) == Container(SidecarsNamed(j)[i], given[i].image, given[i].policy,
                     given[i].cmd, NoCommand, NoId, mounts(i))
<1>9. cs = [i \in 1..Len(given) |-> C(i)]
  BY <1>1, <1>3 DEF SidecarContainers
<1> HIDE DEF mounts
<1>10. ASSUME NEW i \in 1..Len(given)
       PROVE  C(i) \in PodContainer /\ C(i).name = SidecarsNamed(j)[i] /\ C(i).mounts = mounts(i)
  <2>1. given[i] \in UserContainer
    BY <1>2, <1>3, ElementOfSeq
  <2>2. given[i].image \in Text /\ given[i].policy \in Text /\ given[i].cmd \in Text
    BY <2>1 DEF UserContainer
  <2> QED BY <1>5, <1>7, <1>8, <2>2, ContainerFields
<1> HIDE DEF C
<1>11. cs \in [1..Len(given) -> PodContainer]
  BY <1>9, <1>10
<1>12. cs \in Seq(PodContainer) /\ Len(cs) = Len(given)
  BY <1>3, <1>11, FunctionIsSeq
<1> QED BY <1>4, <1>6, <1>9, <1>10, <1>12

\* The user's init containers are as the plugin gives them.
LEMMA UserInitFacts ==
    ASSUME NEW w \in Configs, NEW j \in Jobs, NEW cs, cs = UserInitContainers(j)
    PROVE  /\ cs \in Seq(PodContainer) /\ Len(cs) = Len(UserInitNames(j))
           /\ \A i \in 1..Len(cs) :
                 /\ cs[i].name = UserInitNames(j)[i]
                 /\ \A V : Covers(V, w, j) => MountsIn(cs[i].mounts, V)
<1>1. PICK given : given = Given(j, "init", <<>>)
  OBVIOUS
<1>2. given \in Seq(UserContainer)
  BY <1>1, GivenFacts
<1>3. DOMAIN given = 1..Len(given) /\ Len(given) \in Nat
  BY <1>2, LenProperties
<1>4. UserInitNames(j) \in Seq(Text) /\ Len(UserInitNames(j)) = Len(given)
  BY <1>1, UserInitNamesFacts
<1>5. \A i \in 1..Len(given) : UserInitNames(j)[i] \in Text
  BY <1>4, ElementOfSeq, LenProperties
<1> DEFINE mounts(i) == given[i].mounts
<1>6. ASSUME NEW i \in 1..Len(given), NEW V, Covers(V, w, j) PROVE MountsIn(mounts(i), V)
  <2>1. given[i] \in ToSet(given)
    BY <1>3 DEF ToSet
  <2>2. MountsIn(given[i].mounts, V)
    BY <1>1, <1>6, <2>1, WrittenCovered
  <2> QED BY <2>2
<1>7. \A i \in 1..Len(given) : mounts(i) \in Seq(VolumeMount)
  <2>1. Covers(Text, w, j)
    BY AllCovered
  <2> HIDE DEF mounts
  <2> QED BY <1>6, <2>1 DEF MountsIn
<1>8. NoCommand \in Seq(Text) /\ NoId \in Int
  BY EmptySeq DEF NoCommand, NoId
<1> DEFINE C(i) == Container(UserInitNames(j)[i], given[i].image, given[i].policy,
                     given[i].cmd, NoCommand, NoId, mounts(i))
<1>9. cs = [i \in 1..Len(given) |-> C(i)]
  BY <1>1, <1>3 DEF UserInitContainers
<1> HIDE DEF mounts
<1>10. ASSUME NEW i \in 1..Len(given)
       PROVE  C(i) \in PodContainer /\ C(i).name = UserInitNames(j)[i] /\ C(i).mounts = mounts(i)
  <2>1. given[i] \in UserContainer
    BY <1>2, <1>3, ElementOfSeq
  <2>2. given[i].image \in Text /\ given[i].policy \in Text /\ given[i].cmd \in Text
    BY <2>1 DEF UserContainer
  <2> QED BY <1>5, <1>7, <1>8, <2>2, ContainerFields
<1> HIDE DEF C
<1>11. cs \in [1..Len(given) -> PodContainer]
  BY <1>9, <1>10
<1>12. cs \in Seq(PodContainer) /\ Len(cs) = Len(given)
  BY <1>3, <1>11, FunctionIsSeq
<1> QED BY <1>4, <1>6, <1>9, <1>10, <1>12

\* The names of both together.
LEMMA PodSpecInitNamesFacts ==
    ASSUME NEW j \in Jobs
    PROVE  podSpecInitNames(j) \in Seq(Text)
BY UserInitNamesFacts, NamesFacts, RangeConcat DEF podSpecInitNames

\* Both together.
LEMMA PodSpecInitFacts ==
    ASSUME NEW w \in Configs, NEW j \in Jobs, NEW cs, cs = podSpecInitContainers(w, j)
    PROVE  /\ podSpecInitNames(j) \in Seq(Text)
           /\ cs \in Seq(PodContainer) /\ Len(cs) = Len(podSpecInitNames(j))
           /\ \A i \in 1..Len(cs) :
                 /\ cs[i].name = podSpecInitNames(j)[i]
                 /\ \A V : Covers(V, w, j) => MountsIn(cs[i].mounts, V)
<1>1. PICK us, ss, un, sn : /\ us = UserInitContainers(j) /\ ss = SidecarContainers(w, j)
                           /\ un = UserInitNames(j) /\ sn = SidecarsNamed(j)
  OBVIOUS
<1>2. /\ us \in Seq(PodContainer) /\ Len(us) = Len(un)
      /\ \A i \in 1..Len(us) : us[i].name = un[i]
                                /\ \A V : Covers(V, w, j) => MountsIn(us[i].mounts, V)
  BY <1>1, UserInitFacts
<1>3. /\ ss \in Seq(PodContainer) /\ Len(ss) = Len(sn)
      /\ \A i \in 1..Len(ss) : ss[i].name = sn[i]
                                /\ \A V : Covers(V, w, j) => MountsIn(ss[i].mounts, V)
  BY <1>1, SidecarFacts
<1>4. un \in Seq(Text) /\ sn \in Seq(Text)
  BY <1>1, UserInitNamesFacts, NamesFacts
<1>5. cs = us \o ss /\ podSpecInitNames(j) = un \o sn
  BY <1>1 DEF podSpecInitContainers, podSpecInitNames
<1>6. /\ us \o ss \in Seq(PodContainer) /\ Len(us \o ss) = Len(us) + Len(ss)
      /\ \A i \in 1..(Len(us) + Len(ss)) :
            (us \o ss)[i] = IF i <= Len(us) THEN us[i] ELSE ss[i - Len(us)]
  <2>1. us \in Seq(PodContainer) /\ ss \in Seq(PodContainer)
    BY <1>2, <1>3
  <2> QED BY <2>1, ConcatProperties
<1>7. /\ un \o sn \in Seq(Text) /\ Len(un \o sn) = Len(un) + Len(sn)
      /\ \A i \in 1..(Len(un) + Len(sn)) :
            (un \o sn)[i] = IF i <= Len(un) THEN un[i] ELSE sn[i - Len(un)]
  BY <1>4, ConcatProperties
<1>8. Len(us) \in Nat /\ Len(ss) \in Nat
  BY <1>2, <1>3, LenProperties
<1>9. ASSUME NEW i \in 1..Len(cs)
      PROVE  /\ cs[i].name = podSpecInitNames(j)[i]
             /\ \A V : Covers(V, w, j) => MountsIn(cs[i].mounts, V)
  <2>1. CASE i <= Len(us)
    <3>1. i \in 1..Len(us) /\ cs[i] = us[i] /\ podSpecInitNames(j)[i] = un[i]
      BY <1>2, <1>3, <1>5, <1>6, <1>7, <1>8, <2>1
    <3> QED BY <1>2, <3>1
  <2>2. CASE i > Len(us)
    <3>1. PICK k \in 1..Len(ss) : k = i - Len(us)
      BY <1>5, <1>6, <1>8, <2>2
    <3>2. i \in 1..(Len(us) + Len(ss)) /\ i \in 1..(Len(un) + Len(sn)) /\ ~(i <= Len(us))
      BY <1>2, <1>3, <1>5, <1>6, <1>8, <2>2
    <3>3. cs[i] = ss[k]
      BY <1>5, <1>6, <3>1, <3>2
    <3>4. podSpecInitNames(j)[i] = sn[k]
      <4>1. (un \o sn)[i] = sn[i - Len(un)]
        BY <1>2, <1>7, <3>2
      <4> QED BY <1>2, <1>5, <3>1, <4>1
    <3> QED BY <1>3, <3>1, <3>3, <3>4
  <2>3. i <= Len(us) \/ i > Len(us)
    BY <1>8
  <2> QED BY <2>1, <2>2, <2>3
<1> QED BY <1>2, <1>3, <1>5, <1>6, <1>7, <1>9

\* c is a container of the scheduler's own, with that name, ID and entrypoint.
IsSystemContainer(c, name, id, entry) ==
    c \in PodContainer /\ c.name = name /\ c.id = id /\ c.entry = entry

\* us are the command containers, then the agent and, unless it is skipped, the
\* checkout.
HasShape(w, j, us) ==
    LET n == Len(CommandNames(j))
        s == systemContainerCount(w, j)
    IN /\ us \in Seq(PodContainer) /\ Len(us) = n + 1 + s
       /\ \A i \in 1..n : IsCommandContainer(w, j, i, us[i])
       /\ IsSystemContainer(us[n + 1], AgentContainerName, NoId, "agent start")
       /\ s = 1 => IsSystemContainer(us[n + 2], CheckoutContainerName, 0, "checkout")
       /\ \A V : Covers(V, w, j) /\ (~skipCheckout(w, j) => CoversCheckout(V, w, j)) =>
             \A i \in 1..(n + 1 + s) : MountsIn(us[i].mounts, V)

\* Pull policies are strings.
LEMMA PolicyFacts ==
    ASSUME NEW w \in Configs
    PROVE  /\ AgentPullPolicy(w) \in Text
           /\ \A c \in PodContainer : nominalPolicy(w, c) \in Text /\ ownPolicy(w, c) \in Text
<1>1. w.pullPolicy \in Text /\ w.checkPolicy \in Text
  BY ConfigFacts
<1>2. \A a, b \in Text : Or(a, b) \in Text
  BY DEF Or
<1>3. \A img : defaultPullPolicyForImage(img) \in Text
  <2>1. "Always" \in Text /\ "IfNotPresent" \in Text
    BY Literals
  <2> QED BY <2>1 DEF defaultPullPolicyForImage
<1>4. \A c \in PodContainer : c.policy \in Text
  BY DEF PodContainer
<1> QED BY <1>1, <1>2, <1>3, <1>4 DEF AgentPullPolicy, nominalPolicy, ownPolicy

\* The containers of the scheduler's own run what they should.
LEMMA SystemContainers ==
    ASSUME NEW w \in Configs, NEW j \in Jobs
    PROVE  /\ IsSystemContainer(AgentContainer(w, j), AgentContainerName, NoId, "agent start")
           /\ IsSystemContainer(createCheckoutContainer(w, j), CheckoutContainerName, 0, "checkout")
           /\ IsSystemContainer(createWorkspaceSetupContainer(w), CopyAgentContainerName, NoId, "setup")
           /\ \A V : Covers(V, w, j) =>
                 /\ MountsIn(AgentContainer(w, j).mounts, V)
                 /\ MountsIn(createWorkspaceSetupContainer(w).mounts, V)
                 /\ CoversCheckout(V, w, j) => MountsIn(createCheckoutContainer(w, j).mounts, V)
<1>1. PICK policy \in Text : policy = AgentPullPolicy(w)
  BY PolicyFacts
<1>2. PICK start \in Text, checkout \in Text, setup \in Text :
         start = "agent start" /\ checkout = "checkout" /\ setup = "setup"
  BY Literals
<1>3. NoCommand \in Seq(Text) /\ NoId \in Int /\ 0 \in Int
  BY EmptySeq DEF NoCommand, NoId
<1>4. PICK a, b, c : /\ a = volumeMounts(j) \o ApplyToAgentStart(w) /\ b = CheckoutMounts(w, j)
                     /\ c = <<workspaceVolumeMount>>
  OBVIOUS
<1>5. ASSUME NEW V, Covers(V, w, j)
      PROVE  MountsIn(a, V) /\ MountsIn(c, V) /\ (CoversCheckout(V, w, j) => MountsIn(b, V))
  <2>1. MountsIn(volumeMounts(j), V) /\ MountsIn(ApplyToAgentStart(w), V) /\ MountsIn(c, V)
    BY <1>4, <1>5, CommonMounts DEF ApplyToAgentStart
  <2>2. MountsIn(a, V)
    BY <1>4, <2>1, MountsInConcat
  <2>3. CoversCheckout(V, w, j) => MountsIn(b, V)
    BY <1>4, <1>5, CheckoutMountsFacts
  <2> QED BY <2>1, <2>2, <2>3
<1>6. a \in Seq(VolumeMount) /\ b \in Seq(VolumeMount) /\ c \in Seq(VolumeMount)
  BY <1>5, AllCovered DEF MountsIn
<1>7. /\ AgentContainer(w, j) = Container(AgentContainerName, AgentImage, policy, start, NoCommand, NoId, a)
      /\ createCheckoutContainer(w, j)
            = Container(CheckoutContainerName, AgentImage, policy, checkout, NoCommand, 0, b)
      /\ createWorkspaceSetupContainer(w)
            = Container(CopyAgentContainerName, AgentImage, policy, setup, NoCommand, NoId, c)
  BY <1>1, <1>2, <1>4 DEF AgentContainer, createCheckoutContainer, createWorkspaceSetupContainer
<1>8. /\ AgentContainerName \in Text /\ CheckoutContainerName \in Text
      /\ CopyAgentContainerName \in Text /\ AgentImage \in Text
  BY Literals
<1>9. /\ IsSystemContainer(AgentContainer(w, j), AgentContainerName, NoId, start)
      /\ AgentContainer(w, j).mounts = a
  BY <1>3, <1>6, <1>7, <1>8, ContainerFields DEF IsSystemContainer
<1>10. /\ IsSystemContainer(createCheckoutContainer(w, j), CheckoutContainerName, 0, checkout)
       /\ createCheckoutContainer(w, j).mounts = b
  BY <1>3, <1>6, <1>7, <1>8, ContainerFields DEF IsSystemContainer
<1>11. /\ IsSystemContainer(createWorkspaceSetupContainer(w), CopyAgentContainerName, NoId, setup)
       /\ createWorkspaceSetupContainer(w).mounts = c
  BY <1>3, <1>6, <1>7, <1>8, ContainerFields DEF IsSystemContainer
<1> QED BY <1>2, <1>5, <1>9, <1>10, <1>11

\* What Build assembles before the image checks has the shape.
LEMMA UncheckedShape ==
    ASSUME NEW w \in Configs, NEW j \in Jobs
    PROVE  HasShape(w, j, Unchecked(w, j))
<1>1. PICK cs, n, s, a, k :
         /\ cs = CommandContainers(w, j) /\ n = Len(CommandNames(j)) /\ s = systemContainerCount(w, j)
         /\ a = AgentContainer(w, j) /\ k = createCheckoutContainer(w, j)
  OBVIOUS
<1>2. cs \in Seq(PodContainer) /\ Len(cs) = n /\ \A i \in 1..n : IsCommandContainer(w, j, i, cs[i])
  BY <1>1, CommandContainersFacts
<1>3. n \in Nat
  BY <1>2, LenProperties
<1>4. /\ IsSystemContainer(a, AgentContainerName, NoId, "agent start")
      /\ IsSystemContainer(k, CheckoutContainerName, 0, "checkout")
      /\ \A V : Covers(V, w, j) => /\ MountsIn(a.mounts, V)
                                   /\ CoversCheckout(V, w, j) => MountsIn(k.mounts, V)
  BY <1>1, SystemContainers
<1>5. a \in PodContainer /\ k \in PodContainer
  BY <1>4 DEF IsSystemContainer
<1>8. PICK f : f = cs \o <<a>>
  OBVIOUS
<1>9. /\ f \in Seq(PodContainer) /\ Len(f) = n + 1
      /\ f[n + 1] = a /\ \A i \in 1..n : f[i] = cs[i]
  BY <1>2, <1>5, <1>8, OneMore
<1>12. \A V : Covers(V, w, j) => \A i \in 1..(n + 1) : MountsIn(f[i].mounts, V)
  <2> SUFFICES ASSUME NEW V, Covers(V, w, j), NEW i \in 1..(n + 1) PROVE MountsIn(f[i].mounts, V)
    OBVIOUS
  <2>1. CASE i <= n
    <3>1. i \in 1..n /\ f[i] = cs[i]
      BY <1>3, <1>9, <2>1
    <3> QED BY <1>2, <3>1 DEF IsCommandContainer
  <2>2. CASE i > n
    <3>1. f[i] = a
      BY <1>3, <1>9, <2>2
    <3> QED BY <1>4, <3>1
  <2> QED BY <1>3, <2>1, <2>2
<1>13. CASE skipCheckout(w, j)
  <2>1. s = 0
    BY <1>1, <1>13 DEF systemContainerCount
  <2>2. Unchecked(w, j) = f \o <<>>
    BY <1>1, <1>8, <1>13 DEF Unchecked
  <2>3. f \o <<>> = f
    BY <1>9, ConcatEmptySeq
  <2>5. n + 1 + s = n + 1 /\ s # 1
    BY <1>3, <2>1
  <2>4. /\ f \in Seq(PodContainer) /\ Len(f) = n + 1 + s
        /\ \A i \in 1..n : IsCommandContainer(w, j, i, f[i])
        /\ IsSystemContainer(f[n + 1], AgentContainerName, NoId, "agent start")
    BY <1>2, <1>4, <1>9, <2>5
  <2>6. HasShape(w, j, f)
    BY <1>1, <1>12, <2>4, <2>5 DEF HasShape
  <2> QED BY <2>2, <2>3, <2>6
<1>14. CASE ~skipCheckout(w, j)
  <2>1. s = 1
    BY <1>1, <1>14 DEF systemContainerCount
  <2>2. PICK g : g = f \o <<k>>
    OBVIOUS
  <2>3. Unchecked(w, j) = g
    BY <1>1, <1>8, <1>14, <2>2 DEF Unchecked
  <2>4. (n + 1) + 1 = n + 2
    BY <1>3
  <2>5. /\ g \in Seq(PodContainer) /\ Len(g) = (n + 1) + 1
        /\ g[(n + 1) + 1] = k /\ \A i \in 1..(n + 1) : g[i] = f[i]
    BY <1>5, <1>9, <2>2, OneMore
  <2>6. /\ g \in Seq(PodContainer) /\ Len(g) = n + 2
        /\ g[n + 2] = k /\ \A i \in 1..(n + 1) : g[i] = f[i]
    BY <2>4, <2>5
  <2>7. g[n + 1] = a /\ \A i \in 1..n : g[i] = cs[i]
    BY <1>3, <1>9, <2>6
  <2>8. ASSUME NEW V, Covers(V, w, j), CoversCheckout(V, w, j), NEW i \in 1..(n + 2)
        PROVE  MountsIn(g[i].mounts, V)
    <3>1. i \in 1..(n + 1) \/ i = n + 2
      BY <1>3
    <3>2. CASE i \in 1..(n + 1)
      BY <1>12, <2>6, <2>8, <3>2
    <3>3. CASE i = n + 2
      BY <1>4, <2>6, <2>8, <3>3
    <3> QED BY <3>1, <3>2, <3>3
  <2>9. n + 1 + s = n + 2
    BY <1>3, <2>1
  <2>10. HasShape(w, j, g)
    BY <1>1, <1>2, <1>4, <1>14, <2>6, <2>7, <2>8, <2>9 DEF HasShape
  <2> QED BY <2>3, <2>10
<1> QED BY <1>13, <1>14

\* Settling the pull policy changes nothing else.
LEMMA SettleFacts ==
    ASSUME NEW w \in Configs, NEW c \in PodContainer
    PROVE  LET d == SettlePolicy(w, c)
           IN /\ d \in PodContainer /\ d.name = c.name /\ d.image = c.image /\ d.entry = c.entry
              /\ d.command = c.command /\ d.id = c.id /\ d.mounts = c.mounts
              /\ d.policy = IF nominalPolicy(w, c) = "Always" /\ ownPolicy(w, c) = "Always"
                            THEN "IfNotPresent" ELSE ownPolicy(w, c)
<1>1. PICK p : p = IF nominalPolicy(w, c) = "Always" /\ ownPolicy(w, c) = "Always"
                   THEN "IfNotPresent" ELSE ownPolicy(w, c)
  OBVIOUS
<1>2. p \in Text
  <2>1. "IfNotPresent" \in Text /\ ownPolicy(w, c) \in Text
    BY PolicyFacts, Literals
  <2> QED BY <1>1, <2>1
<1>3. SettlePolicy(w, c) = [c EXCEPT !.policy = p]
  BY <1>1 DEF SettlePolicy
<1> QED BY <1>1, <1>2, <1>3 DEF PodContainer

\* Settling the pull policies changes nothing else.
LEMMA SettledShape ==
    ASSUME NEW w \in Configs, NEW j \in Jobs
    PROVE  LET u == Unchecked(w, j)
               as == Assembled(w, j).containers
           IN /\ HasShape(w, j, as) /\ Len(as) = Len(u)
              /\ \A i \in 1..Len(u) : as[i] = SettlePolicy(w, u[i])
<1>1. PICK u, as : u = Unchecked(w, j) /\ as = Assembled(w, j).containers
  OBVIOUS
<1>2. HasShape(w, j, u)
  BY <1>1, UncheckedShape
<1>3. PICK n, s : n = Len(CommandNames(j)) /\ s = systemContainerCount(w, j)
  OBVIOUS
<1>4. n \in Nat /\ s \in 0..1
  <2>1. n \in Nat
    BY <1>3, NamesFacts, LenProperties
  <2> QED BY <1>3, <2>1 DEF systemContainerCount
<1>5. u \in Seq(PodContainer) /\ Len(u) = n + 1 + s
  BY <1>2, <1>3 DEF HasShape
<1>6. DOMAIN u = 1..Len(u) /\ Len(u) \in Nat /\ \A i \in 1..Len(u) : u[i] \in PodContainer
  BY <1>5, LenProperties, ElementOfSeq
<1>7. as = [i \in 1..Len(u) |-> SettlePolicy(w, u[i])]
  BY <1>1, <1>6 DEF Assembled
<1>8. \A i \in 1..Len(u) :
        /\ as[i] = SettlePolicy(w, u[i]) /\ as[i] \in PodContainer
        /\ as[i].name = u[i].name /\ as[i].entry = u[i].entry
        /\ as[i].command = u[i].command /\ as[i].id = u[i].id /\ as[i].mounts = u[i].mounts
  BY <1>6, <1>7, SettleFacts
<1>9. as \in [1..Len(u) -> PodContainer]
  BY <1>7, <1>8
<1>10. as \in Seq(PodContainer) /\ Len(as) = Len(u)
  BY <1>6, <1>9, FunctionIsSeq
<1>11. \A i \in 1..n : IsCommandContainer(w, j, i, as[i])
  <2> SUFFICES ASSUME NEW i \in 1..n PROVE IsCommandContainer(w, j, i, as[i])
    OBVIOUS
  <2>1. i \in 1..Len(u)
    BY <1>4, <1>5
  <2>2. IsCommandContainer(w, j, i, u[i])
    BY <1>2, <1>3 DEF HasShape
  <2> QED BY <1>8, <2>1, <2>2 DEF IsCommandContainer
<1>12. IsSystemContainer(as[n + 1], AgentContainerName, NoId, "agent start")
  <2>1. n + 1 \in 1..Len(u)
    BY <1>4, <1>5
  <2>2. IsSystemContainer(u[n + 1], AgentContainerName, NoId, "agent start")
    BY <1>2, <1>3 DEF HasShape
  <2> QED BY <1>8, <2>1, <2>2 DEF IsSystemContainer
<1>13. s = 1 => IsSystemContainer(as[n + 2], CheckoutContainerName, 0, "checkout")
  <2> SUFFICES ASSUME s = 1 PROVE IsSystemContainer(as[n + 2], CheckoutContainerName, 0, "checkout")
    OBVIOUS
  <2>1. n + 2 \in 1..Len(u)
    BY <1>4, <1>5
  <2>2. IsSystemContainer(u[n + 2], CheckoutContainerName, 0, "checkout")
    BY <1>2, <1>3 DEF HasShape
  <2> QED BY <1>8, <2>1, <2>2 DEF IsSystemContainer
<1>14. ASSUME NEW V, Covers(V, w, j), ~skipCheckout(w, j) => CoversCheckout(V, w, j),
              NEW i \in 1..(n + 1 + s)
       PROVE  MountsIn(as[i].mounts, V)
  <2>1. MountsIn(u[i].mounts, V)
    BY <1>2, <1>3, <1>14 DEF HasShape
  <2> QED BY <1>5, <1>8, <1>14, <2>1
<1>15. HasShape(w, j, as)
  BY <1>3, <1>5, <1>10, <1>11, <1>12, <1>13, <1>14 DEF HasShape
<1> QED BY <1>1, <1>8, <1>10, <1>15

\* Always is the strongest policy.
LEMMA PreferenceFacts ==
    ASSUME NEW policy
    PROVE  /\ pullPolicyPreference(policy) \in 0..3
           /\ pullPolicyPreference(policy) >= 3 <=> policy = "Always"
BY DEF pullPolicyPreference

\* Among the policies for an image there is one that no other exceeds.
LEMMA HasStrongest ==
    ASSUME NEW O, O # {}, NEW g, \A i \in O : g[i] \in 0..3
    PROVE  \E i \in O : \A k \in O : g[i] >= g[k]
<1>1. CASE \E i \in O : g[i] = 3
  BY <1>1
<1>2. CASE ~(\E i \in O : g[i] = 3) /\ \E i \in O : g[i] = 2
  BY <1>2
<1>3. CASE ~(\E i \in O : g[i] = 3 \/ g[i] = 2) /\ \E i \in O : g[i] = 1
  BY <1>3
<1>4. CASE ~(\E i \in O : g[i] = 3 \/ g[i] = 2 \/ g[i] = 1)
  BY <1>4
<1> QED BY <1>1, <1>2, <1>3, <1>4

\* The images to check are those of the containers, an image that some container
\* is to pull always with that policy.
LEMMA ChecksFacts ==
    ASSUME NEW w \in Configs, NEW u \in Seq(PodContainer), NEW checks,
           checks = selectImagesToCheck(w, u)
    PROVE  /\ DOMAIN checks = {u[i].image : i \in 1..Len(u)}
           /\ \A image \in DOMAIN checks : checks[image] \in Text
           /\ \A i \in 1..Len(u) : nominalPolicy(w, u[i]) = "Always" =>
                 checks[u[i].image] = "Always"
<1> DEFINE O(image) == {i \in DOMAIN u : u[i].image = image}
           pref == [i \in DOMAIN u |-> pullPolicyPreference(nominalPolicy(w, u[i]))]
           Best(image) == CHOOSE i \in O(image) : \A k \in O(image) :
                             pullPolicyPreference(nominalPolicy(w, u[i]))
                                 >= pullPolicyPreference(nominalPolicy(w, u[k]))
<1>1. DOMAIN u = 1..Len(u) /\ Len(u) \in Nat /\ \A i \in 1..Len(u) : u[i] \in PodContainer
  BY LenProperties, ElementOfSeq
<1>2. \A image : \A i, k \in O(image) :
          pref[i] = pullPolicyPreference(nominalPolicy(w, u[i]))
          /\ pref[k] = pullPolicyPreference(nominalPolicy(w, u[k]))
  OBVIOUS
<1>3. \A image : O(image) # {} => Best(image) \in O(image)
                                 /\ \A k \in O(image) : pref[Best(image)] >= pref[k]
  <2> SUFFICES ASSUME NEW image, O(image) # {}
               PROVE  Best(image) \in O(image) /\ \A k \in O(image) : pref[Best(image)] >= pref[k]
    OBVIOUS
  <2>1. \A i \in O(image) : pref[i] \in 0..3
    BY PreferenceFacts
  <2>2. PICK P : P = O(image)
    OBVIOUS
  <2>3. \E i \in P : \A k \in P : pref[i] >= pref[k]
    <3> HIDE DEF pref, O
    <3> QED BY <2>1, <2>2, HasStrongest
  <2>4. \A i \in P : pref[i] = pullPolicyPreference(nominalPolicy(w, u[i]))
    BY <2>2
  <2>5. \E i \in P : \A k \in P : pullPolicyPreference(nominalPolicy(w, u[i]))
                                  >= pullPolicyPreference(nominalPolicy(w, u[k]))
    <3> HIDE DEF pref, O
    <3> QED BY <2>3, <2>4
  <2>6. Best(image) \in P /\ \A k \in P : pullPolicyPreference(nominalPolicy(w, u[Best(image)]))
                                  >= pullPolicyPreference(nominalPolicy(w, u[k]))
    <3> HIDE DEF pref, O
    <3> QED BY <2>2, <2>5
  <2> HIDE DEF Best, pref, O
  <2> QED BY <2>2, <2>4, <2>6
<1>5. checks = [image \in {u[i].image : i \in DOMAIN u} |-> nominalPolicy(w, u[Best(image)])]
  BY DEF selectImagesToCheck
<1>6. \A i \in DOMAIN u : i \in O(u[i].image)
  OBVIOUS
<1>7. \A image : \A i \in O(image) : i \in DOMAIN u
  OBVIOUS
<1>8. \A i \in DOMAIN u : pref[i] = pullPolicyPreference(nominalPolicy(w, u[i]))
  OBVIOUS
<1> HIDE DEF Best, O, pref
<1>9. \A image \in DOMAIN checks : checks[image] \in Text
  <2> SUFFICES ASSUME NEW image \in DOMAIN checks PROVE checks[image] \in Text
    OBVIOUS
  <2>1. PICK i \in DOMAIN u : image = u[i].image
    BY <1>5
  <2>2. Best(image) \in DOMAIN u
    BY <1>3, <1>6, <1>7, <2>1
  <2>3. u[Best(image)] \in PodContainer
    BY <1>1, <2>2
  <2> QED BY <1>5, <2>3, PolicyFacts
<1>10. ASSUME NEW i \in 1..Len(u), nominalPolicy(w, u[i]) = "Always"
       PROVE  checks[u[i].image] = "Always"
  <2>1. PICK image : image = u[i].image
    OBVIOUS
  <2>2. i \in DOMAIN u /\ i \in O(image)
    BY <1>1, <1>6, <2>1
  <2>3. PICK b \in DOMAIN u : b = Best(image) /\ pref[b] >= pref[i]
    BY <1>3, <1>7, <2>2
  <2>4. /\ pref[i] = pullPolicyPreference(nominalPolicy(w, u[i]))
        /\ pref[b] = pullPolicyPreference(nominalPolicy(w, u[b]))
    BY <1>8, <2>2
  <2>5. pref[i] \in 0..3 /\ pref[b] \in 0..3 /\ pref[i] >= 3
    BY <1>10, <2>4, PreferenceFacts
  <2>6. pref[b] >= 3
    BY <2>3, <2>5
  <2>7. nominalPolicy(w, u[b]) = "Always"
    BY <2>4, <2>6, PreferenceFacts
  <2>8. checks[image] = nominalPolicy(w, u[b])
    BY <1>5, <2>1, <2>2, <2>3
  <2> QED BY <2>1, <2>7, <2>8
<1> QED BY <1>1, <1>5, <1>9, <1>10

\* The init containers before the image checks.
LEMMA InitBeforeFacts ==
    ASSUME NEW w \in Configs, NEW j \in Jobs
    PROVE  InitBefore(w, j) \in Seq(PodContainer)
           /\ ToSet(InitBefore(w, j)) = {createWorkspaceSetupContainer(w)} \cup ToSet(podSpecInitContainers(w, j))
<1>1. PICK c \in PodContainer : c = createWorkspaceSetupContainer(w)
  BY SystemContainers DEF IsSystemContainer
<1>2. PICK d, e : d = <<c>> /\ e = podSpecInitContainers(w, j)
  OBVIOUS
<1>3. d \in Seq(PodContainer) /\ ToSet(d) = {c} /\ e \in Seq(PodContainer)
  BY <1>2, PodSpecInitFacts DEF ToSet
<1>4. InitBefore(w, j) = d \o e
  BY <1>1, <1>2 DEF InitBefore
<1>5. d \o e \in Seq(PodContainer) /\ ToSet(d \o e) = ToSet(d) \cup ToSet(e)
  BY <1>3, RangeConcat
<1> QED BY <1>1, <1>2, <1>3, <1>4, <1>5

\* The image checks have their names in order, and pull always what some container
\* is to pull always, unless an init container that there is anyway does.
LEMMA ImageChecksFacts ==
    ASSUME NEW w \in Configs, NEW j \in Jobs
    PROVE  LET ic == ImageChecks(w, j)
               u == Unchecked(w, j)
           IN /\ ic \in Seq(PodContainer) /\ Len(ic) \in 0..Len(ImageCheckNames)
              /\ \A i \in 1..Len(ic) : /\ ic[i].name = ImageCheckNames[i] /\ ic[i].entry = "check"
                                       /\ ic[i].mounts = <<workspaceVolumeMount>>
              /\ ~w.skipChecks =>
                    \A i \in 1..Len(u) : nominalPolicy(w, u[i]) = "Always" =>
                        \E c \in ToSet(ic) \cup ToSet(InitBefore(w, j)) :
                            c.image = u[i].image /\ c.policy = "Always"
<1>1. PICK ic, u, before, checks :
         /\ ic = ImageChecks(w, j) /\ u = Unchecked(w, j) /\ before = InitBefore(w, j)
         /\ checks = selectImagesToCheck(w, u)
  OBVIOUS
<1>2. /\ u \in Seq(PodContainer) /\ before \in Seq(PodContainer) /\ Len(u) <= Len(ImageCheckNames)
  <2>1. HasShape(w, j, u) /\ before \in Seq(PodContainer)
    BY <1>1, UncheckedShape, InitBeforeFacts
  <2>2. PICK n, s : n = Len(CommandNames(j)) /\ s = systemContainerCount(w, j)
    OBVIOUS
  <2>3. u \in Seq(PodContainer) /\ Len(u) = n + 1 + s
    BY <2>1, <2>2 DEF HasShape
  <2>4. n \in Nat /\ n + 2 <= Len(ImageCheckNames)
    BY <2>2, NamesFacts, LenProperties
  <2>5. Len(ImageCheckNames) \in Nat /\ s \in 0..1
    BY <2>2, NamesAssumption, LenProperties DEF systemContainerCount
  <2> QED BY <2>1, <2>3, <2>4, <2>5
<1>3. /\ Len(u) \in Nat /\ DOMAIN u = 1..Len(u) /\ \A i \in 1..Len(u) : u[i] \in PodContainer
      /\ Len(ImageCheckNames) \in Nat /\ \A i \in 1..Len(ImageCheckNames) : ImageCheckNames[i] \in Text
  <2>1. ImageCheckNames \in Seq(Text)
    BY NamesAssumption
  <2> QED BY <1>2, <2>1, LenProperties, ElementOfSeq
<1>4. CASE w.skipChecks
  <2>1. ic = <<>>
    BY <1>1, <1>4 DEF ImageChecks
  <2>2. ic \in Seq(PodContainer) /\ Len(ic) = 0
    BY <2>1, EmptySeq
  <2> QED BY <1>1, <1>3, <1>4, <2>2
<1>5. CASE ~w.skipChecks
  <2>1. /\ DOMAIN checks = {u[i].image : i \in 1..Len(u)}
        /\ \A image \in DOMAIN checks : checks[image] \in Text
        /\ \A i \in 1..Len(u) : nominalPolicy(w, u[i]) = "Always" => checks[u[i].image] = "Always"
    BY <1>1, <1>2, ChecksFacts
  <2>2. PICK culled, images : culled = cullCheckForExisting(checks, before)
                              /\ images = DOMAIN checks \ culled
    OBVIOUS
  <2>3. PICK order : order = SetToSeq(images)
    OBVIOUS
  <2>4. /\ IsFiniteSet(DOMAIN checks) /\ Cardinality(DOMAIN checks) \in Nat
        /\ Cardinality(DOMAIN checks) <= Len(u)
    <3>1. PICK g : g = [i \in 1..Len(u) |-> u[i].image]
      OBVIOUS
    <3>2. DOMAIN g = 1..Len(u) /\ DOMAIN checks = {g[i] : i \in 1..Len(u)}
      BY <2>1, <3>1
    <3> QED BY <1>3, <3>2, ImageOfPositions
  <2>5. IsFiniteSet(images) /\ Cardinality(images) \in Nat /\ Cardinality(images) <= Len(u)
    <3>1. images \in SUBSET (DOMAIN checks)
      BY <2>2
    <3>2. IsFiniteSet(images) /\ Cardinality(images) <= Cardinality(DOMAIN checks)
      BY <2>4, <3>1, FS_Subset
    <3>3. Cardinality(images) \in Nat
      BY <3>2, FS_CardinalityType
    <3> QED BY <1>3, <2>4, <3>2, <3>3
  <2>6. order \in Seq(images) /\ Len(order) = Cardinality(images) /\ ToSet(order) = images
    BY <2>3, <2>5, SetToSeqFacts
  <2>7. /\ DOMAIN order = 1..Len(order) /\ Len(order) \in Nat
        /\ Len(order) <= Len(ImageCheckNames) /\ \A i \in 1..Len(order) : order[i] \in images
    BY <1>2, <1>3, <2>5, <2>6, LenProperties, ElementOfSeq
  <2>8. PICK check \in Text, mounts \in Seq(VolumeMount) :
           check = "check" /\ mounts = <<workspaceVolumeMount>>
    <3>1. <<workspaceVolumeMount>> \in Seq(VolumeMount)
      BY AllCovered, CommonMounts DEF MountsIn
    <3> QED BY <3>1, Literals
  <2> DEFINE C(i) == Container(ImageCheckNames[i], order[i], checks[order[i]], check, NoCommand, NoId, mounts)
  <2>9. ic = [i \in 1..Len(order) |-> C(i)]
    BY <1>1, <1>5, <2>2, <2>3, <2>7, <2>8 DEF ImageChecks, makeImageCheckContainers
  <2>10. \A image \in images : image \in Text /\ image \in DOMAIN checks
    BY <1>3, <2>1, <2>2 DEF PodContainer
  <2>11. ASSUME NEW i \in 1..Len(order)
         PROVE  /\ C(i) \in PodContainer /\ C(i).name = ImageCheckNames[i] /\ C(i).entry = check
                /\ C(i).mounts = mounts /\ C(i).image = order[i] /\ C(i).policy = checks[order[i]]
    <3>1. PICK name \in Text, image \in Text, policy \in Text :
             name = ImageCheckNames[i] /\ image = order[i] /\ policy = checks[order[i]]
      <4>1. order[i] \in images /\ i \in 1..Len(ImageCheckNames)
        BY <1>3, <2>7
      <4>2. order[i] \in Text /\ checks[order[i]] \in Text
        BY <2>1, <2>10, <4>1
      <4> QED BY <1>3, <4>1, <4>2
    <3>2. C(i) = Container(name, image, policy, check, NoCommand, NoId, mounts)
      BY <3>1
    <3>3. NoCommand \in Seq(Text) /\ NoId \in Int
      BY EmptySeq DEF NoCommand, NoId
    <3>4. PICK c : c = C(i)
      OBVIOUS
    <3>5. c = Container(name, image, policy, check, NoCommand, NoId, mounts)
      BY <3>2, <3>4
    <3>6. /\ c \in PodContainer /\ c.name = name /\ c.entry = check /\ c.mounts = mounts
          /\ c.image = image /\ c.policy = policy
      BY <3>3, <3>5, ContainerFields
    <3> HIDE DEF C
    <3> QED BY <3>1, <3>4, <3>6
  <2> HIDE DEF C
  <2>12. ic \in Seq(PodContainer) /\ Len(ic) = Len(order) /\ DOMAIN ic = 1..Len(order)
    <3>1. ic \in [1..Len(order) -> PodContainer]
      BY <2>9, <2>11
    <3> QED BY <2>7, <3>1, FunctionIsSeq
  <2>13. \A i \in 1..Len(order) :
            /\ ic[i].name = ImageCheckNames[i] /\ ic[i].entry = check /\ ic[i].mounts = mounts
            /\ ic[i].image = order[i] /\ ic[i].policy = checks[order[i]]
    BY <2>9, <2>11
  <2>14. ASSUME NEW i \in 1..Len(u), nominalPolicy(w, u[i]) = "Always"
         PROVE  \E c \in ToSet(ic) \cup ToSet(before) : c.image = u[i].image /\ c.policy = "Always"
    <3>1. PICK image : image = u[i].image
      OBVIOUS
    <3>2. image \in DOMAIN checks /\ checks[image] = "Always"
      BY <2>1, <2>14, <3>1
    <3>3. CASE image \in culled
      <4>1. PICK k \in DOMAIN before :
               /\ before[k].image = image
               /\ pullPolicyPreference(before[k].policy) >= pullPolicyPreference(checks[image])
        BY <2>2, <3>3 DEF cullCheckForExisting
      <4>2. /\ pullPolicyPreference(before[k].policy) \in 0..3
            /\ pullPolicyPreference(checks[image]) \in 0..3 /\ pullPolicyPreference(checks[image]) >= 3
        BY <3>2, PreferenceFacts
      <4>3. pullPolicyPreference(before[k].policy) >= 3
        BY <4>1, <4>2
      <4>4. before[k].policy = "Always"
        BY <4>3, PreferenceFacts
      <4>5. before[k] \in ToSet(before)
        BY DEF ToSet
      <4> QED BY <3>1, <4>1, <4>4, <4>5
    <3>4. CASE image \notin culled
      <4>1. image \in ToSet(order)
        BY <2>2, <2>6, <3>2, <3>4
      <4>2. PICK k \in 1..Len(order) : order[k] = image
        BY <2>7, <4>1 DEF ToSet
      <4>3. ic[k].image = image /\ ic[k].policy = "Always" /\ ic[k] \in ToSet(ic)
        BY <2>12, <2>13, <3>2, <4>2 DEF ToSet
      <4> QED BY <3>1, <4>3
    <3> QED BY <3>3, <3>4
  <2> QED BY <1>1, <1>3, <2>7, <2>8, <2>12, <2>13, <2>14
<1> QED BY <1>4, <1>5

\* is are the setup container, image checks, the user's init containers and sidecars.
HasInitShape(w, j, is) ==
    LET m == Len(ImageChecks(w, j))
        q == Len(podSpecInitNames(j))
    IN /\ is \in Seq(PodContainer) /\ Len(is) = 1 + m + q
       /\ m \in 0..Len(ImageCheckNames) /\ q \in Nat
       /\ IsSystemContainer(is[1], CopyAgentContainerName, NoId, "setup")
       /\ \A i \in 1..m : is[1 + i].name = ImageCheckNames[i] /\ is[1 + i].entry = "check"
       /\ \A i \in 1..q : is[1 + m + i].name = podSpecInitNames(j)[i]
       /\ \A V : Covers(V, w, j) => \A i \in 1..(1 + m + q) : MountsIn(is[i].mounts, V)

\* The init containers that Build assembles have the shape.
LEMMA InitShape ==
    ASSUME NEW w \in Configs, NEW j \in Jobs
    PROVE  /\ HasInitShape(w, j, Assembled(w, j).init)
           /\ ToSet(Assembled(w, j).init) = ToSet(ImageChecks(w, j)) \cup ToSet(InitBefore(w, j))
<1>1. PICK c, d, e, is :
         /\ c = createWorkspaceSetupContainer(w) /\ d = ImageChecks(w, j) /\ e = podSpecInitContainers(w, j)
         /\ is = Assembled(w, j).init
  OBVIOUS
<1>2. PICK m, q : m = Len(d) /\ q = Len(podSpecInitNames(j))
  OBVIOUS
<1>3. IsSystemContainer(c, CopyAgentContainerName, NoId, "setup")
  BY <1>1, SystemContainers
<1>4. /\ d \in Seq(PodContainer) /\ m \in 0..Len(ImageCheckNames)
      /\ \A i \in 1..m : /\ d[i].name = ImageCheckNames[i] /\ d[i].entry = "check"
                         /\ d[i].mounts = <<workspaceVolumeMount>>
  BY <1>1, <1>2, ImageChecksFacts
<1>5. /\ e \in Seq(PodContainer) /\ Len(e) = q
      /\ \A i \in 1..q : /\ e[i].name = podSpecInitNames(j)[i]
                         /\ \A V : Covers(V, w, j) => MountsIn(e[i].mounts, V)
  BY <1>1, <1>2, PodSpecInitFacts
<1>6. m \in Nat /\ q \in Nat
  BY <1>2, <1>4, <1>5, LenProperties
<1>7. PICK b, bd : b = <<c>> /\ bd = b \o d
  OBVIOUS
<1>8. b \in Seq(PodContainer) /\ Len(b) = 1 /\ b[1] = c /\ ToSet(b) = {c}
  BY <1>3, <1>7 DEF IsSystemContainer, ToSet
<1>9. is = bd \o e
  BY <1>1, <1>7 DEF Assembled
<1>10. /\ bd \in Seq(PodContainer) /\ Len(bd) = Len(b) + Len(d)
       /\ \A i \in 1..(Len(b) + Len(d)) : bd[i] = IF i <= Len(b) THEN b[i] ELSE d[i - Len(b)]
  BY <1>4, <1>7, <1>8, ConcatProperties
<1>11. Len(bd) = 1 + m /\ bd[1] = c /\ \A i \in 1..m : bd[1 + i] = d[i]
  BY <1>2, <1>6, <1>8, <1>10
<1>12. /\ is \in Seq(PodContainer) /\ Len(is) = Len(bd) + Len(e)
       /\ \A i \in 1..(Len(bd) + Len(e)) : is[i] = IF i <= Len(bd) THEN bd[i] ELSE e[i - Len(bd)]
  <2>1. bd \in Seq(PodContainer) /\ e \in Seq(PodContainer)
    BY <1>5, <1>10
  <2>2. /\ bd \o e \in Seq(PodContainer) /\ Len(bd \o e) = Len(bd) + Len(e)
        /\ \A i \in 1..(Len(bd) + Len(e)) : (bd \o e)[i] = IF i <= Len(bd) THEN bd[i] ELSE e[i - Len(bd)]
    BY <2>1, ConcatProperties
  <2> QED BY <1>9, <2>2, Zenon
<1>13. /\ Len(is) = 1 + m + q /\ is[1] = c /\ \A i \in 1..m : is[1 + i] = d[i]
  BY <1>5, <1>6, <1>11, <1>12
<1>14. \A i \in 1..q : is[1 + m + i] = e[i]
  BY <1>5, <1>6, <1>11, <1>12
<1>15. ASSUME NEW V, Covers(V, w, j), NEW i \in 1..(1 + m + q) PROVE MountsIn(is[i].mounts, V)
  <2>1. CASE i = 1
    BY <1>1, <1>13, <1>15, <2>1, SystemContainers
  <2>2. CASE i \in 2..(1 + m)
    <3>1. PICK k \in 1..m : i = 1 + k
      <4>1. i - 1 \in 1..m /\ i = 1 + (i - 1)
        BY <1>6, <2>2
      <4> QED BY <4>1
    <3>2. is[i].mounts = <<workspaceVolumeMount>>
      BY <1>4, <1>13, <3>1
    <3> QED BY <1>15, <3>2, CommonMounts
  <2>3. CASE i \in (2 + m)..(1 + m + q)
    <3>1. PICK k \in 1..q : i = 1 + m + k
      <4>1. i - (1 + m) \in 1..q /\ i = 1 + m + (i - (1 + m))
        BY <1>6, <2>3
      <4> QED BY <4>1
    <3>2. is[i] = e[k]
      BY <1>14, <3>1
    <3> QED BY <1>5, <1>15, <3>2
  <2> QED BY <1>6, <2>1, <2>2, <2>3
<1>16. \A i \in 1..m : is[1 + i].name = ImageCheckNames[i] /\ is[1 + i].entry = "check"
  BY <1>4, <1>13
<1>17. \A i \in 1..q : is[1 + m + i].name = podSpecInitNames(j)[i]
  BY <1>5, <1>14
<1>18. IsSystemContainer(is[1], CopyAgentContainerName, NoId, "setup")
  BY <1>3, <1>13
<1>19. HasInitShape(w, j, is)
  BY <1>1, <1>2, <1>4, <1>6, <1>12, <1>13, <1>15, <1>16, <1>17, <1>18 DEF HasInitShape
<1>20. ToSet(is) = ToSet(d) \cup ToSet(InitBefore(w, j))
  <2>1. ToSet(bd) = ToSet(b) \cup ToSet(d)
    <3>1. b \in Seq(PodContainer) /\ d \in Seq(PodContainer)
      BY <1>4, <1>8
    <3>2. ToSet(b \o d) = ToSet(b) \cup ToSet(d)
      BY <3>1, RangeConcat
    <3> QED BY <1>7, <3>2
  <2>2. ToSet(is) = ToSet(bd) \cup ToSet(e)
    BY <1>5, <1>9, <1>10, RangeConcat
  <2>3. ToSet(InitBefore(w, j)) = {c} \cup ToSet(e)
    BY <1>1, InitBeforeFacts
  <2> QED BY <1>8, <2>1, <2>2, <2>3
<1> QED BY <1>1, <1>19, <1>20

-----------------------------------------------------------------------------
(* What the patches make of the pod. *)

\* A second patch extends what the first has extended.
LEMMA ExtensionTransitive ==
    ASSUME NEW cs \in Seq(PodContainer), NEW ds, NEW es, NEW N, NEW M,
           Extension(cs, ds, N), Extension(ds, es, M)
    PROVE  Extension(cs, es, N \cup M)
<1>1. /\ ds \in Seq(PodContainer) /\ es \in Seq(PodContainer)
      /\ Len(cs) <= Len(ds) /\ Len(ds) <= Len(es)
  BY DEF Extension
<1>2. Len(cs) \in Nat /\ Len(ds) \in Nat /\ Len(es) \in Nat
  BY <1>1, LenProperties
<1>3. /\ \A i \in 1..Len(cs) : SameContainer(cs[i], ds[i])
      /\ \A i \in 1..Len(ds) : SameContainer(ds[i], es[i])
  BY DEF Extension
<1>4. \A i \in 1..Len(cs) : SameContainer(cs[i], es[i])
  BY <1>1, <1>2, <1>3 DEF SameContainer
<1>5. ASSUME NEW i \in 1..Len(es), i > Len(cs)
      PROVE  /\ es[i].id = NoId /\ es[i].name \in N \cup M
             /\ \A k \in 1..Len(es) : es[k].name = es[i].name => k = i
  <2>1. CASE i > Len(ds)
    BY <1>5, <2>1 DEF Extension
  <2>2. CASE i <= Len(ds)
    <3>1. i \in 1..Len(ds)
      BY <1>2, <2>2
    <3>2. /\ ds[i].id = NoId /\ ds[i].name \in N
          /\ \A k \in 1..Len(ds) : ds[k].name = ds[i].name => k = i
      BY <1>5, <3>1 DEF Extension
    <3>3. SameContainer(ds[i], es[i])
      BY <1>3, <3>1
    <3>4. ASSUME NEW k \in 1..Len(es), es[k].name = es[i].name PROVE k = i
      <4>1. CASE k > Len(ds)
        BY <3>4, <4>1 DEF Extension
      <4>2. CASE k <= Len(ds)
        <5>1. k \in 1..Len(ds)
          BY <1>2, <4>2
        <5>2. SameContainer(ds[k], es[k])
          BY <1>3, <5>1
        <5> QED BY <3>2, <3>3, <3>4, <5>1, <5>2 DEF SameContainer
      <4> QED BY <1>2, <4>1, <4>2
    <3> QED BY <3>2, <3>3, <3>4 DEF SameContainer
  <2> QED BY <1>2, <2>1, <2>2
<1>6. Len(cs) <= Len(es)
  BY <1>1, <1>2
<1> QED BY <1>1, <1>4, <1>5, <1>6 DEF Extension

\* A container that shares its name with one of the original ones is it.
LEMMA ExtensionNames ==
    ASSUME NEW cs \in Seq(PodContainer), NEW ds, NEW N, Extension(cs, ds, N),
           NEW i \in 1..Len(cs), NEW k \in 1..Len(ds), ds[k].name = cs[i].name
    PROVE  k \in 1..Len(cs) /\ cs[k].name = cs[i].name
<1>1. Len(cs) \in Nat /\ Len(ds) \in Nat /\ Len(cs) <= Len(ds)
  BY LenProperties DEF Extension
<1>2. i \in 1..Len(ds) /\ ds[i].name = cs[i].name
  BY <1>1 DEF Extension, SameContainer
<1>3. CASE k > Len(cs)
  <2>1. i = k
    BY <1>2, <1>3 DEF Extension
  <2> QED BY <1>1, <1>3, <2>1
<1>4. CASE k <= Len(cs)
  <2>1. k \in 1..Len(cs)
    BY <1>1, <1>4
  <2>2. SameContainer(cs[k], ds[k])
    BY <2>1 DEF Extension
  <2> QED BY <2>1, <2>2 DEF SameContainer
<1> QED BY <1>1, <1>3, <1>4

\* The names are distinct after the patches if they were before.
LEMMA ExtensionDistinct ==
    ASSUME NEW cs \in Seq(PodContainer), NEW ds, NEW N, Extension(cs, ds, N),
           \A i, k \in 1..Len(cs) : cs[i].name = cs[k].name => i = k
    PROVE  \A i, k \in 1..Len(ds) : ds[i].name = ds[k].name => i = k
<1> SUFFICES ASSUME NEW i \in 1..Len(ds), NEW k \in 1..Len(ds), ds[i].name = ds[k].name
             PROVE  i = k
  OBVIOUS
<1>1. Len(cs) \in Nat /\ Len(ds) \in Nat /\ Len(cs) <= Len(ds)
  BY LenProperties DEF Extension
<1>2. CASE i > Len(cs)
  BY <1>2 DEF Extension
<1>3. CASE k > Len(cs)
  BY <1>3 DEF Extension
<1>4. CASE i <= Len(cs) /\ k <= Len(cs)
  <2>1. i \in 1..Len(cs) /\ k \in 1..Len(cs)
    BY <1>1, <1>4
  <2>2. ds[i].name = cs[i].name /\ ds[k].name = cs[k].name
    BY <2>1 DEF Extension, SameContainer
  <2> QED BY <2>1, <2>2
<1> QED BY <1>1, <1>2, <1>3, <1>4

\* PatchPodSpec rewrites commands only, and none that it refuses.
LEMMA RewrittenFacts ==
    ASSUME NEW w \in Configs, NEW j \in Jobs, NEW pod, NEW ps \in Seq(PatchContainer), NEW own,
           own = Rewritten(w, j, pod, ps)
    PROVE  /\ own \in Seq(PatchContainer) /\ Len(own) = Len(ps)
           /\ \A i \in 1..Len(ps) :
                 /\ own[i].name = ps[i].name /\ own[i].init = ps[i].init /\ own[i].image = ps[i].image
                 /\ own[i].policy = ps[i].policy /\ own[i].mount = ps[i].mount
           /\ ~PatchFails(w, pod, own) => ~PatchFails(w, pod, ps)
           /\ ~PatchFails(w, pod, ps) => \A i \in 1..Len(ps) : own[i] = MoveCommand(w, j, pod, ps[i])
<1>1. DOMAIN ps = 1..Len(ps) /\ Len(ps) \in Nat /\ \A i \in 1..Len(ps) : ps[i] \in PatchContainer
  BY LenProperties, ElementOfSeq
<1>2. ASSUME NEW p \in PatchContainer, NEW q, q = MoveCommand(w, j, pod, p)
      PROVE  /\ q \in PatchContainer /\ q.name = p.name /\ q.init = p.init /\ q.image = p.image
             /\ q.policy = p.policy /\ q.mount = p.mount
             /\ Refused(w, pod, p) => q = p
  <2>1. p.cmd \in Text /\ "" \in Text
    BY Literals DEF PatchContainer
  <2>2. PICK command \in Seq(Text), empty \in Text : command = Command(w, j, p.cmd) /\ empty = ""
    BY <2>1, CommandLines
  <2>3. q = IF PatchesCommandContainer(pod, p) THEN [p EXCEPT !.cmd = empty, !.command = command] ELSE p
    BY <1>2, <2>2 DEF MoveCommand
  <2>4. Refused(w, pod, p) => ~PatchesCommandContainer(pod, p)
    BY DEF Refused, PatchesCommandContainer
  <2> QED BY <2>3, <2>4 DEF PatchContainer
<1>3. DOMAIN own = 1..Len(ps)
      /\ \A i \in 1..Len(ps) : own[i] = ps[i] \/ own[i] = MoveCommand(w, j, pod, ps[i])
  BY <1>1 DEF Rewritten
<1>4. \A i \in 1..Len(ps) :
        /\ own[i] \in PatchContainer /\ own[i].name = ps[i].name /\ own[i].init = ps[i].init
        /\ own[i].image = ps[i].image /\ own[i].policy = ps[i].policy /\ own[i].mount = ps[i].mount
        /\ Refused(w, pod, ps[i]) => own[i] = ps[i]
  BY <1>1, <1>2, <1>3
<1>5. own \in Seq(PatchContainer) /\ Len(own) = Len(ps)
  <2>1. own = [i \in 1..Len(ps) |-> own[i]]
    BY <1>1, <1>3 DEF Rewritten
  <2>2. own \in [1..Len(ps) -> PatchContainer]
    BY <1>4, <2>1
  <2> QED BY <1>1, <2>2, FunctionIsSeq
<1>6. ~PatchFails(w, pod, own) => ~PatchFails(w, pod, ps)
  BY <1>1, <1>3, <1>4 DEF PatchFails
<1>7. ASSUME ~PatchFails(w, pod, ps), NEW i \in 1..Len(ps)
      PROVE  own[i] = MoveCommand(w, j, pod, ps[i])
  <2>1. {k \in DOMAIN ps : Refused(w, pod, ps[k])} = {}
    BY <1>7 DEF PatchFails
  <2> QED BY <1>1, <1>7, <2>1 DEF Rewritten
<1> QED BY <1>4, <1>5, <1>6, <1>7

\* The pod after the controller's patch and the custom image, the plugin's patch
\* as it is applied, and the pod after it.
Patched(w, j, ps) == applyCustomImageIfPresent(j, PatchPodSpec(Assembled(w, j), ps, w.patchVolumes))
OwnPatch(w, j, ps) == Rewritten(w, j, Patched(w, j, ps), PluginPatch(j))
Complete(w, j, ps) ==
    PatchPodSpec(Patched(w, j, ps), OwnPatch(w, j, ps), Given(j, "patchVolumes", <<>>))

\* The pod has these parts.
HasParts(pod, cs, is, volumes, count) ==
    /\ DOMAIN pod = {"containers", "init", "volumes", "count"}
    /\ pod.containers = cs /\ pod.init = is /\ pod.volumes = volumes /\ pod.count = count

\* q is the pod with other lists of containers.
Updated(pod, q, ds, es) == q = [pod EXCEPT !.containers = ds, !.init = es]

\* Replacing the lists of containers leaves the rest of the pod.
LEMMA UpdateParts ==
    ASSUME NEW pod, NEW cs, NEW is, NEW volumes, NEW count, NEW ds, NEW es, NEW q,
           HasParts(pod, cs, is, volumes, count),
           Updated(pod, q, ds, es)
    PROVE  HasParts(q, ds, es, volumes, count)
BY DEF HasParts, Updated

\* PatchPodSpec merges into the two lists and the volumes.
LEMMA PatchParts ==
    ASSUME NEW pod, NEW cs, NEW is, NEW volumes, NEW count, NEW ps, NEW new, NEW q,
           HasParts(pod, cs, is, volumes, count), q = PatchPodSpec(pod, ps, new)
    PROVE  HasParts(q, MergeAll(cs, ps, FALSE), MergeAll(is, ps, TRUE),
                    MergeVolumes(volumes, new), count)
<1>1. PICK ds, es, vs : /\ ds = MergeAll(cs, ps, FALSE) /\ es = MergeAll(is, ps, TRUE)
                        /\ vs = MergeVolumes(volumes, new)
  OBVIOUS
<1>2. pod.containers = cs /\ pod.init = is /\ pod.volumes = volumes
  BY DEF HasParts
<1>3. q = [pod EXCEPT !.containers = ds, !.init = es, !.volumes = vs]
  BY <1>1, <1>2, Zenon DEF PatchPodSpec
<1>4. HasParts(q, ds, es, vs, count)
  BY <1>3 DEF HasParts
<1> QED BY <1>1, <1>4

\* ds is the list cs with a patch merged into it.
Merged(cs, ds, ps, init) ==
    /\ cs \in Seq(PodContainer) /\ ps \in Seq(PatchContainer)
    /\ Extension(cs, ds, PatchNames(ps, init))
    /\ \A i \in 1..Len(cs) : ds[i] = Merge(cs[i], ps, init)

\* The containers ds have the entrypoints and commands that the patch gives cs.
Commanded(cs, ds, ps) ==
    \A i \in 1..Len(cs) : /\ ds[i].entry = Merge(cs[i], ps, FALSE).entry
                          /\ ds[i].command = Merge(cs[i], ps, FALSE).command
                          /\ ds[i].policy = Merge(cs[i], ps, FALSE).policy

\* The mounts of the containers ds come from cs and from the patch.
Carries(cs, ds, ps) ==
    \A V : PatchMountsIn(ps, V) /\ AllMountsIn(cs, V) => AllMountsIn(ds, V)

\* The custom image changes nothing else.
LEMMA PatchedFacts ==
    ASSUME NEW w \in Configs, NEW j \in Jobs, NEW ps \in Seq(PatchContainer), NEW a, NEW p,
           a = Assembled(w, j), p = Patched(w, j, ps)
    PROVE  /\ a.containers \in Seq(PodContainer) /\ a.init \in Seq(PodContainer)
           /\ Extension(a.containers, p.containers, PatchNames(ps, FALSE))
           /\ Extension(a.init, p.init, PatchNames(ps, TRUE))
           /\ Commanded(a.containers, p.containers, ps) /\ Merged(a.init, p.init, ps, TRUE)
           /\ Carries(a.containers, p.containers, ps) /\ Carries(a.init, p.init, ps)
           /\ HasParts(p, p.containers, p.init, PatchedVolumes(w, j), managedContainerCount(w, j))
<1>1. PICK cs, is : cs = a.containers /\ is = a.init
  OBVIOUS
<1>2. cs \in Seq(PodContainer) /\ is \in Seq(PodContainer)
  BY <1>1, SettledShape, InitShape DEF HasShape, HasInitShape
<1>3. HasParts(a, cs, is, Volumes(w, j), managedContainerCount(w, j))
  BY <1>1 DEF Assembled, HasParts
<1>4. PICK ds, es : ds = MergeAll(cs, ps, FALSE) /\ es = MergeAll(is, ps, TRUE)
  OBVIOUS
<1>5. PICK m : m = PatchPodSpec(a, ps, w.patchVolumes)
  OBVIOUS
<1>6. HasParts(m, ds, es, PatchedVolumes(w, j), managedContainerCount(w, j))
  BY <1>3, <1>4, <1>5, PatchParts DEF PatchedVolumes
<1>7. /\ Extension(cs, ds, PatchNames(ps, FALSE)) /\ Extension(is, es, PatchNames(ps, TRUE))
      /\ \A i \in 1..Len(cs) : ds[i] = Merge(cs[i], ps, FALSE)
      /\ \A i \in 1..Len(is) : es[i] = Merge(is[i], ps, TRUE)
      /\ Carries(cs, ds, ps) /\ Carries(is, es, ps)
  BY <1>2, <1>4, MergeAllFacts DEF Carries
<1>8. ds \in Seq(PodContainer) /\ Len(cs) <= Len(ds)
  BY <1>7 DEF Extension
<1>9. /\ DOMAIN ds = 1..Len(ds) /\ Len(ds) \in Nat /\ Len(cs) \in Nat
      /\ \A i \in 1..Len(ds) : ds[i] \in PodContainer
  BY <1>2, <1>8, LenProperties, ElementOfSeq
<1>10. PICK fs : fs = [i \in 1..Len(ds) |->
            IF j.image # "" /\ ds[i].command # NoCommand THEN [ds[i] EXCEPT !.image = j.image] ELSE ds[i]]
  OBVIOUS
<1>11. HasParts(p, fs, es, PatchedVolumes(w, j), managedContainerCount(w, j))
  <2>1. p = applyCustomImageIfPresent(j, m)
    BY <1>5 DEF Patched
  <2>2. p = [m EXCEPT !.containers = fs]
    <3>1. m.containers = ds /\ DOMAIN ds = 1..Len(ds)
      BY <1>6, <1>9 DEF HasParts
    <3> QED BY <1>10, <2>1, <3>1 DEF applyCustomImageIfPresent
  <2> QED BY <1>6, <2>2 DEF HasParts
<1>12. \A i \in 1..Len(ds) : /\ fs[i] \in PodContainer /\ SameContainer(ds[i], fs[i])
                             /\ fs[i].entry = ds[i].entry /\ fs[i].command = ds[i].command
                             /\ fs[i].policy = ds[i].policy /\ fs[i].mounts = ds[i].mounts
  <2>1. j.image \in Text
    BY JobBuildAssumption DEF BuildkiteJob
  <2> QED BY <1>9, <1>10, <2>1 DEF PodContainer, SameContainer
<1>13. fs \in Seq(PodContainer) /\ Len(fs) = Len(ds)
  <2>1. fs \in [1..Len(ds) -> PodContainer]
    BY <1>10, <1>12
  <2> QED BY <1>9, <2>1, FunctionIsSeq
<1>14. Extension(cs, fs, PatchNames(ps, FALSE))
  <2>1. \A i \in 1..Len(cs) : SameContainer(cs[i], fs[i])
    BY <1>7, <1>8, <1>9, <1>12 DEF Extension, SameContainer
  <2>2. ASSUME NEW i \in 1..Len(ds), i > Len(cs)
        PROVE  /\ fs[i].id = NoId /\ fs[i].name \in PatchNames(ps, FALSE)
               /\ \A k \in 1..Len(ds) : fs[k].name = fs[i].name => k = i
    <3>1. /\ ds[i].id = NoId /\ ds[i].name \in PatchNames(ps, FALSE)
          /\ \A k \in 1..Len(ds) : ds[k].name = ds[i].name => k = i
      BY <1>7, <2>2 DEF Extension
    <3> QED BY <1>12, <3>1 DEF SameContainer
  <2> QED BY <1>8, <1>13, <2>1, <2>2 DEF Extension
<1>15. \A i \in 1..Len(cs) : /\ fs[i].entry = Merge(cs[i], ps, FALSE).entry
                             /\ fs[i].command = Merge(cs[i], ps, FALSE).command
                             /\ fs[i].policy = Merge(cs[i], ps, FALSE).policy
  <2> TAKE i \in 1..Len(cs)
  <2>1. i \in 1..Len(ds)
    BY <1>8, <1>9
  <2>2. fs[i].entry = ds[i].entry /\ fs[i].command = ds[i].command /\ fs[i].policy = ds[i].policy
    BY <1>12, <2>1
  <2>3. ds[i] = Merge(cs[i], ps, FALSE)
    BY <1>7
  <2> QED BY <2>2, <2>3, Zenon
<1>16. p.containers = fs /\ p.init = es
  BY <1>11 DEF HasParts
<1>17. Commanded(cs, fs, ps) /\ Merged(is, es, ps, TRUE)
  BY <1>2, <1>7, <1>15 DEF Commanded, Merged
<1>18. Carries(cs, fs, ps)
  BY <1>7, <1>12, <1>13 DEF Carries, AllMountsIn
<1> QED BY <1>1, <1>2, <1>7, <1>11, <1>14, <1>16, <1>17, <1>18

\* The names and mounts of the plugin's patch stay what they are.
LEMMA OwnPatchFacts ==
    ASSUME NEW w \in Configs, NEW j \in Jobs, NEW ps
    PROVE  /\ OwnPatch(w, j, ps) \in Seq(PatchContainer)
           /\ \A V : PatchMountsIn(PluginPatch(j), V) => PatchMountsIn(OwnPatch(w, j, ps), V)
           /\ \A init : PatchNames(OwnPatch(w, j, ps), init) = PatchNames(PluginPatch(j), init)
<1>1. PICK qs, own : qs = PluginPatch(j) /\ own = OwnPatch(w, j, ps)
  OBVIOUS
<1>2. qs \in Seq(PatchContainer)
  BY <1>1, GivenFacts
<1>3. /\ own \in Seq(PatchContainer) /\ Len(own) = Len(qs)
      /\ \A i \in 1..Len(qs) : /\ own[i].name = qs[i].name /\ own[i].init = qs[i].init
                                /\ own[i].mount = qs[i].mount
  BY <1>1, <1>2, RewrittenFacts DEF OwnPatch
<1>4. DOMAIN own = 1..Len(qs) /\ DOMAIN qs = 1..Len(qs)
  BY <1>2, <1>3, LenProperties
<1>5. \A init : PatchNames(own, init) = PatchNames(qs, init)
  BY <1>3, <1>4 DEF PatchNames
<1>6. \A V : PatchMountsIn(qs, V) => PatchMountsIn(own, V)
  BY <1>3, <1>4 DEF PatchMountsIn
<1> QED BY <1>1, <1>3, <1>5, <1>6

\* The plugin's patch extends the pod that the controller's patch has made.
LEMMA CompleteFacts ==
    ASSUME NEW w \in Configs, NEW j \in Jobs, NEW ps \in Seq(PatchContainer), NEW p, NEW c,
           p = Patched(w, j, ps), c = Complete(w, j, ps)
    PROVE  /\ p.containers \in Seq(PodContainer) /\ p.init \in Seq(PodContainer)
           /\ Extension(p.containers, c.containers, PatchNames(PluginPatch(j), FALSE))
           /\ Extension(p.init, c.init, PatchNames(PluginPatch(j), TRUE))
           /\ Merged(p.containers, c.containers, OwnPatch(w, j, ps), FALSE)
           /\ Merged(p.init, c.init, OwnPatch(w, j, ps), TRUE)
           /\ Carries(p.containers, c.containers, PluginPatch(j)) /\ Carries(p.init, c.init, PluginPatch(j))
           /\ HasParts(c, c.containers, c.init, FinalVolumes(w, j), managedContainerCount(w, j))
<1>1. PICK cs, is, own : cs = p.containers /\ is = p.init /\ own = OwnPatch(w, j, ps)
  OBVIOUS
<1>2. /\ cs \in Seq(PodContainer) /\ is \in Seq(PodContainer)
      /\ HasParts(p, cs, is, PatchedVolumes(w, j), managedContainerCount(w, j))
  <2>1. PICK a : a = Assembled(w, j)
    OBVIOUS
  <2>2. /\ Extension(a.containers, p.containers, PatchNames(ps, FALSE))
        /\ Extension(a.init, p.init, PatchNames(ps, TRUE))
        /\ HasParts(p, p.containers, p.init, PatchedVolumes(w, j), managedContainerCount(w, j))
    BY <2>1, PatchedFacts
  <2>3. p.containers \in Seq(PodContainer) /\ p.init \in Seq(PodContainer)
    BY <2>2 DEF Extension
  <2> QED BY <1>1, <2>2, <2>3
<1>3. /\ own \in Seq(PatchContainer)
      /\ \A init : PatchNames(own, init) = PatchNames(PluginPatch(j), init)
      /\ \A V : PatchMountsIn(PluginPatch(j), V) => PatchMountsIn(own, V)
  BY <1>1, OwnPatchFacts
<1>4. PICK ds, es : ds = MergeAll(cs, own, FALSE) /\ es = MergeAll(is, own, TRUE)
  OBVIOUS
<1>5. HasParts(c, ds, es, FinalVolumes(w, j), managedContainerCount(w, j))
  <2>1. c = PatchPodSpec(p, own, Given(j, "patchVolumes", <<>>))
    BY <1>1 DEF Complete
  <2> QED BY <1>2, <1>4, <2>1, PatchParts DEF FinalVolumes
<1>6. /\ Extension(cs, ds, PatchNames(own, FALSE)) /\ Extension(is, es, PatchNames(own, TRUE))
      /\ \A i \in 1..Len(cs) : ds[i] = Merge(cs[i], own, FALSE)
      /\ \A i \in 1..Len(is) : es[i] = Merge(is[i], own, TRUE)
      /\ Carries(cs, ds, own) /\ Carries(is, es, own)
  BY <1>2, <1>3, <1>4, MergeAllFacts DEF Carries
<1>7. c.containers = ds /\ c.init = es
  BY <1>5 DEF HasParts
<1>8. Merged(cs, ds, own, FALSE) /\ Merged(is, es, own, TRUE)
  BY <1>2, <1>3, <1>6 DEF Merged
<1>9. Carries(cs, ds, PluginPatch(j)) /\ Carries(is, es, PluginPatch(j))
  BY <1>3, <1>6 DEF Carries
<1> QED BY <1>1, <1>2, <1>3, <1>5, <1>6, <1>7, <1>8, <1>9

\* Deduplication changes the mounts only.
LEMMA PrepareFacts ==
    ASSUME NEW cs \in Seq(PodContainer), NEW ds, ds = PrepareVolumeMounts(cs)
    PROVE  /\ DOMAIN ds = 1..Len(cs) /\ ds \in Seq(PodContainer) /\ Len(ds) = Len(cs)
           /\ \A i \in 1..Len(cs) :
                 /\ ds[i].name = cs[i].name /\ ds[i].image = cs[i].image /\ ds[i].policy = cs[i].policy
                 /\ ds[i].entry = cs[i].entry /\ ds[i].command = cs[i].command /\ ds[i].id = cs[i].id
                 /\ ds[i].mounts = Deduplicated(cs[i].mounts)
<1>1. DOMAIN cs = 1..Len(cs) /\ Len(cs) \in Nat /\ \A i \in 1..Len(cs) : cs[i] \in PodContainer
  BY LenProperties, ElementOfSeq
<1>2. \A i \in 1..Len(cs) : Deduplicated(cs[i].mounts) \in Seq(VolumeMount)
  BY <1>1, DeduplicatedFacts DEF PodContainer
<1>3. ds = [i \in 1..Len(cs) |-> [cs[i] EXCEPT !.mounts = Deduplicated(cs[i].mounts)]]
  BY <1>1 DEF PrepareVolumeMounts
<1>4. \A i \in 1..Len(cs) :
         /\ ds[i] \in PodContainer
         /\ ds[i].name = cs[i].name /\ ds[i].image = cs[i].image /\ ds[i].policy = cs[i].policy
         /\ ds[i].entry = cs[i].entry /\ ds[i].command = cs[i].command /\ ds[i].id = cs[i].id
         /\ ds[i].mounts = Deduplicated(cs[i].mounts)
  BY <1>1, <1>2, <1>3 DEF PodContainer
<1>5. ds \in [1..Len(cs) -> PodContainer]
  BY <1>3, <1>4
<1>6. ds \in Seq(PodContainer) /\ Len(ds) = Len(cs) /\ DOMAIN ds = 1..Len(cs)
  BY <1>1, <1>5, FunctionIsSeq
<1> QED BY <1>4, <1>6

\* The positions that RemoveCheckout keeps.
Kept(w, j, cs) == {i \in DOMAIN cs : skipCheckout(w, j) => cs[i].name # CheckoutContainerName}

\* What a successful build makes of the patched pod.
LEMMA BuildFacts ==
    ASSUME NEW w, NEW j, NEW ps, NEW b, NEW c, b = Build(w, j, ps), b.ok,
           c = Complete(w, j, ps),
           HasParts(c, c.containers, c.init, FinalVolumes(w, j), managedContainerCount(w, j))
    PROVE  /\ ~PatchFails(w, Patched(w, j, ps), OwnPatch(w, j, ps))
           /\ HasParts(b.pod, PrepareVolumeMounts(Pick(c.containers, Kept(w, j, c.containers))),
                       PrepareVolumeMounts(c.init), FinalVolumes(w, j), managedContainerCount(w, j))
<1>1. b = IF PatchFails(w, Patched(w, j, ps), OwnPatch(w, j, ps)) THEN Error
          ELSE [ok |-> TRUE, pod |-> Finish(w, j, c)]
  BY DEF Build, Patched, OwnPatch, Complete
<1>2. ~PatchFails(w, Patched(w, j, ps), OwnPatch(w, j, ps)) /\ b.pod = Finish(w, j, c)
  BY <1>1 DEF Error
<1>3. PICK r : r = RemoveCheckout(w, j, c)
  OBVIOUS
<1>4. PICK cs : cs = Pick(c.containers, Kept(w, j, c.containers))
  OBVIOUS
<1>5. r = [c EXCEPT !.containers = cs]
  BY <1>3, <1>4 DEF RemoveCheckout, Kept
<1>6. HasParts(r, cs, c.init, FinalVolumes(w, j), managedContainerCount(w, j))
  BY <1>5 DEF HasParts
<1>7. PICK ds, es : ds = PrepareVolumeMounts(cs) /\ es = PrepareVolumeMounts(c.init)
  OBVIOUS
<1>8. r.containers = cs /\ r.init = c.init
  BY <1>6 DEF HasParts
<1>9. b.pod = [r EXCEPT !.containers = ds, !.init = es]
  <2>1. Finish(w, j, c) = [r EXCEPT !.containers = PrepareVolumeMounts(r.containers),
                                    !.init = PrepareVolumeMounts(r.init)]
    BY <1>3 DEF Finish
  <2>2. PrepareVolumeMounts(r.containers) = ds /\ PrepareVolumeMounts(r.init) = es
    BY <1>7, <1>8
  <2> QED BY <1>2, <2>1, <2>2
<1>10. HasParts(b.pod, ds, es, FinalVolumes(w, j), managedContainerCount(w, j))
  <2>1. PICK q, is, vs, n : /\ q = b.pod /\ is = c.init /\ vs = FinalVolumes(w, j)
                            /\ n = managedContainerCount(w, j)
    OBVIOUS
  <2>2. HasParts(r, cs, is, vs, n) /\ Updated(r, q, ds, es)
    BY <1>6, <1>9, <2>1 DEF Updated
  <2>3. HasParts(q, ds, es, vs, n)
    BY <2>2, UpdateParts
  <2> QED BY <2>1, <2>3
<1> QED BY <1>2, <1>4, <1>7, <1>10

\* What is built, as a whole: cs and is extend the assembled lists by what the
\* patches add, mounts included; the pod has them without a checkout that is
\* skipped and without duplicate mounts.
LEMMA BuiltFrom ==
    ASSUME NEW w \in Configs, NEW j \in Jobs, NEW ps \in Seq(PatchContainer),
           NEW b, NEW c, b = Build(w, j, ps), b.ok, c = Complete(w, j, ps)
    PROVE  /\ Extension(Assembled(w, j).containers, c.containers,
                        PatchNames(ps, FALSE) \cup PatchNames(PluginPatch(j), FALSE))
           /\ Extension(Assembled(w, j).init, c.init,
                        PatchNames(ps, TRUE) \cup PatchNames(PluginPatch(j), TRUE))
           /\ \A V : PatchMountsIn(ps, V) /\ PatchMountsIn(PluginPatch(j), V) =>
                 /\ AllMountsIn(Assembled(w, j).containers, V) => AllMountsIn(c.containers, V)
                 /\ AllMountsIn(Assembled(w, j).init, V) => AllMountsIn(c.init, V)
           /\ HasParts(b.pod, PrepareVolumeMounts(Pick(c.containers, Kept(w, j, c.containers))),
                       PrepareVolumeMounts(c.init), FinalVolumes(w, j), managedContainerCount(w, j))
<1>1. PICK a, p : a = Assembled(w, j) /\ p = Patched(w, j, ps)
  OBVIOUS
<1>2. /\ a.containers \in Seq(PodContainer) /\ a.init \in Seq(PodContainer)
      /\ Extension(a.containers, p.containers, PatchNames(ps, FALSE))
      /\ Extension(a.init, p.init, PatchNames(ps, TRUE))
      /\ Carries(a.containers, p.containers, ps) /\ Carries(a.init, p.init, ps)
  BY <1>1, PatchedFacts
<1>3. /\ Extension(p.containers, c.containers, PatchNames(PluginPatch(j), FALSE))
      /\ Extension(p.init, c.init, PatchNames(PluginPatch(j), TRUE))
      /\ Carries(p.containers, c.containers, PluginPatch(j)) /\ Carries(p.init, c.init, PluginPatch(j))
      /\ HasParts(c, c.containers, c.init, FinalVolumes(w, j), managedContainerCount(w, j))
  BY <1>1, CompleteFacts
<1>4. Extension(a.containers, c.containers, PatchNames(ps, FALSE) \cup PatchNames(PluginPatch(j), FALSE))
  BY <1>2, <1>3, ExtensionTransitive
<1>5. Extension(a.init, c.init, PatchNames(ps, TRUE) \cup PatchNames(PluginPatch(j), TRUE))
  BY <1>2, <1>3, ExtensionTransitive
<1>6. HasParts(b.pod, PrepareVolumeMounts(Pick(c.containers, Kept(w, j, c.containers))),
               PrepareVolumeMounts(c.init), FinalVolumes(w, j), managedContainerCount(w, j))
  BY <1>3, BuildFacts
<1>7. ASSUME NEW V, PatchMountsIn(ps, V), PatchMountsIn(PluginPatch(j), V)
      PROVE  /\ AllMountsIn(a.containers, V) => AllMountsIn(c.containers, V)
             /\ AllMountsIn(a.init, V) => AllMountsIn(c.init, V)
  BY <1>2, <1>3, <1>7 DEF Carries
<1> QED BY <1>1, <1>4, <1>5, <1>6, <1>7

-----------------------------------------------------------------------------
(* The containers that the agent waits for. *)

\* The containers with an ID are the n command containers and, if s is 1, the
\* checkout container.
HaveIds(j, cs, n, s) ==
    /\ \A i \in 1..Len(cs) : cs[i].id # NoId =>
          \/ i \in 1..n /\ cs[i].name = CommandNames(j)[i] /\ cs[i].id = i - 1 + s
          \/ s = 1 /\ i = n + 2 /\ cs[i].name = CheckoutContainerName /\ cs[i].id = 0
    /\ \A i \in 1..n : i \in 1..Len(cs) /\ cs[i].name = CommandNames(j)[i] /\ cs[i].id = i - 1 + s
    /\ s = 1 => n + 2 \in 1..Len(cs) /\ cs[n + 2].id = 0

\* Patches add no managed container and take no ID away.
LEMMA ManagedIds ==
    ASSUME NEW w \in Configs, NEW j \in Jobs, NEW as, NEW cs, NEW N, HasShape(w, j, as),
           Extension(as, cs, N), NEW n, NEW s, n = Len(CommandNames(j)), s = systemContainerCount(w, j)
    PROVE  n \in Nat /\ s \in 0..1 /\ HaveIds(j, cs, n, s)
<1>1. n \in Nat /\ s \in 0..1
  <2>1. n \in Nat
    BY NamesFacts, LenProperties
  <2> QED BY <2>1 DEF systemContainerCount
<1>2. /\ as \in Seq(PodContainer) /\ Len(as) = n + 1 + s
      /\ \A i \in 1..n : IsCommandContainer(w, j, i, as[i])
      /\ IsSystemContainer(as[n + 1], AgentContainerName, NoId, "agent start")
      /\ s = 1 => IsSystemContainer(as[n + 2], CheckoutContainerName, 0, "checkout")
  BY DEF HasShape
<1>3. cs \in Seq(PodContainer) /\ Len(as) <= Len(cs)
      /\ \A i \in 1..Len(as) : cs[i].name = as[i].name /\ cs[i].id = as[i].id
  BY DEF Extension, SameContainer
<1>4. Len(cs) \in Nat
  BY <1>3, LenProperties
<1>5. \A i \in 1..Len(cs) : i > Len(as) => cs[i].id = NoId
  BY DEF Extension
<1>10. PICK la \in Nat, lc \in Nat : la = Len(as) /\ lc = Len(cs) /\ la <= lc /\ la = n + 1 + s
  <2>1. Len(as) \in Nat
    BY <1>2, LenProperties
  <2> QED BY <1>2, <1>3, <1>4, <2>1
<1>11. /\ \A i \in 1..n : i \in 1..la /\ i \in 1..lc
       /\ n + 1 \in 1..la /\ (s = 1 => n + 2 \in 1..la /\ n + 2 \in 1..lc)
       /\ \A i \in 1..la : i \in 1..n \/ i = n + 1 \/ (s = 1 /\ i = n + 2)
       /\ \A i \in 1..lc : i \in 1..la \/ i > la
  BY <1>1, <1>10
<1>6. ASSUME NEW i \in 1..n
      PROVE  i \in 1..Len(cs) /\ cs[i].name = CommandNames(j)[i] /\ cs[i].id = i - 1 + s
  <2>1. i \in 1..Len(as) /\ i \in 1..Len(cs)
    BY <1>10, <1>11
  <2>2. as[i].name = CommandNames(j)[i] /\ as[i].id = i - 1 + s
    BY <1>2 DEF IsCommandContainer
  <2> QED BY <1>3, <2>1, <2>2
<1>7. n + 1 \in 1..Len(as) /\ cs[n + 1].id = NoId
  <2>1. n + 1 \in 1..Len(as)
    BY <1>10, <1>11
  <2> QED BY <1>2, <1>3, <2>1 DEF IsSystemContainer
<1>8. s = 1 => n + 2 \in 1..Len(cs) /\ cs[n + 2].id = 0 /\ cs[n + 2].name = CheckoutContainerName
  <2> SUFFICES ASSUME s = 1
               PROVE  n + 2 \in 1..Len(cs) /\ cs[n + 2].id = 0 /\ cs[n + 2].name = CheckoutContainerName
    OBVIOUS
  <2>1. n + 2 \in 1..Len(as) /\ n + 2 \in 1..Len(cs)
    BY <1>10, <1>11
  <2> QED BY <1>2, <1>3, <2>1 DEF IsSystemContainer
<1>9. ASSUME NEW i \in 1..Len(cs), cs[i].id # NoId
      PROVE  \/ i \in 1..n /\ cs[i].name = CommandNames(j)[i] /\ cs[i].id = i - 1 + s
             \/ s = 1 /\ i = n + 2 /\ cs[i].name = CheckoutContainerName /\ cs[i].id = 0
  <2>1. i \in 1..la /\ i # n + 1
    BY <1>5, <1>7, <1>9, <1>10, <1>11
  <2>2. i \in 1..n \/ (s = 1 /\ i = n + 2)
    BY <1>11, <2>1
  <2> QED BY <1>6, <1>8, <2>2
<1> QED BY <1>1, <1>6, <1>8, <1>9 DEF HaveIds

\* The managed containers of a pod have the IDs below the count, each once.
Awaited(pod) ==
    LET managed == {i \in DOMAIN pod.containers : pod.containers[i].id # NoId}
    IN /\ {pod.containers[i].id : i \in managed} = 0..(pod.count - 1)
       /\ \A i, k \in managed : pod.containers[i].id = pod.containers[k].id => i = k

\* The agent waits for the containers that run.
LEMMA BuildAwaited ==
    ASSUME NEW w \in Configs, NEW j \in Jobs, NEW ps \in Seq(PatchContainer),
           NEW b, b = Build(w, j, ps), b.ok, CheckoutContainerName \notin ToSet(CommandNames(j))
    PROVE  Awaited(b.pod)
<1>1. PICK c, as, cs, I, N : /\ c = Complete(w, j, ps) /\ as = Assembled(w, j).containers
                             /\ cs = c.containers /\ I = Kept(w, j, cs)
                             /\ N = PatchNames(ps, FALSE) \cup PatchNames(PluginPatch(j), FALSE)
  OBVIOUS
<1>2. PICK ts, ds : ts = Pick(cs, I) /\ ds = PrepareVolumeMounts(ts)
  OBVIOUS
<1>3. /\ Extension(as, cs, N)
      /\ HasParts(b.pod, ds, PrepareVolumeMounts(c.init), FinalVolumes(w, j), managedContainerCount(w, j))
  BY <1>1, <1>2, BuiltFrom
<1>4. b.pod.containers = ds /\ b.pod.count = managedContainerCount(w, j)
  BY <1>3 DEF HasParts
<1>5. HasShape(w, j, as)
  BY <1>1, SettledShape
<1>6. PICK n, s : n = Len(CommandNames(j)) /\ s = systemContainerCount(w, j)
  OBVIOUS
<1>7. /\ n \in Nat /\ s \in 0..1
      /\ \A i \in 1..Len(cs) : cs[i].id # NoId =>
            \/ i \in 1..n /\ cs[i].name = CommandNames(j)[i] /\ cs[i].id = i - 1 + s
            \/ s = 1 /\ i = n + 2 /\ cs[i].name = CheckoutContainerName /\ cs[i].id = 0
      /\ \A i \in 1..n : i \in 1..Len(cs) /\ cs[i].name = CommandNames(j)[i] /\ cs[i].id = i - 1 + s
      /\ s = 1 => n + 2 \in 1..Len(cs) /\ cs[n + 2].id = 0
  <2>1. HasShape(w, j, as) /\ Extension(as, cs, N)
    BY <1>3, <1>5
  <2>2. n \in Nat /\ s \in 0..1 /\ HaveIds(j, cs, n, s)
    BY <1>6, <2>1, ManagedIds
  <2> QED BY <2>2 DEF HaveIds
<1>8. b.pod.count = n + s
  BY <1>4, <1>6, CommandContainersFacts DEF managedContainerCount
<1>9. cs \in Seq(PodContainer)
  BY <1>3 DEF Extension
<1>10. DOMAIN cs = 1..Len(cs) /\ Len(cs) \in Nat
  BY <1>9, LenProperties
<1>11. I \in SUBSET (DOMAIN cs)
  BY <1>1 DEF Kept
<1>12. ts \in Seq(PodContainer)
  BY <1>2, <1>9, <1>11, PickFacts
<1>13. PICK f : Lists(ts, cs, I, f)
  BY <1>2, <1>9, <1>11, PickFacts
<1>14. /\ DOMAIN ds = 1..Len(ts) /\ DOMAIN ts = 1..Len(ts)
       /\ \A x \in 1..Len(ts) : ds[x].id = ts[x].id
  BY <1>2, <1>12, PrepareFacts, LenProperties
<1>15. \A x \in DOMAIN ds : f[x] \in I /\ f[x] \in 1..Len(cs) /\ ds[x].id = cs[f[x]].id
  BY <1>10, <1>11, <1>13, <1>14 DEF Lists
<1>16. \A x, y \in DOMAIN ds : f[x] = f[y] => x = y
  BY <1>13, <1>14 DEF Lists
<1>17. \A i \in I : \E x \in DOMAIN ds : f[x] = i
  BY <1>13, <1>14 DEF Lists
<1>18. \A i \in 1..n : i \in I
  <2> TAKE i \in 1..n
  <2>1. i \in DOMAIN cs /\ cs[i].name = CommandNames(j)[i]
    BY <1>7, <1>10
  <2>2. CommandNames(j)[i] \in ToSet(CommandNames(j))
    <3>1. DOMAIN CommandNames(j) = 1..n
      BY <1>6, NamesFacts, LenProperties
    <3> QED BY <3>1 DEF ToSet
  <2> QED BY <1>1, <2>1, <2>2 DEF Kept
<1>19. s = 1 => n + 2 \in I
  <2> SUFFICES ASSUME s = 1 PROVE n + 2 \in I
    OBVIOUS
  <2>1. ~skipCheckout(w, j)
    BY <1>6 DEF systemContainerCount
  <2>2. n + 2 \in DOMAIN cs
    BY <1>7, <1>10
  <2> QED BY <1>1, <2>1, <2>2 DEF Kept
<1> DEFINE M == {x \in DOMAIN ds : ds[x].id # NoId}
<1>20. \A x \in M : ds[x].id \in 0..(n + s - 1)
  <2> SUFFICES ASSUME NEW x \in M PROVE ds[x].id \in 0..(n + s - 1)
    OBVIOUS
  <2>1. PICK i \in 1..Len(cs) : i = f[x] /\ cs[i].id = ds[x].id /\ cs[i].id # NoId
    BY <1>15
  <2>2. CASE i \in 1..n /\ cs[i].id = i - 1 + s
    BY <1>7, <2>1, <2>2
  <2>3. CASE s = 1 /\ cs[i].id = 0
    BY <1>7, <2>1, <2>3
  <2> QED BY <1>7, <2>1, <2>2, <2>3
<1>21. \A id \in 0..(n + s - 1) : \E x \in M : ds[x].id = id
  <2> SUFFICES ASSUME NEW id \in 0..(n + s - 1) PROVE \E x \in M : ds[x].id = id
    OBVIOUS
  <2>1. PICK i \in I : cs[i].id = id
    <3>1. CASE s = 1 /\ id = 0
      BY <1>7, <1>19, <3>1
    <3>2. CASE id >= s
      <4>1. id - s + 1 \in 1..n /\ (id - s + 1) - 1 + s = id
        BY <1>7, <3>2
      <4>2. id - s + 1 \in I /\ cs[id - s + 1].id = id
        BY <1>7, <1>18, <4>1
      <4> QED BY <4>2
    <3> QED BY <1>7, <3>1, <3>2
  <2>2. PICK x \in DOMAIN ds : f[x] = i
    BY <1>17
  <2>3. ds[x].id = id
    BY <1>15, <2>1, <2>2
  <2>4. id # NoId
    BY <1>7 DEF NoId
  <2> QED BY <2>2, <2>3, <2>4
<1>22. \A x, y \in M : ds[x].id = ds[y].id => x = y
  <2> SUFFICES ASSUME NEW x \in M, NEW y \in M, ds[x].id = ds[y].id PROVE x = y
    OBVIOUS
  <2>1. PICK i \in 1..Len(cs) : i = f[x] /\ cs[i].id = ds[x].id /\ cs[i].id # NoId
    BY <1>15
  <2>2. PICK k \in 1..Len(cs) : k = f[y] /\ cs[k].id = ds[y].id /\ cs[k].id # NoId
    BY <1>15
  <2>3. (i \in 1..n /\ cs[i].id = i - 1 + s) \/ (s = 1 /\ i = n + 2 /\ cs[i].id = 0)
    BY <1>7, <2>1
  <2>4. (k \in 1..n /\ cs[k].id = k - 1 + s) \/ (s = 1 /\ k = n + 2 /\ cs[k].id = 0)
    BY <1>7, <2>2
  <2>5. cs[i].id = cs[k].id
    BY <2>1, <2>2
  <2>6. i = k
    BY <1>7, <2>3, <2>4, <2>5
  <2> QED BY <1>16, <2>1, <2>2, <2>6
<1>23. {ds[x].id : x \in M} = 0..(n + s - 1)
  <2> HIDE DEF M
  <2> QED BY <1>20, <1>21
<1>24. M = {i \in DOMAIN b.pod.containers : b.pod.containers[i].id # NoId}
  BY <1>4, Zenon
<1> HIDE DEF M
<1>25. b.pod.count - 1 = n + s - 1
  BY <1>7, <1>8
<1>26. {b.pod.containers[x].id : x \in M} = 0..(b.pod.count - 1)
  BY <1>4, <1>23, <1>25, Zenon
<1>27. \A x, y \in M : b.pod.containers[x].id = b.pod.containers[y].id => x = y
  BY <1>4, <1>22, Zenon
<1> QED BY <1>24, <1>26, <1>27, Zenon DEF Awaited

-----------------------------------------------------------------------------
(* The inductive invariant: a pod that was built is what Build makes of the *)
(* job built last and the patch as it is now.                              *)

BuildInv ==
    /\ cfg \in Configs /\ patch \in Seq(PatchContainer) /\ builds \in 0..MaxBuilds
    /\ out.ok => job \in Jobs /\ out = Build(cfg, job, patch)

\* A build keeps the invariant, and a pod comes from the patch as rewritten.
LEMMA HandleFacts ==
    ASSUME BuildInv, NEW j \in Jobs, Handle(j)
    PROVE  /\ BuildInv'
           /\ out'.ok => /\ job' \in Jobs /\ job' = j /\ cfg' = cfg /\ out' = Build(cfg, j, patch')
                         /\ patch' = Rewritten(cfg, j, Assembled(cfg, j), patch)
                         /\ ~PatchFails(cfg, Assembled(cfg, j), patch)
<1>1. cfg' = cfg /\ job' = j /\ builds' \in 0..MaxBuilds
  BY JobBuildAssumption DEF Handle, BuildInv
<1>2. cfg \in Configs /\ patch \in Seq(PatchContainer)
  BY DEF BuildInv
<1>3. CASE out' = Error /\ UNCHANGED patch
  BY <1>1, <1>2, <1>3 DEF BuildInv, Error
<1>4. CASE /\ patch' = Rewritten(cfg, j, Assembled(cfg, j), patch)
           /\ out' = IF PatchFails(cfg, Assembled(cfg, j), patch) THEN Error ELSE Build(cfg, j, patch')
  <2>1. patch' \in Seq(PatchContainer)
    BY <1>2, <1>4, RewrittenFacts
  <2>2. out'.ok => ~PatchFails(cfg, Assembled(cfg, j), patch) /\ out' = Build(cfg, j, patch')
    BY <1>4 DEF Error
  <2> QED BY <1>1, <1>2, <1>4, <2>1, <2>2 DEF BuildInv
<1> QED BY <1>3, <1>4 DEF Handle

\* Every pod that Handle creates a Job from is what Build makes of the last job and of
\* the controller's patch as the builds so far have left it.
THEOREM BuildInvariant == Spec => []BuildInv
<1>1. Init => BuildInv
  BY JobBuildAssumption DEF Init, BuildInv, Error
<1>2. BuildInv /\ [Next]_vars => BuildInv'
  <2> SUFFICES ASSUME BuildInv, [Next]_vars PROVE BuildInv'
    OBVIOUS
  <2>1. CASE Next
    BY <2>1, HandleFacts DEF Next
  <2>2. CASE UNCHANGED vars
    BY <2>2 DEF vars, BuildInv
  <2> QED BY <2>1, <2>2
<1> QED BY <1>1, <1>2, PTL DEF Spec

\* "The coordinating agent container are expecting those managed containers to
\* connect" (scheduler.go:775): whatever configuration, plugin and patches say, the
\* managed containers of a pod have the IDs that the agent waits for, each once.
THEOREM AgentAwaitsRunningHolds == Spec => []AgentAwaitsRunning
<1>1. BuildInv => AgentAwaitsRunning
  <2> SUFFICES ASSUME BuildInv, out.ok, CheckoutContainerName \notin ToSet(CommandNames(job))
               PROVE  Awaited(out.pod)
    BY DEF AgentAwaitsRunning, Awaited, Managed
  <2> QED BY BuildAwaited DEF BuildInv
<1> QED BY <1>1, BuildInvariant, PTL

-----------------------------------------------------------------------------
(* The names of the containers. *)

OwnNames(j) == ToSet(CommandNames(j)) \cup {AgentContainerName, CheckoutContainerName}

InitNames(j) == ToSet(podSpecInitNames(j)) \cup ToSet(ImageCheckNames) \cup {CopyAgentContainerName}

\* Valid names differ across the two lists and from the generated ones.
LEMMA ValidNamesFacts ==
    ASSUME NEW j \in Jobs, ValidNames(j)
    PROVE  /\ Distinct(CommandNames(j)) /\ Distinct(podSpecInitNames(j))
           /\ ToSet(CommandNames(j)) \cap ToSet(podSpecInitNames(j)) = {}
           /\ ToSet(CommandNames(j)) \cap (Reserved \cup ToSet(ImageCheckNames)) = {}
           /\ ToSet(podSpecInitNames(j)) \cap (Reserved \cup ToSet(ImageCheckNames)) = {}
           /\ ToSet(ImageCheckNames) \cap Reserved = {} /\ Distinct(ImageCheckNames)
<1>1. PICK s, t : s = CommandNames(j) /\ t = podSpecInitNames(j)
  OBVIOUS
<1>2. s \in Seq(Text) /\ t \in Seq(Text)
  BY <1>1, NamesFacts, PodSpecInitNamesFacts
<1>3. Distinct(s \o t) /\ ToSet(s \o t) \cap (Reserved \cup ToSet(ImageCheckNames)) = {}
  BY <1>1 DEF ValidNames
<1>4. Distinct(s \o t) <=> Distinct(s) /\ Distinct(t) /\ ToSet(s) \cap ToSet(t) = {}
  BY <1>2, DistinctConcat
<1>5. ToSet(s \o t) = ToSet(s) \cup ToSet(t)
  BY <1>2, RangeConcat
<1>6. ToSet(ImageCheckNames) \cap Reserved = {} /\ Distinct(ImageCheckNames)
  BY NamesAssumption
<1>7. /\ ToSet(s) \cap (Reserved \cup ToSet(ImageCheckNames)) = {}
      /\ ToSet(t) \cap (Reserved \cup ToSet(ImageCheckNames)) = {}
  BY <1>3, <1>5
<1> QED BY <1>1, <1>3, <1>4, <1>6, <1>7

\* No name of a container is one of an init container.
LEMMA NamesApart ==
    ASSUME NEW j \in Jobs, ValidNames(j)
    PROVE  OwnNames(j) \cap InitNames(j) = {}
<1>1. /\ AgentContainerName \in Reserved /\ CheckoutContainerName \in Reserved
      /\ CopyAgentContainerName \in Reserved
  BY DEF Reserved
<1>2. CopyAgentContainerName # AgentContainerName /\ CopyAgentContainerName # CheckoutContainerName
  BY DEF AgentContainerName, CheckoutContainerName, CopyAgentContainerName
<1> QED BY <1>1, <1>2, ValidNamesFacts DEF OwnNames, InitNames

\* The containers that Build assembles have different names.
LEMMA ShapeNames ==
    ASSUME NEW w \in Configs, NEW j \in Jobs, ValidNames(j), NEW as, HasShape(w, j, as)
    PROVE  /\ \A i, k \in 1..Len(as) : as[i].name = as[k].name => i = k
           /\ \A i \in 1..Len(as) : as[i].name \in OwnNames(j)
<1>1. PICK n, s, names : n = Len(CommandNames(j)) /\ s = systemContainerCount(w, j) /\ names = CommandNames(j)
  OBVIOUS
<1>2. n \in Nat /\ s \in 0..1 /\ DOMAIN names = 1..n
  <2>1. n \in Nat /\ DOMAIN names = 1..n
    BY <1>1, NamesFacts, LenProperties
  <2> QED BY <1>1, <2>1 DEF systemContainerCount
<1>3. /\ Len(as) = n + 1 + s
      /\ as[n + 1].name = AgentContainerName /\ (s = 1 => as[n + 2].name = CheckoutContainerName)
  BY <1>1 DEF HasShape, IsSystemContainer
<1>4. \A i \in 1..n : as[i].name = names[i]
  BY <1>1 DEF HasShape, IsCommandContainer
<1>5. \A i \in 1..(n + 1 + s) : i \in 1..n \/ i = n + 1 \/ (s = 1 /\ i = n + 2)
  BY <1>2
<1>6. /\ Distinct(names) /\ ToSet(names) \cap Reserved = {}
  BY <1>1, ValidNamesFacts
<1>7. \A i \in 1..n : names[i] # AgentContainerName /\ names[i] # CheckoutContainerName
  BY <1>2, <1>6 DEF ToSet, Reserved
<1>8. AgentContainerName # CheckoutContainerName
  BY DEF AgentContainerName, CheckoutContainerName
<1>9. \A i, k \in 1..n : names[i] = names[k] => i = k
  BY <1>2, <1>6 DEF Distinct
<1>10. ASSUME NEW i \in 1..(n + 1 + s), NEW k \in 1..(n + 1 + s), as[i].name = as[k].name PROVE i = k
  <2>1. CASE i \in 1..n
    BY <1>3, <1>4, <1>5, <1>7, <1>9, <1>10, <2>1
  <2>2. CASE i = n + 1
    BY <1>3, <1>4, <1>5, <1>7, <1>8, <1>10, <2>2
  <2>3. CASE s = 1 /\ i = n + 2
    BY <1>3, <1>4, <1>5, <1>7, <1>8, <1>10, <2>3
  <2> QED BY <1>5, <2>1, <2>2, <2>3
<1>11. \A i \in 1..(n + 1 + s) : as[i].name \in ToSet(names) \cup {AgentContainerName, CheckoutContainerName}
  BY <1>2, <1>3, <1>4, <1>5 DEF ToSet
<1> QED BY <1>1, <1>3, <1>10, <1>11 DEF OwnNames

\* So have the init containers.
LEMMA InitShapeNames ==
    ASSUME NEW w \in Configs, NEW j \in Jobs, ValidNames(j), NEW is, HasInitShape(w, j, is)
    PROVE  /\ \A i, k \in 1..Len(is) : is[i].name = is[k].name => i = k
           /\ \A i \in 1..Len(is) : is[i].name \in InitNames(j)
<1>1. PICK m, q, names : m = Len(ImageChecks(w, j)) /\ q = Len(podSpecInitNames(j)) /\ names = podSpecInitNames(j)
  OBVIOUS
<1>2. /\ m \in 0..Len(ImageCheckNames) /\ q \in Nat /\ Len(is) = 1 + m + q
      /\ is[1].name = CopyAgentContainerName
  BY <1>1 DEF HasInitShape, IsSystemContainer
<1>3. /\ \A i \in 1..m : is[1 + i].name = ImageCheckNames[i]
      /\ \A i \in 1..q : is[1 + m + i].name = names[i]
  BY <1>1 DEF HasInitShape
<1>4. /\ DOMAIN names = 1..q /\ DOMAIN ImageCheckNames = 1..Len(ImageCheckNames)
      /\ Len(ImageCheckNames) \in Nat
  BY <1>1, PodSpecInitNamesFacts, NamesAssumption, LenProperties
<1>5. m \in Nat /\ \A i \in 1..m : i \in 1..Len(ImageCheckNames)
  BY <1>2, <1>4
<1>6. \A i \in 1..(1 + m + q) :
          i = 1 \/ (\E k \in 1..m : i = 1 + k) \/ (\E k \in 1..q : i = 1 + m + k)
  <2> SUFFICES ASSUME NEW i \in 1..(1 + m + q)
               PROVE  i = 1 \/ (\E k \in 1..m : i = 1 + k) \/ (\E k \in 1..q : i = 1 + m + k)
    OBVIOUS
  <2>1. \/ i = 1 \/ (i - 1 \in 1..m /\ i = 1 + (i - 1))
        \/ (i - (1 + m) \in 1..q /\ i = 1 + m + (i - (1 + m)))
    BY <1>2, <1>5
  <2> QED BY <2>1
<1>7. /\ Distinct(names) /\ Distinct(ImageCheckNames)
      /\ ToSet(names) \cap (Reserved \cup ToSet(ImageCheckNames)) = {}
      /\ ToSet(ImageCheckNames) \cap Reserved = {}
  BY <1>1, ValidNamesFacts
<1>8. /\ \A i \in 1..m : ImageCheckNames[i] \in ToSet(ImageCheckNames)
      /\ \A i \in 1..q : names[i] \in ToSet(names)
  BY <1>4, <1>5 DEF ToSet
<1>9. /\ \A i \in 1..m : ImageCheckNames[i] # CopyAgentContainerName
      /\ \A i \in 1..q : names[i] # CopyAgentContainerName
      /\ \A i \in 1..m, k \in 1..q : ImageCheckNames[i] # names[k]
  BY <1>7, <1>8 DEF Reserved
<1>10. /\ \A i, k \in 1..m : ImageCheckNames[i] = ImageCheckNames[k] => i = k
       /\ \A i, k \in 1..q : names[i] = names[k] => i = k
  BY <1>4, <1>5, <1>7 DEF Distinct
<1> DEFINE Setup(i) == i = 1 /\ is[i].name = CopyAgentContainerName
           Check(i, x) == i = 1 + x /\ is[i].name = ImageCheckNames[x]
           Side(i, x) == i = 1 + m + x /\ is[i].name = names[x]
<1>13. \A i \in 1..(1 + m + q) :
          Setup(i) \/ (\E x \in 1..m : Check(i, x)) \/ (\E x \in 1..q : Side(i, x))
  <2> SUFFICES ASSUME NEW i \in 1..(1 + m + q)
               PROVE  Setup(i) \/ (\E x \in 1..m : Check(i, x)) \/ (\E x \in 1..q : Side(i, x))
    OBVIOUS
  <2>1. CASE i = 1
    BY <1>2, <2>1
  <2>2. CASE \E x \in 1..m : i = 1 + x
    BY <1>3, <2>2
  <2>3. CASE \E x \in 1..q : i = 1 + m + x
    BY <1>3, <2>3
  <2> QED BY <1>6, <2>1, <2>2, <2>3
<1>11. ASSUME NEW i \in 1..(1 + m + q), NEW k \in 1..(1 + m + q), is[i].name = is[k].name PROVE i = k
  <2>0. Setup(k) \/ (\E x \in 1..m : Check(k, x)) \/ (\E x \in 1..q : Side(k, x))
    BY <1>13
  <2>1. CASE Setup(i)
    BY <1>9, <1>11, <2>0, <2>1
  <2>2. ASSUME NEW x \in 1..m, Check(i, x) PROVE i = k
    <3>1. CASE Setup(k)
      BY <1>9, <1>11, <2>2, <3>1
    <3>2. ASSUME NEW y \in 1..m, Check(k, y) PROVE i = k
      <4>1. x = y
        BY <1>10, <1>11, <2>2, <3>2
      <4> QED BY <2>2, <3>2, <4>1
    <3>3. ASSUME NEW y \in 1..q, Side(k, y) PROVE i = k
      BY <1>9, <1>11, <2>2, <3>3
    <3> QED BY <2>0, <3>1, <3>2, <3>3
  <2>3. ASSUME NEW x \in 1..q, Side(i, x) PROVE i = k
    <3>1. CASE Setup(k)
      BY <1>9, <1>11, <2>3, <3>1
    <3>2. ASSUME NEW y \in 1..m, Check(k, y) PROVE i = k
      BY <1>9, <1>11, <2>3, <3>2
    <3>3. ASSUME NEW y \in 1..q, Side(k, y) PROVE i = k
      <4>1. x = y
        BY <1>10, <1>11, <2>3, <3>3
      <4> QED BY <2>3, <3>3, <4>1
    <3> QED BY <2>0, <3>1, <3>2, <3>3
  <2>4. Setup(i) \/ (\E x \in 1..m : Check(i, x)) \/ (\E x \in 1..q : Side(i, x))
    BY <1>13
  <2> QED BY <2>1, <2>2, <2>3, <2>4
<1>12. \A i \in 1..(1 + m + q) :
          is[i].name \in ToSet(names) \cup ToSet(ImageCheckNames) \cup {CopyAgentContainerName}
  <2> SUFFICES ASSUME NEW i \in 1..(1 + m + q)
      PROVE is[i].name \in ToSet(names) \cup ToSet(ImageCheckNames) \cup {CopyAgentContainerName}
    OBVIOUS
  <2>1. CASE i = 1
    BY <1>2, <2>1
  <2>2. CASE \E x \in 1..m : i = 1 + x
    BY <1>3, <1>8, <2>2
  <2>3. CASE \E x \in 1..q : i = 1 + m + x
    BY <1>3, <1>8, <2>3
  <2> QED BY <1>6, <2>1, <2>2, <2>3
<1> QED BY <1>1, <1>2, <1>11, <1>12 DEF InitNames

\* The final containers are patched ones at kept positions, the final init
\* containers all of the patched ones; only their mounts differ.
SameButMounts(c, d) ==
    /\ d.name = c.name /\ d.image = c.image /\ d.policy = c.policy
    /\ d.entry = c.entry /\ d.command = c.command /\ d.id = c.id
    /\ d.mounts = Deduplicated(c.mounts)

ComesFrom(I, cs, ds, f) ==
    /\ f \in [DOMAIN ds -> I]
    /\ \A x, y \in DOMAIN ds : f[x] = f[y] => x = y
    /\ \A x \in DOMAIN ds : f[x] \in 1..Len(cs) /\ SameButMounts(cs[f[x]], ds[x])

\* The final list is what is left of the patched one, each container once.
LEMMA FinalContainers ==
    ASSUME NEW w \in Configs, NEW j \in Jobs, NEW cs \in Seq(PodContainer), NEW ds,
           ds = PrepareVolumeMounts(Pick(cs, Kept(w, j, cs)))
    PROVE  ds \in Seq(PodContainer) /\ \E f : ComesFrom(Kept(w, j, cs), cs, ds, f)
<1>1. PICK I, ts : I = Kept(w, j, cs) /\ ts = Pick(cs, I)
  OBVIOUS
<1>2. I \in SUBSET (DOMAIN cs)
  BY <1>1 DEF Kept
<1>3. DOMAIN cs = 1..Len(cs)
  BY LenProperties
<1>4. ts \in Seq(PodContainer)
  BY <1>1, <1>2, PickFacts
<1>5. PICK f : Lists(ts, cs, I, f)
  BY <1>1, <1>2, PickFacts
<1>6. DOMAIN ts = 1..Len(ts) /\ ds = PrepareVolumeMounts(ts)
  BY <1>1, <1>4, LenProperties
<1>7. /\ DOMAIN ds = 1..Len(ts) /\ ds \in Seq(PodContainer)
      /\ \A x \in 1..Len(ts) :
            /\ ds[x].name = ts[x].name /\ ds[x].image = ts[x].image /\ ds[x].policy = ts[x].policy
            /\ ds[x].entry = ts[x].entry /\ ds[x].command = ts[x].command /\ ds[x].id = ts[x].id
            /\ ds[x].mounts = Deduplicated(ts[x].mounts)
  BY <1>4, <1>6, PrepareFacts
<1>8. f \in [DOMAIN ds -> I] /\ \A x, y \in DOMAIN ds : f[x] = f[y] => x = y
  BY <1>5, <1>6, <1>7 DEF Lists
<1>9. \A x \in DOMAIN ds : f[x] \in 1..Len(cs) /\ ts[x] = cs[f[x]]
  BY <1>2, <1>3, <1>5, <1>6, <1>7 DEF Lists
<1>10. \A x \in DOMAIN ds : f[x] \in 1..Len(cs) /\ SameButMounts(cs[f[x]], ds[x])
  BY <1>7, <1>9 DEF SameButMounts
<1>11. ComesFrom(I, cs, ds, f)
  BY <1>8, <1>10 DEF ComesFrom
<1> QED BY <1>1, <1>7, <1>11

-----------------------------------------------------------------------------
(* Images that are to be pulled always. *)

\* The patch sets no image, or no policy, for the container of that name.
LeavesImage(ps, init, name) ==
    \A k \in DOMAIN ps : ps[k].init = init /\ ps[k].name = name => ps[k].image = ""

LeavesPolicy(ps, init, name) ==
    \A k \in DOMAIN ps : ps[k].init = init /\ ps[k].name = name => ps[k].policy = ""

\* A patch that sets no image leaves the container's.
LEMMA ImageUnchanged ==
    ASSUME NEW c \in PodContainer, NEW ps \in Seq(PatchContainer), NEW init,
           LeavesImage(ps, init, c.name)
    PROVE  Merge(c, ps, init).image = c.image
<1>1. Setting(ps, init, c.name, "image", "") = {}
  BY DEF Setting, LeavesImage
<1>2. LastSet(ps, init, c.name, "image", "", c.image) = c.image
  BY <1>1 DEF LastSet
<1>3. Merge(c, ps, init).image = LastSet(ps, init, c.name, "image", "", c.image)
  BY MergeFacts
<1> QED BY <1>2, <1>3

\* One that sets no policy leaves that.
LEMMA PolicyUnchanged ==
    ASSUME NEW c \in PodContainer, NEW ps \in Seq(PatchContainer), NEW init,
           LeavesPolicy(ps, init, c.name)
    PROVE  Merge(c, ps, init).policy = c.policy
<1>1. Setting(ps, init, c.name, "policy", "") = {}
  BY DEF Setting, LeavesPolicy
<1>2. LastSet(ps, init, c.name, "policy", "", c.policy) = c.policy
  BY <1>1 DEF LastSet
<1>3. Merge(c, ps, init).policy = LastSet(ps, init, c.name, "policy", "", c.policy)
  BY MergeFacts
<1> QED BY <1>2, <1>3

\* The plugin's patch is applied with the images and policies it has.
LEMMA OwnLeaves ==
    ASSUME NEW w \in Configs, NEW j \in Jobs, NEW ps, NEW init, NEW name
    PROVE  /\ LeavesImage(PluginPatch(j), init, name) => LeavesImage(OwnPatch(w, j, ps), init, name)
           /\ LeavesPolicy(PluginPatch(j), init, name) => LeavesPolicy(OwnPatch(w, j, ps), init, name)
<1>1. PICK own, qs, pod : own = OwnPatch(w, j, ps) /\ qs = PluginPatch(j) /\ pod = Patched(w, j, ps)
  OBVIOUS
<1>2. qs \in Seq(PatchContainer)
  BY <1>1, GivenFacts
<1>3. own = Rewritten(w, j, pod, qs)
  BY <1>1 DEF OwnPatch
<1>4. /\ own \in Seq(PatchContainer) /\ Len(own) = Len(qs)
      /\ \A i \in 1..Len(qs) : /\ own[i].name = qs[i].name /\ own[i].init = qs[i].init
                                /\ own[i].image = qs[i].image /\ own[i].policy = qs[i].policy
  BY <1>2, <1>3, RewrittenFacts
<1>5. DOMAIN own = 1..Len(qs) /\ DOMAIN qs = 1..Len(qs)
  BY <1>2, <1>4, LenProperties
<1> QED BY <1>1, <1>4, <1>5 DEF LeavesImage, LeavesPolicy

\* The init containers go through the two patches and nothing else.
LEMMA InitStages ==
    ASSUME NEW w \in Configs, NEW j \in Jobs, NEW ps \in Seq(PatchContainer)
    PROVE  /\ Merged(Assembled(w, j).init, Patched(w, j, ps).init, ps, TRUE)
           /\ Merged(Patched(w, j, ps).init, Complete(w, j, ps).init, OwnPatch(w, j, ps), TRUE)
<1>1. Merged(Assembled(w, j).init, Patched(w, j, ps).init, ps, TRUE)
  BY PatchedFacts
<1>2. Merged(Patched(w, j, ps).init, Complete(w, j, ps).init, OwnPatch(w, j, ps), TRUE)
  BY CompleteFacts
<1> QED BY <1>1, <1>2

\* Where a patched container is, and what stays of it.
ImageKept(cs, ds, m) ==
    /\ m \in 1..Len(ds) /\ ds[m].name = cs[m].name
    /\ ds[m].image = cs[m].image /\ ds[m].policy = cs[m].policy

\* The same for a container in a merged list.
LEMMA MergedImage ==
    ASSUME NEW cs, NEW ds, NEW ps, NEW init, Merged(cs, ds, ps, init),
           NEW m \in 1..Len(cs), LeavesImage(ps, init, cs[m].name), LeavesPolicy(ps, init, cs[m].name)
    PROVE  ImageKept(cs, ds, m)
<1>1. cs \in Seq(PodContainer) /\ ps \in Seq(PatchContainer) /\ ds \in Seq(PodContainer)
      /\ Len(cs) <= Len(ds) /\ SameContainer(cs[m], ds[m]) /\ ds[m] = Merge(cs[m], ps, init)
  BY DEF Merged, Extension
<1>2. cs[m] \in PodContainer /\ Len(cs) \in Nat /\ Len(ds) \in Nat
  BY <1>1, LenProperties, ElementOfSeq
<1>3. ds[m].image = cs[m].image /\ ds[m].policy = cs[m].policy
  <2>1. PICK c \in PodContainer : c = cs[m]
    BY <1>2
  <2>2. Merge(c, ps, init).image = c.image /\ Merge(c, ps, init).policy = c.policy
    BY <1>1, <2>1, ImageUnchanged, PolicyUnchanged
  <2> QED BY <1>1, <2>1, <2>2
<1>4. m \in 1..Len(ds)
  BY <1>1, <1>2
<1> QED BY <1>1, <1>3, <1>4 DEF SameContainer, ImageKept

\* No patch changes the image or policy of an init container of the pod.
LeaveInitImages(w, j, ps) ==
    \A p \in ToSet(ps) \cup ToSet(PluginPatch(j)) :
        p.init /\ (p.image # "" \/ p.policy # "") => Named(Assembled(w, j).init, p.name) = {}

\* Neither patch sets the image or policy of an init container that Build has made.
LEMMA LeavesInitImage ==
    ASSUME NEW w \in Configs, NEW j \in Jobs, NEW ps \in Seq(PatchContainer),
           LeaveInitImages(w, j, ps), NEW is, is = Assembled(w, j).init, NEW m \in DOMAIN is
    PROVE  /\ LeavesImage(ps, TRUE, is[m].name) /\ LeavesImage(OwnPatch(w, j, ps), TRUE, is[m].name)
           /\ LeavesPolicy(ps, TRUE, is[m].name) /\ LeavesPolicy(OwnPatch(w, j, ps), TRUE, is[m].name)
<1>1. PICK qs, name : qs = PluginPatch(j) /\ name = is[m].name
  OBVIOUS
<1>2. Named(is, name) # {}
  BY <1>1 DEF Named
<1>3. \A p \in ToSet(ps) \cup ToSet(qs) : p.init /\ p.name = name => p.image = "" /\ p.policy = ""
  BY <1>1, <1>2 DEF LeaveInitImages
<1>4. LeavesImage(ps, TRUE, name) /\ LeavesPolicy(ps, TRUE, name)
  BY <1>3 DEF LeavesImage, LeavesPolicy, ToSet
<1>5. LeavesImage(qs, TRUE, name) /\ LeavesPolicy(qs, TRUE, name)
  BY <1>3 DEF LeavesImage, LeavesPolicy, ToSet
<1>6. LeavesImage(OwnPatch(w, j, ps), TRUE, name) /\ LeavesPolicy(OwnPatch(w, j, ps), TRUE, name)
  BY <1>1, <1>5, OwnLeaves
<1> QED BY <1>1, <1>4, <1>6

\* So that container keeps its image and policy to the end.
LEMMA InitImageKept ==
    ASSUME NEW w \in Configs, NEW j \in Jobs, NEW ps \in Seq(PatchContainer),
           LeaveInitImages(w, j, ps), NEW is, NEW js,
           is = Assembled(w, j).init, js = Complete(w, j, ps).init, NEW m \in 1..Len(is)
    PROVE  m \in 1..Len(js) /\ js[m].image = is[m].image /\ js[m].policy = is[m].policy
<1>1. PICK hs, own : hs = Patched(w, j, ps).init /\ own = OwnPatch(w, j, ps)
  OBVIOUS
<1>2. Merged(is, hs, ps, TRUE) /\ Merged(hs, js, own, TRUE)
  BY <1>1, InitStages
<1>3. m \in DOMAIN is
  BY <1>2, LenProperties DEF Merged
<1>4. /\ LeavesImage(ps, TRUE, is[m].name) /\ LeavesImage(own, TRUE, is[m].name)
      /\ LeavesPolicy(ps, TRUE, is[m].name) /\ LeavesPolicy(own, TRUE, is[m].name)
  BY <1>1, <1>3, LeavesInitImage
<1>5. ImageKept(is, hs, m)
  BY <1>2, <1>4, MergedImage
<1>6. m \in 1..Len(hs) /\ LeavesImage(own, TRUE, hs[m].name) /\ LeavesPolicy(own, TRUE, hs[m].name)
  BY <1>4, <1>5 DEF ImageKept
<1>7. ImageKept(hs, js, m)
  BY <1>2, <1>6, MergedImage
<1> QED BY <1>5, <1>7 DEF ImageKept

\* No patch sets the policy of the container of that name.
PolicyLeft(j, ps, name) ==
    LeavesPolicy(ps, FALSE, name) /\ LeavesPolicy(PluginPatch(j), FALSE, name)

\* A container whose policy no patch sets keeps it.
LEMMA PolicyKept ==
    ASSUME NEW w \in Configs, NEW j \in Jobs, NEW ps \in Seq(PatchContainer),
           NEW as, NEW cs, as = Assembled(w, j).containers, cs = Complete(w, j, ps).containers,
           NEW i \in 1..Len(as), PolicyLeft(j, ps, as[i].name)
    PROVE  cs[i].policy = as[i].policy
<1>0. LeavesPolicy(ps, FALSE, as[i].name) /\ LeavesPolicy(PluginPatch(j), FALSE, as[i].name)
  BY DEF PolicyLeft
<1>1. PICK hs, own : hs = Patched(w, j, ps).containers /\ own = OwnPatch(w, j, ps)
  OBVIOUS
<1>2. /\ as \in Seq(PodContainer) /\ Extension(as, hs, PatchNames(ps, FALSE))
      /\ Commanded(as, hs, ps)
  BY <1>1, PatchedFacts
<1>3. Merged(hs, cs, own, FALSE)
  BY <1>1, CompleteFacts
<1>4. /\ hs \in Seq(PodContainer) /\ Len(as) <= Len(hs) /\ SameContainer(as[i], hs[i])
      /\ hs[i].policy = Merge(as[i], ps, FALSE).policy
  BY <1>2 DEF Extension, Commanded
<1>5. Len(as) \in Nat /\ Len(hs) \in Nat /\ as[i] \in PodContainer
  BY <1>2, <1>4, LenProperties, ElementOfSeq
<1>6. PICK k \in 1..Len(hs) : k = i
  BY <1>4, <1>5
<1>7. hs[k] \in PodContainer
  BY <1>4, <1>6, ElementOfSeq
<1>8. own \in Seq(PatchContainer) /\ cs[k] = Merge(hs[k], own, FALSE)
  BY <1>3, <1>6 DEF Merged
<1>9. Merge(as[i], ps, FALSE).policy = as[i].policy
  BY <1>0, <1>5, PolicyUnchanged
<1>10. LeavesPolicy(own, FALSE, hs[k].name)
  BY <1>0, <1>1, <1>4, <1>6, OwnLeaves DEF SameContainer
<1>11. Merge(hs[k], own, FALSE).policy = hs[k].policy
  BY <1>7, <1>8, <1>10, PolicyUnchanged
<1> QED BY <1>4, <1>6, <1>8, <1>9, <1>11

\* A container of the pod that has the name of an assembled one is it: it has its
\* pull policy, unless a patch sets it.
LEMMA FinalPolicy ==
    ASSUME NEW w \in Configs, NEW j \in Jobs, NEW ps \in Seq(PatchContainer), ValidNames(j),
           NEW b, b = Build(w, j, ps), b.ok, NEW as, as = Assembled(w, j).containers,
           NEW i \in 1..Len(as), NEW y \in ToSet(b.pod.containers), y.name = as[i].name,
           PolicyLeft(j, ps, as[i].name)
    PROVE  y.policy = as[i].policy
<1>1. PICK c, cs, N : /\ c = Complete(w, j, ps) /\ cs = c.containers
                      /\ N = PatchNames(ps, FALSE) \cup PatchNames(PluginPatch(j), FALSE)
  OBVIOUS
<1>2. PICK ds : ds = PrepareVolumeMounts(Pick(cs, Kept(w, j, cs)))
  OBVIOUS
<1>3. /\ Extension(as, cs, N)
      /\ HasParts(b.pod, ds, PrepareVolumeMounts(c.init), FinalVolumes(w, j), managedContainerCount(w, j))
  BY <1>1, <1>2, BuiltFrom
<1>4. b.pod.containers = ds
  BY <1>3 DEF HasParts
<1>5. cs \in Seq(PodContainer)
  BY <1>3 DEF Extension
<1>6. PICK f : ComesFrom(Kept(w, j, cs), cs, ds, f)
  BY <1>2, <1>5, FinalContainers
<1>7. PICK z \in DOMAIN ds : y = ds[z]
  BY <1>4 DEF ToSet
<1>8. PICK k \in 1..Len(cs) : y.name = cs[k].name /\ y.policy = cs[k].policy
  BY <1>6, <1>7 DEF ComesFrom, SameButMounts
<1>9. HasShape(w, j, as)
  BY SettledShape
<1>10. as \in Seq(PodContainer)
  BY <1>9 DEF HasShape
<1>11. cs[k].name = as[i].name
  BY <1>8
<1>12. k \in 1..Len(as) /\ as[k].name = as[i].name
  BY <1>3, <1>10, <1>11, ExtensionNames
<1>13. \A l, m \in 1..Len(as) : as[l].name = as[m].name => l = m
  BY <1>9, ShapeNames
<1>14. k = i
  BY <1>12, <1>13
<1>15. cs[i].policy = as[i].policy
  BY <1>1, PolicyKept
<1> QED BY <1>8, <1>14, <1>15

\* The container's policy was kept, or an image check or sidecar pulls the image.
LEMMA BuildPulled ==
    ASSUME NEW w \in Configs, NEW j \in Jobs, NEW ps \in Seq(PatchContainer),
           NEW b, b = Build(w, j, ps), b.ok, ~w.skipChecks, ValidNames(j), LeaveInitImages(w, j, ps),
           NEW x \in ToSet(Unchecked(w, j)), NEW y \in ToSet(b.pod.containers),
           x.name = y.name, x.image = y.image, ownPolicy(w, x) = "Always",
           PolicyLeft(j, ps, y.name)
    PROVE  \/ y.policy = "Always"
           \/ \E i \in DOMAIN b.pod.init :
                 b.pod.init[i].image = y.image /\ b.pod.init[i].policy = "Always"
<1>1. PICK u, as : u = Unchecked(w, j) /\ as = Assembled(w, j).containers
  OBVIOUS
<1>2. Len(as) = Len(u) /\ \A i \in 1..Len(u) : as[i] = SettlePolicy(w, u[i])
  BY <1>1, SettledShape
<1>3. HasShape(w, j, u)
  BY <1>1, UncheckedShape
<1>4. u \in Seq(PodContainer)
  BY <1>3 DEF HasShape
<1>5. PICK i \in 1..Len(u) : x = u[i]
  BY <1>1, <1>4, LenProperties DEF ToSet
<1>6. x \in PodContainer /\ as[i] = SettlePolicy(w, x) /\ i \in 1..Len(as)
  BY <1>2, <1>4, <1>5, ElementOfSeq
<1>7. /\ as[i].name = x.name
      /\ as[i].policy = IF nominalPolicy(w, x) = "Always" /\ ownPolicy(w, x) = "Always"
                        THEN "IfNotPresent" ELSE ownPolicy(w, x)
  <2>1. PICK d : d = SettlePolicy(w, x)
    OBVIOUS
  <2>2. /\ d.name = x.name
        /\ d.policy = IF nominalPolicy(w, x) = "Always" /\ ownPolicy(w, x) = "Always"
                      THEN "IfNotPresent" ELSE ownPolicy(w, x)
    BY <1>6, <2>1, SettleFacts
  <2> QED BY <1>6, <2>1, <2>2
<1>8. y.policy = as[i].policy
  <2>1. y.name = as[i].name
    BY <1>7
  <2>2. PolicyLeft(j, ps, as[i].name)
    BY <2>1
  <2> QED BY <1>1, <1>6, <2>1, <2>2, FinalPolicy
<1>9. CASE nominalPolicy(w, x) # "Always"
  BY <1>7, <1>8, <1>9
<1>10. CASE nominalPolicy(w, x) = "Always"
  <2>1. PICK is, js, es : /\ is = Assembled(w, j).init /\ js = Complete(w, j, ps).init
                          /\ es = PrepareVolumeMounts(js)
    OBVIOUS
  <2>2. PICK d \in ToSet(ImageChecks(w, j)) \cup ToSet(InitBefore(w, j)) :
           d.image = x.image /\ d.policy = "Always"
    BY <1>1, <1>5, <1>10, ImageChecksFacts
  <2>3. HasInitShape(w, j, is) /\ d \in ToSet(is)
    BY <2>1, InitShape
  <2>4. is \in Seq(PodContainer)
    BY <2>3 DEF HasInitShape
  <2>5. PICK m \in 1..Len(is) : d = is[m]
    BY <2>3, <2>4, LenProperties DEF ToSet
  <2>6. m \in 1..Len(js) /\ js[m].image = is[m].image /\ js[m].policy = is[m].policy
    BY <2>1, InitImageKept
  <2>7. js \in Seq(PodContainer) /\ b.pod.init = es
    <3>1. PICK c, ds : c = Complete(w, j, ps)
                       /\ ds = PrepareVolumeMounts(Pick(c.containers, Kept(w, j, c.containers)))
      OBVIOUS
    <3>2. /\ Extension(is, js, PatchNames(ps, TRUE) \cup PatchNames(PluginPatch(j), TRUE))
          /\ HasParts(b.pod, ds, es, FinalVolumes(w, j), managedContainerCount(w, j))
      BY <2>1, <3>1, BuiltFrom
    <3> QED BY <3>2 DEF Extension, HasParts
  <2>8. DOMAIN es = 1..Len(js) /\ es[m].image = js[m].image /\ es[m].policy = js[m].policy
    BY <2>1, <2>6, <2>7, PrepareFacts
  <2>9. m \in DOMAIN es /\ es[m].image = y.image /\ es[m].policy = "Always"
    BY <2>2, <2>5, <2>6, <2>8
  <2> QED BY <2>7, <2>9
<1> QED BY <1>9, <1>10

\* Every container of the pod that is to pull its image always gets it freshly pulled.
LEMMA AllPulled ==
    ASSUME NEW w \in Configs, NEW j \in Jobs, NEW ps \in Seq(PatchContainer),
           NEW b, b = Build(w, j, ps), b.ok, ~w.skipChecks, ValidNames(j), LeaveInitImages(w, j, ps)
    PROVE  \A x \in ToSet(Unchecked(w, j)), y \in ToSet(b.pod.containers) :
              /\ x.name = y.name /\ x.image = y.image /\ ownPolicy(w, x) = "Always"
              /\ PolicyLeft(j, ps, y.name)
              => \/ y.policy = "Always"
                 \/ \E i \in DOMAIN b.pod.init :
                       b.pod.init[i].image = y.image /\ b.pod.init[i].policy = "Always"
<1> SUFFICES ASSUME NEW x \in ToSet(Unchecked(w, j)), NEW y \in ToSet(b.pod.containers),
                    x.name = y.name, x.image = y.image, ownPolicy(w, x) = "Always",
                    PolicyLeft(j, ps, y.name)
             PROVE  \/ y.policy = "Always"
                    \/ \E i \in DOMAIN b.pod.init :
                          b.pod.init[i].image = y.image /\ b.pod.init[i].policy = "Always"
  OBVIOUS
<1> QED BY BuildPulled

\* "there's no need to pull it again later" (imagecheck.go:82): a container that is
\* to pull its image always gets it freshly pulled, by itself or by an init
\* container, whatever images and policies the pod is made of, unless a patch
\* sets policies itself or takes an init container's image away.
THEOREM AlwaysPulledHolds == Spec => []AlwaysPulled
<1>1. BuildInv => AlwaysPulled
  <2> DEFINE Left(name) == \A p \in ToSet(patch) \cup ToSet(PluginPatch(job)) :
                              ~p.init /\ p.name = name => p.policy = ""
             Pulled(y) == \/ y.policy = "Always"
                          \/ \E i \in DOMAIN out.pod.init :
                                out.pod.init[i].image = y.image /\ out.pod.init[i].policy = "Always"
  <2> SUFFICES ASSUME BuildInv, out.ok, ~cfg.skipChecks, ValidNames(job),
                      LeaveInitImages(cfg, job, patch)
               PROVE  \A x \in ToSet(Unchecked(cfg, job)), y \in ToSet(out.pod.containers) :
                         /\ x.name = y.name /\ x.image = y.image /\ ownPolicy(cfg, x) = "Always"
                         /\ Left(y.name)
                         => Pulled(y)
    BY DEF AlwaysPulled, LeaveInitImages
  <2>1. cfg \in Configs /\ job \in Jobs /\ patch \in Seq(PatchContainer) /\ out = Build(cfg, job, patch)
    BY DEF BuildInv
  <2>2. \A name : Left(name) => PolicyLeft(job, patch, name)
    BY DEF PolicyLeft, LeavesPolicy, ToSet
  <2>3. \A x \in ToSet(Unchecked(cfg, job)), y \in ToSet(out.pod.containers) :
           /\ x.name = y.name /\ x.image = y.image /\ ownPolicy(cfg, x) = "Always"
           /\ PolicyLeft(job, patch, y.name)
           => Pulled(y)
    BY <2>1, AllPulled
  <2> HIDE DEF Left, Pulled
  <2> QED BY <2>2, <2>3
<1> QED BY <1>1, BuildInvariant, PTL

-----------------------------------------------------------------------------
(* What Kubernetes accepts. *)

\* The mounts of a container have different paths and are on volumes of the set.
Mounted(c, V) ==
    /\ Distinct([i \in DOMAIN c.mounts |-> c.mounts[i].path])
    /\ \A i \in DOMAIN c.mounts : c.mounts[i].vol \in V

\* A position is one of the first n or comes after them.
LEMMA WithinOrBeyond ==
    ASSUME NEW n \in Nat, NEW m \in Nat, NEW k \in 1..m
    PROVE  k \in 1..n \/ k > n
OBVIOUS

\* A patched container is one of the original ones or a new one.
LEMMA OldOrNew ==
    ASSUME NEW as \in Seq(PodContainer), NEW cs, NEW N, Extension(as, cs, N), NEW k \in 1..Len(cs)
    PROVE  \/ k \in 1..Len(as) /\ SameContainer(as[k], cs[k])
           \/ k > Len(as) /\ cs[k].name \in N
<1>1. cs \in Seq(PodContainer)
  BY DEF Extension
<1>2. PICK n \in Nat : n = Len(as)
  BY LenProperties
<1>3. PICK m \in Nat : m = Len(cs)
  BY <1>1, LenProperties
<1>4. k \in 1..n \/ k > n
  BY <1>3, WithinOrBeyond
<1>5. CASE k \in 1..n
  BY <1>2, <1>5 DEF Extension
<1>6. CASE k > n
  BY <1>2, <1>6 DEF Extension
<1> QED BY <1>2, <1>4, <1>5, <1>6

\* Every mount that is left after the patches is on a volume of the pod.
LEMMA MountsKept ==
    ASSUME NEW cs, NEW V, AllMountsIn(cs, V), NEW k \in 1..Len(cs), NEW d,
           d.mounts = Deduplicated(cs[k].mounts)
    PROVE  Mounted(d, V)
<1>1. PICK ms : ms = cs[k].mounts
  OBVIOUS
<1>2. MountsIn(ms, V)
  BY <1>1 DEF AllMountsIn
<1>3. PICK kept : kept = Deduplicated(ms)
  OBVIOUS
<1>4. ms \in Seq(VolumeMount)
  BY <1>2 DEF MountsIn
<1>5. /\ ToSet(kept) \subseteq ToSet(ms) /\ Distinct([i \in DOMAIN kept |-> kept[i].path])
  BY <1>3, <1>4, DeduplicatedFacts
<1>6. \A i \in DOMAIN kept : kept[i].vol \in V
  <2> TAKE i \in DOMAIN kept
  <2>1. kept[i] \in ToSet(ms)
    BY <1>5 DEF ToSet
  <2> QED BY <1>2, <2>1 DEF MountsIn
<1>7. d.mounts = kept
  BY <1>1, <1>3
<1> QED BY <1>5, <1>6, <1>7 DEF Mounted

\* The names of the containers are distinct.
NamesDiffer(cs) == \A i, k \in 1..Len(cs) : cs[i].name = cs[k].name => i = k

DistinctNames(all) == Distinct([i \in DOMAIN all |-> all[i].name])

\* Two lists without a common name have different names together.
LEMMA NamesConcat ==
    ASSUME NEW s \in Seq(PodContainer), NEW t \in Seq(PodContainer), NamesDiffer(s), NamesDiffer(t),
           \A i \in 1..Len(s), k \in 1..Len(t) : s[i].name # t[k].name,
           NEW all, all = s \o t
    PROVE  DistinctNames(all)
<1>1. /\ Len(all) = Len(s) + Len(t)
      /\ \A i \in 1..(Len(s) + Len(t)) : all[i] = IF i <= Len(s) THEN s[i] ELSE t[i - Len(s)]
  BY ConcatProperties
<1>2. PICK n, m : n = Len(s) /\ m = Len(t)
  OBVIOUS
<1>3. all \in Seq(PodContainer)
  BY RangeConcat
<1>4. n \in Nat /\ m \in Nat /\ DOMAIN all = 1..(n + m)
  BY <1>1, <1>2, <1>3, LenProperties
<1>5. /\ \A i \in 1..(n + m) : i <= n => i \in 1..n /\ all[i] = s[i]
      /\ \A i \in 1..(n + m) : i > n => i - n \in 1..m /\ all[i] = t[i - n]
  BY <1>1, <1>2, <1>4
<1>6. ASSUME NEW i \in 1..(n + m), NEW k \in 1..(n + m), all[i].name = all[k].name PROVE i = k
  <2>1. CASE i <= n /\ k <= n
    BY <1>2, <1>5, <1>6, <2>1 DEF NamesDiffer
  <2>2. CASE i > n /\ k > n
    <3>1. i - n = k - n
      BY <1>2, <1>5, <1>6, <2>2 DEF NamesDiffer
    <3> QED BY <1>4, <3>1
  <2>3. CASE i <= n /\ k > n
    BY <1>2, <1>5, <1>6, <2>3
  <2>4. CASE i > n /\ k <= n
    BY <1>2, <1>5, <1>6, <2>4
  <2> QED BY <1>4, <2>1, <2>2, <2>3, <2>4
<1> QED BY <1>4, <1>6 DEF Distinct, DistinctNames

\* The patches keep the names of containers and of init containers apart.
LEMMA PatchesApart ==
    ASSUME NEW j \in Jobs, NEW ps \in Seq(PatchContainer), ValidNames(j), ValidPatches(j, ps)
    PROVE  (OwnNames(j) \cup PatchNames(ps, FALSE) \cup PatchNames(PluginPatch(j), FALSE))
              \cap (InitNames(j) \cup PatchNames(ps, TRUE) \cup PatchNames(PluginPatch(j), TRUE)) = {}
<1>1. PICK qs, T : qs = PluginPatch(j) /\ T = ToSet(ps) \cup ToSet(qs)
  OBVIOUS
<1>2. /\ \A p, q \in T : p.name = q.name => p.init = q.init
      /\ \A p \in T : p.init => p.name \notin OwnNames(j)
      /\ \A p \in T : ~p.init => p.name \notin InitNames(j)
  BY <1>1 DEF ValidPatches, OwnNames, InitNames, AgentContainerName, CheckoutContainerName,
              CopyAgentContainerName
<1>3. /\ \A x \in PatchNames(ps, FALSE) \cup PatchNames(qs, FALSE) :
            \E p \in T : p.name = x /\ p.init = FALSE
      /\ \A x \in PatchNames(ps, TRUE) \cup PatchNames(qs, TRUE) :
            \E p \in T : p.name = x /\ p.init = TRUE
  BY <1>1 DEF PatchNames, ToSet
<1>4. OwnNames(j) \cap InitNames(j) = {}
  BY NamesApart
<1>5. ASSUME NEW x \in PatchNames(ps, FALSE) \cup PatchNames(qs, FALSE)
      PROVE  x \notin InitNames(j) /\ x \notin PatchNames(ps, TRUE) \cup PatchNames(qs, TRUE)
  <2>1. PICK p \in T : p.name = x /\ p.init = FALSE
    BY <1>3, <1>5
  <2>2. x \notin InitNames(j)
    BY <1>2, <2>1
  <2>3. ASSUME x \in PatchNames(ps, TRUE) \cup PatchNames(qs, TRUE) PROVE FALSE
    <3>1. PICK q \in T : q.name = x /\ q.init = TRUE
      BY <1>3, <2>3
    <3>2. p.init = q.init
      BY <1>2, <2>1, <3>1
    <3> QED BY <2>1, <3>1, <3>2
  <2> QED BY <2>2, <2>3
<1>6. ASSUME NEW x \in PatchNames(ps, TRUE) \cup PatchNames(qs, TRUE) PROVE x \notin OwnNames(j)
  <2>1. PICK p \in T : p.name = x /\ p.init = TRUE
    BY <1>3, <1>6
  <2> QED BY <1>2, <2>1
<1> QED BY <1>1, <1>4, <1>5, <1>6

\* Containers with different names out of those given, and mounts that are in order.
Acceptable(ds, names, V) ==
    /\ ds \in Seq(PodContainer) /\ NamesDiffer(ds)
    /\ \A x \in 1..Len(ds) : ds[x].name \in names /\ Mounted(ds[x], V)

\* Patches and clean-up keep names distinct and mounts on volumes of the pod.
LEMMA FinalAcceptable ==
    ASSUME NEW as \in Seq(PodContainer), NEW cs, NEW ds \in Seq(PodContainer), NEW N, NEW M, NEW V, NEW I,
           NEW f, Extension(as, cs, N), NamesDiffer(as), \A i \in 1..Len(as) : as[i].name \in M,
           AllMountsIn(cs, V), ComesFrom(I, cs, ds, f)
    PROVE  Acceptable(ds, M \cup N, V)
<1>1. DOMAIN ds = 1..Len(ds) /\ Len(as) \in Nat /\ cs \in Seq(PodContainer) /\ Len(cs) \in Nat
  BY LenProperties DEF Extension
<1>2. /\ \A x, y \in 1..Len(ds) : f[x] = f[y] => x = y
      /\ \A x \in 1..Len(ds) : f[x] \in 1..Len(cs) /\ ds[x].name = cs[f[x]].name
                               /\ ds[x].mounts = Deduplicated(cs[f[x]].mounts)
  BY <1>1 DEF ComesFrom, SameButMounts
<1>3. \A i, k \in 1..Len(cs) : cs[i].name = cs[k].name => i = k
  BY ExtensionDistinct DEF NamesDiffer
<1>4. NamesDiffer(ds)
  BY <1>2, <1>3 DEF NamesDiffer
<1>5. ASSUME NEW k \in 1..Len(cs) PROVE cs[k].name \in M \cup N
  <2>1. CASE k \in 1..Len(as) /\ SameContainer(as[k], cs[k])
    BY <2>1 DEF SameContainer
  <2>2. CASE cs[k].name \in N
    BY <2>2
  <2> QED BY <1>5, <2>1, <2>2, OldOrNew
<1>6. ASSUME NEW x \in 1..Len(ds) PROVE ds[x].name \in M \cup N /\ Mounted(ds[x], V)
  <2>1. PICK k \in 1..Len(cs) : ds[x].name = cs[k].name /\ ds[x].mounts = Deduplicated(cs[k].mounts)
    BY <1>2, <1>6
  <2>2. ds[x].name \in M \cup N
    BY <1>5, <2>1
  <2>3. Mounted(ds[x], V)
    BY <2>1, MountsKept
  <2> QED BY <2>2, <2>3
<1> QED BY <1>4, <1>6 DEF Acceptable

\* The containers of the pod are acceptable.
LEMMA ContainersAcceptable ==
    ASSUME NEW w \in Configs, NEW j \in Jobs, NEW ps \in Seq(PatchContainer), NEW b,
           b = Build(w, j, ps), b.ok, ValidNames(j), ValidVolumes(w, j, ps)
    PROVE  Acceptable(b.pod.containers,
                      OwnNames(j) \cup (PatchNames(ps, FALSE) \cup PatchNames(PluginPatch(j), FALSE)),
                      ToSet(FinalVolumes(w, j)))
<1>1. PICK as, c, N : /\ as = Assembled(w, j).containers /\ c = Complete(w, j, ps)
                      /\ N = PatchNames(ps, FALSE) \cup PatchNames(PluginPatch(j), FALSE)
  OBVIOUS
<1>2. PICK cs : cs = c.containers
  OBVIOUS
<1>3. PICK ds, V : ds = PrepareVolumeMounts(Pick(cs, Kept(w, j, cs))) /\ V = ToSet(FinalVolumes(w, j))
  OBVIOUS
<1>4. /\ Extension(as, cs, N)
      /\ HasParts(b.pod, ds, PrepareVolumeMounts(c.init), FinalVolumes(w, j), managedContainerCount(w, j))
  BY <1>1, <1>2, <1>3, BuiltFrom
<1>5. b.pod.containers = ds /\ cs \in Seq(PodContainer)
  BY <1>4 DEF HasParts, Extension
<1>6. ds \in Seq(PodContainer) /\ \E f : ComesFrom(Kept(w, j, cs), cs, ds, f)
  BY <1>3, <1>5, FinalContainers
<1>7. PICK f : ComesFrom(Kept(w, j, cs), cs, ds, f)
  BY <1>6
<1>8. HasShape(w, j, as)
  BY <1>1, SettledShape
<1>9. NamesDiffer(as) /\ \A i \in 1..Len(as) : as[i].name \in OwnNames(j)
  BY <1>8, ShapeNames DEF NamesDiffer
<1>10. as \in Seq(PodContainer) /\ AllMountsIn(cs, V)
  <2>1. /\ Covers(V, w, j) /\ (~skipCheckout(w, j) => CoversCheckout(V, w, j))
        /\ PatchMountsIn(ps, V) /\ PatchMountsIn(PluginPatch(j), V)
    BY <1>3, VolumesCover
  <2>2. as \in Seq(PodContainer) /\ AllMountsIn(as, V)
    BY <1>8, <2>1 DEF HasShape, AllMountsIn
  <2>3. AllMountsIn(as, V) => AllMountsIn(cs, V)
    BY <1>1, <1>2, <2>1, BuiltFrom
  <2> QED BY <2>2, <2>3
<1>11. Acceptable(ds, OwnNames(j) \cup N, V)
  BY <1>4, <1>6, <1>7, <1>9, <1>10, FinalAcceptable
<1> QED BY <1>1, <1>3, <1>5, <1>11

\* The init containers of the pod are acceptable.
LEMMA InitAcceptable ==
    ASSUME NEW w \in Configs, NEW j \in Jobs, NEW ps \in Seq(PatchContainer), NEW b,
           b = Build(w, j, ps), b.ok, ValidNames(j), ValidVolumes(w, j, ps)
    PROVE  Acceptable(b.pod.init,
                      InitNames(j) \cup (PatchNames(ps, TRUE) \cup PatchNames(PluginPatch(j), TRUE)),
                      ToSet(FinalVolumes(w, j)))
<1>1. PICK is, c, N : /\ is = Assembled(w, j).init /\ c = Complete(w, j, ps)
                      /\ N = PatchNames(ps, TRUE) \cup PatchNames(PluginPatch(j), TRUE)
  OBVIOUS
<1>2. PICK cs : cs = c.init
  OBVIOUS
<1>3. PICK ds, V, es : /\ ds = PrepareVolumeMounts(cs) /\ V = ToSet(FinalVolumes(w, j))
                       /\ es = PrepareVolumeMounts(Pick(c.containers, Kept(w, j, c.containers)))
  OBVIOUS
<1>4. Extension(is, cs, N) /\ HasParts(b.pod, es, ds, FinalVolumes(w, j), managedContainerCount(w, j))
  BY <1>1, <1>2, <1>3, BuiltFrom
<1>5. b.pod.init = ds /\ cs \in Seq(PodContainer)
  BY <1>4 DEF HasParts, Extension
<1>6. /\ DOMAIN ds = 1..Len(cs) /\ ds \in Seq(PodContainer)
      /\ \A i \in 1..Len(cs) :
            /\ ds[i].name = cs[i].name /\ ds[i].image = cs[i].image /\ ds[i].policy = cs[i].policy
            /\ ds[i].entry = cs[i].entry /\ ds[i].command = cs[i].command /\ ds[i].id = cs[i].id
            /\ ds[i].mounts = Deduplicated(cs[i].mounts)
  BY <1>3, <1>5, PrepareFacts
<1>7. PICK f : f = [x \in DOMAIN ds |-> x]
  OBVIOUS
<1>8. \A x \in DOMAIN ds : f[x] = x
  BY <1>7
<1>9. \A x \in DOMAIN ds : x \in 1..Len(cs) /\ SameButMounts(cs[x], ds[x])
  BY <1>6 DEF SameButMounts
<1>10. ComesFrom(DOMAIN ds, cs, ds, f)
  BY <1>7, <1>8, <1>9 DEF ComesFrom
<1>11. HasInitShape(w, j, is)
  BY <1>1, InitShape
<1>12. NamesDiffer(is) /\ \A i \in 1..Len(is) : is[i].name \in InitNames(j)
  BY <1>11, InitShapeNames DEF NamesDiffer
<1>13. is \in Seq(PodContainer) /\ AllMountsIn(cs, V)
  <2>1. Covers(V, w, j) /\ PatchMountsIn(ps, V) /\ PatchMountsIn(PluginPatch(j), V)
    BY <1>3, VolumesCover
  <2>2. is \in Seq(PodContainer) /\ AllMountsIn(is, V)
    BY <1>11, <2>1 DEF HasInitShape, AllMountsIn
  <2>3. AllMountsIn(is, V) => AllMountsIn(cs, V)
    BY <1>1, <1>2, <2>1, BuiltFrom
  <2> QED BY <2>2, <2>3
<1>14. Acceptable(ds, InitNames(j) \cup N, V)
  BY <1>4, <1>6, <1>10, <1>12, <1>13, FinalAcceptable
<1> QED BY <1>1, <1>3, <1>5, <1>14

\* The two lists and the volumes fit together.
LEMMA BuildAccepted ==
    ASSUME NEW w \in Configs, NEW j \in Jobs, NEW ps \in Seq(PatchContainer), NEW b,
           b = Build(w, j, ps), b.ok, ValidNames(j), ValidVolumes(w, j, ps), ValidPatches(j, ps),
           NEW all, all = b.pod.init \o b.pod.containers
    PROVE  /\ Distinct([i \in DOMAIN all |-> all[i].name]) /\ Distinct(b.pod.volumes)
           /\ \A c \in ToSet(all) : Mounted(c, ToSet(b.pod.volumes))
<1>1. PICK N, M, V : /\ N = PatchNames(ps, FALSE) \cup PatchNames(PluginPatch(j), FALSE)
                     /\ M = PatchNames(ps, TRUE) \cup PatchNames(PluginPatch(j), TRUE)
                     /\ V = ToSet(FinalVolumes(w, j))
  OBVIOUS
<1>2. PICK s, t : s = b.pod.init /\ t = b.pod.containers
  OBVIOUS
<1>3. Acceptable(s, InitNames(j) \cup M, V)
  BY <1>1, <1>2, InitAcceptable
<1>4. Acceptable(t, OwnNames(j) \cup N, V)
  BY <1>1, <1>2, ContainersAcceptable
<1>5. (OwnNames(j) \cup N) \cap (InitNames(j) \cup M) = {}
  <2>1. (OwnNames(j) \cup PatchNames(ps, FALSE) \cup PatchNames(PluginPatch(j), FALSE))
           \cap (InitNames(j) \cup PatchNames(ps, TRUE) \cup PatchNames(PluginPatch(j), TRUE)) = {}
    BY PatchesApart
  <2> QED BY <1>1, <2>1
<1>6. /\ s \in Seq(PodContainer) /\ t \in Seq(PodContainer) /\ NamesDiffer(s) /\ NamesDiffer(t)
      /\ \A i \in 1..Len(s) : s[i].name \in InitNames(j) \cup M /\ Mounted(s[i], V)
      /\ \A i \in 1..Len(t) : t[i].name \in OwnNames(j) \cup N /\ Mounted(t[i], V)
  BY <1>3, <1>4 DEF Acceptable
<1>7. \A i \in 1..Len(s), k \in 1..Len(t) : s[i].name # t[k].name
  BY <1>5, <1>6
<1>8. DistinctNames(all)
  <2>1. all = s \o t
    BY <1>2
  <2> QED BY <1>6, <1>7, <2>1, NamesConcat
<1>9. ToSet(all) = ToSet(s) \cup ToSet(t)
  BY <1>2, <1>6, RangeConcat
<1>10. \A c \in ToSet(all) : Mounted(c, V)
  <2>1. \A c \in ToSet(s) : Mounted(c, V)
    BY <1>6, LenProperties DEF ToSet
  <2>2. \A c \in ToSet(t) : Mounted(c, V)
    BY <1>6, LenProperties DEF ToSet
  <2> QED BY <1>9, <2>1, <2>2
<1>11. b.pod.volumes = FinalVolumes(w, j)
  <2>1. PICK c, ds, es : /\ c = Complete(w, j, ps) /\ es = PrepareVolumeMounts(c.init)
                         /\ ds = PrepareVolumeMounts(Pick(c.containers, Kept(w, j, c.containers)))
    OBVIOUS
  <2>2. HasParts(b.pod, ds, es, FinalVolumes(w, j), managedContainerCount(w, j))
    BY <2>1, BuiltFrom
  <2> QED BY <2>2 DEF HasParts
<1>12. Distinct(FinalVolumes(w, j))
  BY VolumesDistinct, FinalVolumesFacts
<1> QED BY <1>1, <1>8, <1>10, <1>11, <1>12 DEF DistinctNames

\* Kubernetes accepts what is built from valid names, volumes and patches: container
\* names and volume names are distinct, and every mount has a volume and a path of
\* its own, whatever the podSpec, the params of controller and plugin, the defaults of
\* Build and both patches add.
THEOREM PodSpecAcceptedHolds == Spec => []PodSpecAccepted
<1>1. BuildInv => PodSpecAccepted
  <2> SUFFICES ASSUME BuildInv, out.ok, ValidNames(job), ValidVolumes(cfg, job, patch),
                      ValidPatches(job, patch), NEW all, all = out.pod.init \o out.pod.containers
               PROVE  /\ Distinct([i \in DOMAIN all |-> all[i].name]) /\ Distinct(out.pod.volumes)
                      /\ \A c \in ToSet(all) : Mounted(c, ToSet(out.pod.volumes))
    BY DEF PodSpecAccepted, Mounted
  <2>1. cfg \in Configs /\ job \in Jobs /\ patch \in Seq(PatchContainer) /\ out = Build(cfg, job, patch)
    BY DEF BuildInv
  <2> QED BY <2>1, BuildAccepted
<1> QED BY <1>1, BuildInvariant, PTL

-----------------------------------------------------------------------------
(* What the containers run. *)

\* The names of the scheduler's containers, which keep their commands.
Protected(init) ==
    IF init THEN {CopyAgentContainerName} \cup ToSet(ImageCheckNames)
    ELSE {AgentContainerName, CheckoutContainerName}

\* The patch p of the container at position i of the list it is about, the only
\* one of its name, and what becomes of it.
PatchOf(w, j, pod, list, i, p, q) ==
    /\ p \in PatchContainer /\ ~w.unsafe /\ ~Refused(w, pod, p) /\ q = MoveCommand(w, j, pod, p)
    /\ list = (IF p.init THEN pod.init ELSE pod.containers)
    /\ i \in DOMAIN list /\ list[i].name = p.name
    /\ \A k \in DOMAIN list : list[k].name = p.name => k = i

\* The patch modifies a container if it gives it another command line.
LEMMA ModifiesFacts ==
    ASSUME NEW w, NEW j, NEW pod, NEW list, NEW i, NEW p, NEW q, PatchOf(w, j, pod, list, i, p, q)
    PROVE  Modifies(pod, p) <=> p.cmd # "" /\ p.cmd # list[i].entry
<1>1. Named(list, p.name) = {i}
  BY DEF PatchOf, Named
<1>2. Modifies(pod, p) <=> p.cmd # "" /\ ~\E k \in Named(list, p.name) : list[k].entry = p.cmd
  BY DEF PatchOf, Modifies
<1> QED BY <1>1, <1>2

SameEntry(c, q) == q.cmd = "" \/ q.cmd = c.entry

\* A patch gives a container of the scheduler's own no other command.
LEMMA ProtectedLine ==
    ASSUME NEW w, NEW j, NEW pod, NEW list, NEW i, NEW p, NEW q, PatchOf(w, j, pod, list, i, p, q),
           p.name \in Protected(p.init)
    PROVE  SameEntry(list[i], q)
<1>1. ~Modifies(pod, p)
  <2>1. IF p.init THEN p.name = CopyAgentContainerName \/ p.name \in ToSet(ImageCheckNames)
        ELSE p.name \in {AgentContainerName, CheckoutContainerName}
    BY DEF Protected
  <2> QED BY <2>1 DEF PatchOf, Refused
<1>2. q = p
  BY <1>1 DEF PatchOf, MoveCommand, PatchesCommandContainer
<1>3. Modifies(pod, p) <=> p.cmd # "" /\ p.cmd # list[i].entry
  BY ModifiesFacts
<1> QED BY <1>1, <1>2, <1>3 DEF SameEntry

IsCommandPatch(c, p) ==
    ~p.init /\ p.name \notin Protected(FALSE) /\ c.entry = "bootstrap"

CommandMoved(w, j, p, q) ==
    /\ q.cmd = "" \/ q.cmd = "bootstrap"
    /\ p.cmd \notin {"", "bootstrap"} => q.command = Command(w, j, p.cmd)
    /\ p.cmd \in {"", "bootstrap"} => q.command = p.command

\* A patch of a command container changes no more than its command.
LEMMA CommandLine ==
    ASSUME NEW w, NEW j, NEW pod, NEW list, NEW i, NEW p, NEW q, PatchOf(w, j, pod, list, i, p, q),
           IsCommandPatch(list[i], p)
    PROVE  CommandMoved(w, j, p, q)
<1>1. Modifies(pod, p) <=> p.cmd \notin {"", "bootstrap"}
  <2>1. Modifies(pod, p) <=> p.cmd # "" /\ p.cmd # list[i].entry
    BY ModifiesFacts
  <2> QED BY <2>1 DEF IsCommandPatch
<1>2. CASE ~Modifies(pod, p)
  <2>1. q = p
    BY <1>2 DEF PatchOf, MoveCommand, PatchesCommandContainer
  <2> QED BY <1>1, <1>2, <2>1 DEF CommandMoved
<1>3. CASE Modifies(pod, p)
  <2>1. list = pod.containers /\ i \in Named(pod.containers, p.name)
    BY DEF PatchOf, Named, IsCommandPatch
  <2>2. PatchesCommandContainer(pod, p)
    BY <1>3, <2>1 DEF PatchesCommandContainer, Protected, IsCommandPatch
  <2>3. q = [p EXCEPT !.cmd = "", !.command = Command(w, j, p.cmd)] /\ p \in PatchContainer
    BY <2>2 DEF PatchOf, MoveCommand
  <2>4. q.cmd = "" /\ q.command = Command(w, j, p.cmd)
    BY <2>3 DEF PatchContainer
  <2> QED BY <1>1, <1>3, <2>4 DEF CommandMoved
<1> QED BY <1>2, <1>3

\* A field that the patch sets is what one of its containers says.
LEMMA LastSetAt ==
    ASSUME NEW ps \in Seq(PatchContainer), NEW init, NEW name, NEW field, NEW unset, NEW otherwise,
           NEW set, set = Setting(ps, init, name, field, unset), set # {}
    PROVE  \E k \in set : LastSet(ps, init, name, field, unset, otherwise) = ps[k][field]
<1>1. Max(set) \in set /\ LastSet(ps, init, name, field, unset, otherwise) = ps[Max(set)][field]
  BY LastSetFacts
<1> QED BY <1>1

\* No container of the patch gives the container c another entrypoint.
LeavesEntry(qs, init, c) ==
    \A k \in DOMAIN qs : qs[k].init = init /\ qs[k].name = c.name =>
        qs[k].cmd = "" \/ qs[k].cmd = c.entry

\* A patch that gives no other command line leaves what a container runs.
LEMMA EntryKept ==
    ASSUME NEW c \in PodContainer, NEW qs \in Seq(PatchContainer), NEW init, LeavesEntry(qs, init, c)
    PROVE  Merge(c, qs, init).entry = c.entry
<1>1. PICK set : set = Setting(qs, init, c.name, "cmd", "")
  OBVIOUS
<1>2. \A k \in set : k \in DOMAIN qs /\ qs[k].cmd = c.entry
  BY <1>1 DEF Setting, LeavesEntry
<1>3. Merge(c, qs, init).entry = LastSet(qs, init, c.name, "cmd", "", c.entry)
  BY MergeFacts
<1>4. CASE set = {}
  BY <1>1, <1>3, <1>4 DEF LastSet
<1>5. CASE set # {}
  <2>1. \E k \in set : LastSet(qs, init, c.name, "cmd", "", c.entry) = qs[k]["cmd"]
    <3>1. PICK field, unset, name, old : field = "cmd" /\ unset = "" /\ name = c.name /\ old = c.entry
      OBVIOUS
    <3>2. set = Setting(qs, init, name, field, unset)
      BY <1>1, <3>1
    <3>3. \E k \in set : LastSet(qs, init, name, field, unset, old) = qs[k][field]
      BY <1>5, <3>2, LastSetAt
    <3> QED BY <3>1, <3>3
  <2> QED BY <1>2, <1>3, <2>1
<1> QED BY <1>4, <1>5

\* The command is the one that the patch gives last, or else what it was.
HasGiven(ps, name, old, new) ==
    IF Giving(ps, name) = {} THEN new = old ELSE Gives(ps[Max(Giving(ps, name))], new)

\* The patch qs has in BUILDKITE_COMMAND what ps gives the named container.
Moved(ps, qs, name) ==
    /\ ps \in Seq(PatchContainer) /\ qs \in Seq(PatchContainer) /\ DOMAIN qs = DOMAIN ps
    /\ \A k \in DOMAIN ps : qs[k].init = ps[k].init /\ qs[k].name = ps[k].name
    /\ \A k \in DOMAIN ps : ~ps[k].init /\ ps[k].name = name =>
          /\ Gives(ps[k], qs[k].command)
          /\ ps[k].cmd \notin {"", "bootstrap"} => qs[k].command # NoCommand

\* Merging the rewritten patch leaves in BUILDKITE_COMMAND what was given last.
LEMMA CommandGiven ==
    ASSUME NEW c \in PodContainer, NEW ps, NEW qs, Moved(ps, qs, c.name)
    PROVE  HasGiven(ps, c.name, c.command, Merge(c, qs, FALSE).command)
<1>1. PICK set, name : name = c.name /\ set = Setting(qs, FALSE, name, "command", NoCommand)
  OBVIOUS
<1>2. set = Giving(ps, name)
  <2>1. \A k \in DOMAIN ps : ps[k].init \in BOOLEAN
    <3>1. ps \in Seq(PatchContainer)
      BY DEF Moved
    <3>2. \A k \in DOMAIN ps : ps[k] \in PatchContainer
      BY <3>1, ElementOfSeq, LenProperties
    <3> QED BY <3>2 DEF PatchContainer
  <2>2. \A k \in DOMAIN ps : ~ps[k].init /\ ps[k].name = name =>
           (qs[k].command # NoCommand <=>
              ps[k].cmd \notin {"", "bootstrap"} \/ ps[k].command # NoCommand)
    BY <1>1 DEF Moved, Gives
  <2>3. set = {k \in DOMAIN ps : ~ps[k].init /\ ps[k].name = name /\ qs[k].command # NoCommand}
    BY <1>1, <2>1 DEF Setting, Moved
  <2> QED BY <2>2, <2>3 DEF Giving
<1>3. Merge(c, qs, FALSE).command = LastSet(qs, FALSE, name, "command", NoCommand, c.command)
  BY <1>1, MergeFacts DEF Moved
<1>4. qs \in Seq(PatchContainer)
  BY DEF Moved
<1>5. CASE set = {}
  <2>1. LastSet(qs, FALSE, name, "command", NoCommand, c.command) = c.command
    BY <1>1, <1>5 DEF LastSet
  <2> QED BY <1>1, <1>2, <1>3, <1>5, <2>1 DEF HasGiven
<1>6. CASE set # {}
  <2>1. /\ Max(set) \in set
        /\ LastSet(qs, FALSE, name, "command", NoCommand, c.command) = qs[Max(set)]["command"]
    <3>1. PICK field, unset, init, old : /\ field = "command" /\ unset = NoCommand /\ init = FALSE
                                         /\ old = c.command
      OBVIOUS
    <3>2. set = Setting(qs, init, name, field, unset)
      BY <1>1, <3>1
    <3>3. Max(set) \in set /\ LastSet(qs, init, name, field, unset, old) = qs[Max(set)][field]
      BY <1>4, <1>6, <3>2, LastSetFacts
    <3> QED BY <3>1, <3>3
  <2>2. PICK k \in set : k = Max(set)
    BY <2>1
  <2>3. k \in DOMAIN ps /\ ~ps[k].init /\ ps[k].name = name
    BY <1>2, <2>2 DEF Giving
  <2>4. Gives(ps[k], qs[k].command)
    BY <1>1, <2>3 DEF Moved
  <2>5. Merge(c, qs, FALSE).command = qs[k].command
    BY <1>3, <2>1, <2>2
  <2> QED BY <1>1, <1>2, <1>6, <2>2, <2>4, <2>5 DEF HasGiven
<1> QED BY <1>5, <1>6

\* PatchPodSpec rewrites the patch ps to qs, and returns no error.
Stage(w, j, pod, ps, qs) ==
    /\ ~w.unsafe /\ ps \in Seq(PatchContainer) /\ ~PatchFails(w, pod, ps)
    /\ qs = Rewritten(w, j, pod, ps)

StageLine(w, j, pod, p, q) ==
    /\ p \in PatchContainer /\ ~Refused(w, pod, p) /\ q = MoveCommand(w, j, pod, p)
    /\ q.name = p.name /\ q.init = p.init

\* A rewritten patch has the lines of the given one, none of them refused.
LEMMA StageFacts ==
    ASSUME NEW w \in Configs, NEW j \in Jobs, NEW pod, NEW ps, NEW qs, Stage(w, j, pod, ps, qs)
    PROVE  /\ ps \in Seq(PatchContainer) /\ qs \in Seq(PatchContainer) /\ DOMAIN qs = DOMAIN ps
           /\ \A k \in DOMAIN ps : StageLine(w, j, pod, ps[k], qs[k])
<1>1. ps \in Seq(PatchContainer) /\ ~PatchFails(w, pod, ps) /\ qs = Rewritten(w, j, pod, ps)
  BY DEF Stage
<1>2. /\ qs \in Seq(PatchContainer) /\ Len(qs) = Len(ps)
      /\ \A i \in 1..Len(ps) :
            qs[i].name = ps[i].name /\ qs[i].init = ps[i].init /\ qs[i].image = ps[i].image
      /\ ~PatchFails(w, pod, ps) => \A i \in 1..Len(ps) : qs[i] = MoveCommand(w, j, pod, ps[i])
  BY <1>1, RewrittenFacts
<1>3. DOMAIN ps = 1..Len(ps) /\ DOMAIN qs = 1..Len(ps)
  BY <1>1, <1>2, LenProperties
<1>4. \A k \in DOMAIN ps : ps[k] \in PatchContainer
  BY <1>1, <1>3, ElementOfSeq
<1>5. \A k \in DOMAIN ps : ~Refused(w, pod, ps[k])
  BY <1>1 DEF PatchFails
<1>6. ASSUME NEW k \in DOMAIN ps PROVE StageLine(w, j, pod, ps[k], qs[k])
  BY <1>1, <1>2, <1>3, <1>4, <1>5 DEF StageLine
<1> QED BY <1>1, <1>2, <1>3, <1>6

\* A line of the patch for the container at position i.
LEMMA StagePatchOf ==
    ASSUME NEW w, NEW j, NEW pod, ~w.unsafe, NEW p, NEW q, StageLine(w, j, pod, p, q),
           NEW list \in Seq(PodContainer), list = (IF p.init THEN pod.init ELSE pod.containers),
           NamesDiffer(list), NEW i \in 1..Len(list), p.name = list[i].name
    PROVE  PatchOf(w, j, pod, list, i, p, q)
<1>1. DOMAIN list = 1..Len(list)
  BY LenProperties
<1>2. \A k \in 1..Len(list) : list[k].name = p.name => k = i
  BY DEF NamesDiffer
<1> QED BY <1>1, <1>2 DEF PatchOf, StageLine

\* The containers that the scheduler adds run what they did.
LEMMA ProtectedEntry ==
    ASSUME NEW w \in Configs, NEW j \in Jobs, NEW pod, NEW ps, NEW qs, Stage(w, j, pod, ps, qs),
           NEW init \in BOOLEAN, NEW list \in Seq(PodContainer),
           list = (IF init THEN pod.init ELSE pod.containers), NamesDiffer(list),
           NEW i \in 1..Len(list), list[i].name \in Protected(init)
    PROVE  Merge(list[i], qs, init).entry = list[i].entry
<1>1. PICK c \in PodContainer : c = list[i]
  BY ElementOfSeq
<1>2. /\ qs \in Seq(PatchContainer) /\ DOMAIN qs = DOMAIN ps /\ ~w.unsafe
      /\ \A k \in DOMAIN ps : StageLine(w, j, pod, ps[k], qs[k])
  BY StageFacts DEF Stage
<1>3. ASSUME NEW k \in DOMAIN qs, qs[k].init = init, qs[k].name = c.name
      PROVE  qs[k].cmd = "" \/ qs[k].cmd = c.entry
  <2>1. PICK p, q : p = ps[k] /\ q = qs[k]
    OBVIOUS
  <2>2. StageLine(w, j, pod, p, q)
    BY <1>2, <1>3, <2>1
  <2>3. p.init = init /\ p.name = list[i].name
    BY <1>1, <1>3, <2>1, <2>2 DEF StageLine
  <2>4. PatchOf(w, j, pod, list, i, p, q)
    BY <1>2, <2>2, <2>3, StagePatchOf
  <2>5. p.name \in Protected(p.init)
    BY <2>3
  <2>6. SameEntry(list[i], q)
    BY <2>4, <2>5, ProtectedLine
  <2> QED BY <1>1, <2>1, <2>6 DEF SameEntry
<1>4. LeavesEntry(qs, init, c)
  BY <1>3 DEF LeavesEntry
<1>5. Merge(c, qs, init).entry = c.entry
  BY <1>2, <1>4, EntryKept
<1> QED BY <1>1, <1>5

\* c is a command container, and d is it with what the patch gives it.
RunsBootstrap(c) == c.name \notin Protected(FALSE) /\ c.entry = "bootstrap"

IsGiven(ps, c, d) == d.entry = "bootstrap" /\ HasGiven(ps, c.name, c.command, d.command)

\* The command containers run kubernetes-bootstrap with what the patch gives them.
LEMMA CommandStage ==
    ASSUME NEW w \in Configs, NEW j \in Jobs, NEW pod, NEW ps, NEW qs, Stage(w, j, pod, ps, qs),
           NEW list \in Seq(PodContainer), list = pod.containers, NamesDiffer(list),
           NEW i \in 1..Len(list), RunsBootstrap(list[i])
    PROVE  IsGiven(ps, list[i], Merge(list[i], qs, FALSE))
<1>1. PICK c \in PodContainer : c = list[i]
  BY ElementOfSeq
<1>2. /\ qs \in Seq(PatchContainer) /\ DOMAIN qs = DOMAIN ps /\ ~w.unsafe
      /\ ps \in Seq(PatchContainer) /\ \A k \in DOMAIN ps : StageLine(w, j, pod, ps[k], qs[k])
  BY StageFacts DEF Stage
<1>3. ASSUME NEW k \in DOMAIN ps, ~ps[k].init, ps[k].name = c.name
      PROVE  /\ qs[k].cmd = "" \/ qs[k].cmd = "bootstrap"
             /\ Gives(ps[k], qs[k].command)
             /\ ps[k].cmd \notin {"", "bootstrap"} => qs[k].command # NoCommand
  <2>1. PICK p, q : p = ps[k] /\ q = qs[k]
    OBVIOUS
  <2>2. StageLine(w, j, pod, p, q) /\ p \in PatchContainer /\ p.cmd \in Text
    BY <1>2, <1>3, <2>1 DEF StageLine, PatchContainer
  <2>3. ~p.init /\ p.name = list[i].name
    BY <1>1, <1>3, <2>1
  <2>4. list = (IF p.init THEN pod.init ELSE pod.containers)
    BY <2>3
  <2>5. PatchOf(w, j, pod, list, i, p, q)
    BY <1>2, <2>2, <2>3, <2>4, StagePatchOf
  <2>6. IsCommandPatch(list[i], p)
    BY <2>3 DEF IsCommandPatch, RunsBootstrap
  <2>7. CommandMoved(w, j, p, q)
    BY <2>5, <2>6, CommandLine
  <2>8. /\ Len(Command(w, j, p.cmd)) = 2 /\ Command(w, j, p.cmd)[2] = p.cmd
        /\ Command(w, j, p.cmd) # NoCommand
    BY <2>2, CommandLines
  <2>9. CASE p.cmd \notin {"", "bootstrap"}
    BY <2>1, <2>7, <2>8, <2>9 DEF Gives, CommandMoved
  <2>10. CASE p.cmd \in {"", "bootstrap"}
    BY <2>1, <2>7, <2>10 DEF Gives, CommandMoved
  <2> QED BY <2>9, <2>10
<1>4. \A k \in DOMAIN ps : qs[k].init = ps[k].init /\ qs[k].name = ps[k].name
  BY <1>2 DEF StageLine
<1>5. Moved(ps, qs, c.name)
  BY <1>2, <1>3, <1>4 DEF Moved
<1>6. LeavesEntry(qs, FALSE, c)
  <2> SUFFICES ASSUME NEW k \in DOMAIN qs, qs[k].init = FALSE, qs[k].name = c.name
               PROVE  qs[k].cmd = "" \/ qs[k].cmd = c.entry
    BY DEF LeavesEntry
  <2>1. k \in DOMAIN ps /\ ~ps[k].init /\ ps[k].name = c.name
    BY <1>2, <1>4
  <2> QED BY <1>1, <1>3, <2>1 DEF RunsBootstrap
<1>7. Merge(c, qs, FALSE).entry = c.entry
  BY <1>2, <1>6, EntryKept
<1>8. HasGiven(ps, c.name, c.command, Merge(c, qs, FALSE).command)
  BY <1>5, CommandGiven
<1> QED BY <1>1, <1>7, <1>8 DEF IsGiven, RunsBootstrap

\* A pod b is built: the controller's patch ps is rewritten to qs and applied, then
\* the plugin's.
Built(w, j, ps, qs, b) ==
    /\ w \in Configs /\ j \in Jobs /\ ps \in Seq(PatchContainer) /\ qs \in Seq(PatchContainer)
    /\ ~w.unsafe /\ ValidNames(j)
    /\ qs = Rewritten(w, j, Assembled(w, j), ps) /\ ~PatchFails(w, Assembled(w, j), ps)
    /\ b = Build(w, j, qs) /\ b.ok

\* A successful build has accepted and rewritten both patches.
LEMMA BuildStages ==
    ASSUME NEW w, NEW j, NEW ps, NEW qs, NEW b, Built(w, j, ps, qs, b)
    PROVE  /\ Stage(w, j, Assembled(w, j), ps, qs)
           /\ Stage(w, j, Patched(w, j, qs), PluginPatch(j), OwnPatch(w, j, qs))
<1>1. /\ w \in Configs /\ j \in Jobs /\ ps \in Seq(PatchContainer) /\ qs \in Seq(PatchContainer)
      /\ ~w.unsafe /\ b = Build(w, j, qs) /\ b.ok
  BY DEF Built
<1>2. Stage(w, j, Assembled(w, j), ps, qs)
  BY DEF Built, Stage
<1>3. PICK p, c, own, given : /\ p = Patched(w, j, qs) /\ c = Complete(w, j, qs)
                              /\ own = OwnPatch(w, j, qs) /\ given = PluginPatch(j)
  OBVIOUS
<1>4. HasParts(c, c.containers, c.init, FinalVolumes(w, j), managedContainerCount(w, j))
  BY <1>1, <1>3, CompleteFacts
<1>5. ~PatchFails(w, p, own)
  BY <1>1, <1>3, <1>4, BuildFacts
<1>6. given \in Seq(PatchContainer) /\ own = Rewritten(w, j, p, given)
  BY <1>1, <1>3, GivenFacts DEF OwnPatch
<1>7. ~PatchFails(w, p, own) => ~PatchFails(w, p, given)
  BY <1>1, <1>6, RewrittenFacts
<1>8. Stage(w, j, p, given, own)
  BY <1>1, <1>5, <1>6, <1>7 DEF Stage
<1> QED BY <1>2, <1>3, <1>8

\* A patched list has the original containers where they were.
LEMMA StillThere ==
    ASSUME NEW as \in Seq(PodContainer), NEW hs, NEW N, Extension(as, hs, N), NEW i \in 1..Len(as)
    PROVE  hs \in Seq(PodContainer) /\ i \in 1..Len(hs) /\ hs[i].name = as[i].name /\ hs[i].id = as[i].id
<1>1. hs \in Seq(PodContainer) /\ Len(as) <= Len(hs) /\ SameContainer(as[i], hs[i])
  BY DEF Extension
<1>2. PICK n \in Nat, m \in Nat : n = Len(as) /\ m = Len(hs)
  BY <1>1, LenProperties
<1>3. n <= m /\ i \in 1..n
  BY <1>1, <1>2
<1>4. i \in 1..m
  BY <1>3
<1> QED BY <1>1, <1>2, <1>4 DEF SameContainer

\* The lists before, between and after the patches.
Lineage(as, hs, cs, N, M) ==
    /\ as \in Seq(PodContainer) /\ NamesDiffer(as)
    /\ hs \in Seq(PodContainer) /\ NamesDiffer(hs)
    /\ Extension(as, hs, N) /\ Extension(hs, cs, M)

\* Names stay distinct from one patch to the next.
LEMMA LineageFacts ==
    ASSUME NEW as \in Seq(PodContainer), NamesDiffer(as), NEW hs, NEW cs, NEW N, NEW M,
           Extension(as, hs, N), Extension(hs, cs, M)
    PROVE  Lineage(as, hs, cs, N, M)
<1>1. \A i, k \in 1..Len(hs) : hs[i].name = hs[k].name => i = k
  BY ExtensionDistinct DEF NamesDiffer
<1>2. hs \in Seq(PodContainer)
  BY DEF Extension
<1> QED BY <1>1, <1>2 DEF Lineage, NamesDiffer

\* Both lists go through both patches with distinct names.
LEMMA BuildLineage ==
    ASSUME NEW w, NEW j, NEW ps, NEW qs, NEW b, Built(w, j, ps, qs, b)
    PROVE  /\ Lineage(Assembled(w, j).containers, Patched(w, j, qs).containers,
                      Complete(w, j, qs).containers,
                      PatchNames(qs, FALSE), PatchNames(PluginPatch(j), FALSE))
           /\ Lineage(Assembled(w, j).init, Patched(w, j, qs).init, Complete(w, j, qs).init,
                      PatchNames(qs, TRUE), PatchNames(PluginPatch(j), TRUE))
<1>1. w \in Configs /\ j \in Jobs /\ qs \in Seq(PatchContainer) /\ ValidNames(j)
  BY DEF Built
<1>2. PICK a, p, c : a = Assembled(w, j) /\ p = Patched(w, j, qs) /\ c = Complete(w, j, qs)
  OBVIOUS
<1>3. /\ a.containers \in Seq(PodContainer) /\ a.init \in Seq(PodContainer)
      /\ Extension(a.containers, p.containers, PatchNames(qs, FALSE))
      /\ Extension(a.init, p.init, PatchNames(qs, TRUE))
  BY <1>1, <1>2, PatchedFacts
<1>4. /\ Extension(p.containers, c.containers, PatchNames(PluginPatch(j), FALSE))
      /\ Extension(p.init, c.init, PatchNames(PluginPatch(j), TRUE))
  BY <1>1, <1>2, CompleteFacts
<1>5. NamesDiffer(a.containers)
  <2>1. HasShape(w, j, a.containers)
    BY <1>1, <1>2, SettledShape
  <2> QED BY <1>1, <2>1, ShapeNames DEF NamesDiffer
<1>6. NamesDiffer(a.init)
  <2>1. HasInitShape(w, j, a.init)
    BY <1>1, <1>2, InitShape
  <2> QED BY <1>1, <2>1, InitShapeNames DEF NamesDiffer
<1>7. Lineage(a.containers, p.containers, c.containers,
              PatchNames(qs, FALSE), PatchNames(PluginPatch(j), FALSE))
  BY <1>3, <1>4, <1>5, LineageFacts
<1>8. Lineage(a.init, p.init, c.init, PatchNames(qs, TRUE), PatchNames(PluginPatch(j), TRUE))
  BY <1>3, <1>4, <1>6, LineageFacts
<1> QED BY <1>2, <1>7, <1>8

\* The patches leave what the containers of the scheduler's own run.
RunsSame(c, d) == d.entry = c.entry

\* So the agent and checkout containers run what they were to run.
LEMMA SystemRuns ==
    ASSUME NEW w, NEW j, NEW ps, NEW qs, NEW b, Built(w, j, ps, qs, b), NEW as, NEW cs,
           as = Assembled(w, j).containers, cs = Complete(w, j, qs).containers,
           NEW i \in 1..Len(as), as[i].name \in Protected(FALSE)
    PROVE  RunsSame(as[i], cs[i])
<1>1. w \in Configs /\ j \in Jobs /\ qs \in Seq(PatchContainer)
  BY DEF Built
<1>2. PICK a, p, hs, given, own, init : /\ a = Assembled(w, j) /\ p = Patched(w, j, qs)
                                  /\ hs = p.containers /\ given = PluginPatch(j)
                                  /\ own = OwnPatch(w, j, qs) /\ init = FALSE
  OBVIOUS
<1>3. Stage(w, j, a, ps, qs) /\ Stage(w, j, p, given, own)
  BY <1>2, BuildStages
<1>4. PICK N, M : Lineage(as, hs, cs, N, M)
  BY <1>2, BuildLineage
<1>5. /\ as \in Seq(PodContainer) /\ NamesDiffer(as) /\ hs \in Seq(PodContainer) /\ NamesDiffer(hs)
      /\ Extension(as, hs, N)
  BY <1>4 DEF Lineage
<1>6. i \in 1..Len(hs) /\ hs[i].name = as[i].name
  BY <1>5, StillThere
<1>7. Commanded(as, hs, qs)
  BY <1>1, <1>2, PatchedFacts
<1>8. Merged(hs, cs, own, FALSE)
  BY <1>1, <1>2, CompleteFacts
<1>9. Merge(as[i], qs, FALSE).entry = as[i].entry
  <2>1. init \in BOOLEAN /\ as = (IF init THEN a.init ELSE a.containers) /\ as[i].name \in Protected(init)
    BY <1>2
  <2>2. Merge(as[i], qs, init).entry = as[i].entry
    BY <1>1, <1>3, <1>5, <2>1, ProtectedEntry
  <2> QED BY <1>2, <2>2
<1>10. Merge(hs[i], own, FALSE).entry = hs[i].entry
  <2>1. init \in BOOLEAN /\ hs = (IF init THEN p.init ELSE p.containers) /\ hs[i].name \in Protected(init)
    BY <1>2, <1>6
  <2>2. Merge(hs[i], own, init).entry = hs[i].entry
    BY <1>1, <1>3, <1>5, <1>6, <2>1, ProtectedEntry
  <2> QED BY <1>2, <2>2
<1>11. hs[i].entry = as[i].entry
  BY <1>7, <1>9 DEF Commanded
<1>12. cs[i].entry = hs[i].entry
  BY <1>6, <1>8, <1>10 DEF Merged
<1> QED BY <1>11, <1>12 DEF RunsSame

\* So do the copy-agent and image check containers.
LEMMA InitRuns ==
    ASSUME NEW w, NEW j, NEW ps, NEW qs, NEW b, Built(w, j, ps, qs, b), NEW is, NEW js,
           is = Assembled(w, j).init, js = Complete(w, j, qs).init,
           NEW i \in 1..Len(is), is[i].name \in Protected(TRUE)
    PROVE  RunsSame(is[i], js[i])
<1>1. w \in Configs /\ j \in Jobs /\ qs \in Seq(PatchContainer)
  BY DEF Built
<1>2. PICK a, p, hs, given, own, init : /\ a = Assembled(w, j) /\ p = Patched(w, j, qs)
                                  /\ hs = p.init /\ given = PluginPatch(j)
                                  /\ own = OwnPatch(w, j, qs) /\ init = TRUE
  OBVIOUS
<1>3. Stage(w, j, a, ps, qs) /\ Stage(w, j, p, given, own)
  BY <1>2, BuildStages
<1>4. PICK N, M : Lineage(is, hs, js, N, M)
  BY <1>2, BuildLineage
<1>5. /\ is \in Seq(PodContainer) /\ NamesDiffer(is) /\ hs \in Seq(PodContainer) /\ NamesDiffer(hs)
      /\ Extension(is, hs, N)
  BY <1>4 DEF Lineage
<1>6. i \in 1..Len(hs) /\ hs[i].name = is[i].name
  BY <1>5, StillThere
<1>7. Merged(is, hs, qs, TRUE) /\ Merged(hs, js, own, TRUE)
  BY <1>1, <1>2, InitStages
<1>8. Merge(is[i], qs, TRUE).entry = is[i].entry
  <2>1. init \in BOOLEAN /\ is = (IF init THEN a.init ELSE a.containers) /\ is[i].name \in Protected(init)
    BY <1>2
  <2>2. Merge(is[i], qs, init).entry = is[i].entry
    BY <1>1, <1>3, <1>5, <2>1, ProtectedEntry
  <2> QED BY <1>2, <2>2
<1>9. Merge(hs[i], own, TRUE).entry = hs[i].entry
  <2>1. init \in BOOLEAN /\ hs = (IF init THEN p.init ELSE p.containers) /\ hs[i].name \in Protected(init)
    BY <1>2, <1>6
  <2>2. Merge(hs[i], own, init).entry = hs[i].entry
    BY <1>1, <1>3, <1>5, <1>6, <2>1, ProtectedEntry
  <2> QED BY <1>2, <2>2
<1>10. hs[i].entry = is[i].entry
  BY <1>7, <1>8 DEF Merged
<1>11. js[i].entry = hs[i].entry
  BY <1>6, <1>7, <1>9 DEF Merged
<1> QED BY <1>10, <1>11 DEF RunsSame

\* A command container runs kubernetes-bootstrap with the command that the plugin's
\* patch gives it, or else the controller's, or else its own.
LEMMA CommandRuns ==
    ASSUME NEW w, NEW j, NEW ps, NEW qs, NEW b, Built(w, j, ps, qs, b), NEW as, NEW cs,
           as = Assembled(w, j).containers, cs = Complete(w, j, qs).containers,
           NEW i \in 1..Len(as), RunsBootstrap(as[i])
    PROVE  \E between : IsGiven(ps, as[i], between) /\ IsGiven(PluginPatch(j), between, cs[i])
                        /\ between.name = as[i].name
<1>1. w \in Configs /\ j \in Jobs /\ qs \in Seq(PatchContainer)
  BY DEF Built
<1>2. PICK a, p, hs, given, own : /\ a = Assembled(w, j) /\ p = Patched(w, j, qs)
                                  /\ hs = p.containers /\ given = PluginPatch(j)
                                  /\ own = OwnPatch(w, j, qs)
  OBVIOUS
<1>3. Stage(w, j, a, ps, qs) /\ Stage(w, j, p, given, own)
  BY <1>2, BuildStages
<1>4. PICK N, M : Lineage(as, hs, cs, N, M)
  BY <1>2, BuildLineage
<1>5. /\ as \in Seq(PodContainer) /\ NamesDiffer(as) /\ hs \in Seq(PodContainer) /\ NamesDiffer(hs)
      /\ Extension(as, hs, N)
  BY <1>4 DEF Lineage
<1>6. i \in 1..Len(hs) /\ hs[i].name = as[i].name
  BY <1>5, StillThere
<1>7. Commanded(as, hs, qs)
  BY <1>1, <1>2, PatchedFacts
<1>8. Merged(hs, cs, own, FALSE)
  BY <1>1, <1>2, CompleteFacts
<1>9. as = a.containers /\ hs = p.containers
  BY <1>2
<1>10. IsGiven(ps, as[i], Merge(as[i], qs, FALSE))
  BY <1>1, <1>3, <1>5, <1>9, CommandStage
<1>11. IsGiven(ps, as[i], hs[i])
  BY <1>7, <1>10 DEF Commanded, IsGiven
<1>12. RunsBootstrap(hs[i])
  BY <1>6, <1>11 DEF IsGiven, RunsBootstrap
<1>13. IsGiven(given, hs[i], Merge(hs[i], own, FALSE))
  BY <1>1, <1>3, <1>5, <1>6, <1>9, <1>12, CommandStage
<1>14. cs[i] = Merge(hs[i], own, FALSE)
  BY <1>6, <1>8 DEF Merged
<1> QED BY <1>2, <1>6, <1>11, <1>13, <1>14

\* The last command given is the one in BUILDKITE_COMMAND.
LEMMA LastGivenFacts ==
    ASSUME NEW w \in Configs, NEW j \in Jobs, NEW ps, NEW i \in 1..Len(CommandNames(j)), NEW name,
           NEW between, NEW command, HasGiven(ps, name, CommandOf(w, j, i), between),
           HasGiven(PluginPatch(j), name, between, command)
    PROVE  LastGiven(j, ps, name, i, command)
<1>1. PICK own, given, old : /\ own = PluginPatch(j) /\ given = Given(j, "containers", <<>>)
                             /\ old = CommandOf(w, j, i)
  OBVIOUS
<1>2. CASE Giving(own, name) # {}
  BY <1>1, <1>2 DEF LastGiven, HasGiven
<1>3. CASE Giving(own, name) = {} /\ Giving(ps, name) # {}
  BY <1>1, <1>3 DEF LastGiven, HasGiven
<1>4. CASE Giving(own, name) = {} /\ Giving(ps, name) = {}
  <2>1. command = old
    BY <1>1, <1>4 DEF HasGiven
  <2>2. CASE given = <<>> \/ given[i].cmd = ""
    <3>1. command = StepCommand
      BY <1>1, <2>1, <2>2 DEF CommandOf
    <3> QED BY <1>1, <1>4, <2>2, <3>1 DEF LastGiven
  <2>3. CASE ~(given = <<>> \/ given[i].cmd = "")
    <3>1. command = Command(w, j, given[i].cmd)
      BY <1>1, <2>1, <2>3 DEF CommandOf
    <3>2. given \in Seq(UserContainer) /\ Len(CommandNames(j)) = Len(given)
      BY <1>1, <2>3, GivenFacts, NamesFacts
    <3>3. given[i] \in UserContainer
      BY <3>2, ElementOfSeq
    <3>4. given[i].cmd \in Text
      BY <3>3 DEF UserContainer
    <3>5. Len(command) = 2 /\ command[2] = given[i].cmd
      BY <3>1, <3>4, CommandLines
    <3> QED BY <1>1, <1>4, <2>3, <3>5 DEF LastGiven
  <2> QED BY <2>2, <2>3
<1> QED BY <1>2, <1>3, <1>4

\* What the containers of the pod run.
ContainerRuns(w, j, ps, c) ==
    /\ c.name = AgentContainerName => c.entry = "agent start"
    /\ c.name = CheckoutContainerName => c.entry = "checkout"
    /\ c.id # NoId /\ c.name # CheckoutContainerName =>
          /\ c.entry = "bootstrap"
          /\ LastGiven(j, ps, c.name, c.id + 1 - systemContainerCount(w, j), c.command)

\* The containers of the pod are those of cs but for the mounts.
LEMMA FinalOrigin ==
    ASSUME NEW w, NEW j, NEW ps, NEW qs, NEW b, Built(w, j, ps, qs, b),
           NEW cs, cs = Complete(w, j, qs).containers, NEW x \in DOMAIN b.pod.containers
    PROVE  \E k \in 1..Len(cs) :
              /\ SameButMounts(cs[k], b.pod.containers[x])
              /\ skipCheckout(w, j) => cs[k].name # CheckoutContainerName
<1>1. w \in Configs /\ j \in Jobs /\ qs \in Seq(PatchContainer) /\ b = Build(w, j, qs) /\ b.ok
  BY DEF Built
<1>2. PICK c : c = Complete(w, j, qs)
  OBVIOUS
<1>3. PICK ds, es, as, N : /\ ds = PrepareVolumeMounts(Pick(cs, Kept(w, j, cs)))
                        /\ es = PrepareVolumeMounts(c.init) /\ as = Assembled(w, j).containers
                        /\ N = PatchNames(qs, FALSE) \cup PatchNames(PluginPatch(j), FALSE)
  OBVIOUS
<1>4. Extension(as, cs, N) /\ HasParts(b.pod, ds, es, FinalVolumes(w, j), managedContainerCount(w, j))
  BY <1>1, <1>2, <1>3, BuiltFrom
<1>5. b.pod.containers = ds /\ cs \in Seq(PodContainer)
  BY <1>4 DEF HasParts, Extension
<1>6. PICK f : ComesFrom(Kept(w, j, cs), cs, ds, f)
  BY <1>1, <1>3, <1>5, FinalContainers
<1>7. PICK k : k = f[x]
  OBVIOUS
<1>8. k \in Kept(w, j, cs) /\ k \in 1..Len(cs) /\ SameButMounts(cs[k], ds[x])
  BY <1>5, <1>6, <1>7 DEF ComesFrom
<1>9. skipCheckout(w, j) => cs[k].name # CheckoutContainerName
  BY <1>8 DEF Kept
<1> QED BY <1>5, <1>8, <1>9

\* The containers of the scheduler's own are where they were.
LEMMA OriginalPosition ==
    ASSUME NEW as, NEW hs, NEW cs, NEW N, NEW M, Lineage(as, hs, cs, N, M),
           NEW i \in 1..Len(as), NEW k \in 1..Len(cs), cs[k].name = as[i].name
    PROVE  k = i
<1>1. /\ as \in Seq(PodContainer) /\ NamesDiffer(as) /\ hs \in Seq(PodContainer) /\ NamesDiffer(hs)
      /\ Extension(as, hs, N) /\ Extension(hs, cs, M)
  BY DEF Lineage
<1>2. i \in 1..Len(hs) /\ hs[i].name = as[i].name
  BY <1>1, StillThere
<1>3. /\ hs \in Seq(PodContainer) /\ Extension(hs, cs, M) /\ i \in 1..Len(hs)
      /\ k \in 1..Len(cs) /\ cs[k].name = hs[i].name
  BY <1>1, <1>2
<1>4. k \in 1..Len(hs) /\ hs[k].name = hs[i].name
  BY <1>3, ExtensionNames
<1> QED BY <1>1, <1>2, <1>4 DEF NamesDiffer

\* Every container of the patched pod runs what it should.
LEMMA CompleteRuns ==
    ASSUME NEW w, NEW j, NEW ps, NEW qs, NEW b, Built(w, j, ps, qs, b),
           NEW cs, cs = Complete(w, j, qs).containers, NEW k \in 1..Len(cs),
           skipCheckout(w, j) => cs[k].name # CheckoutContainerName
    PROVE  ContainerRuns(w, j, ps, cs[k])
<1>1. w \in Configs /\ j \in Jobs /\ qs \in Seq(PatchContainer) /\ ValidNames(j)
  BY DEF Built
<1>2. PICK as, hs : as = Assembled(w, j).containers /\ hs = Patched(w, j, qs).containers
  OBVIOUS
<1>3. PICK N, M : Lineage(as, hs, cs, N, M)
  BY <1>2, BuildLineage
<1>4. PICK n, s : n = Len(CommandNames(j)) /\ s = systemContainerCount(w, j)
  OBVIOUS
<1>5. HasShape(w, j, as)
  BY <1>1, <1>2, SettledShape
<1>6. /\ as \in Seq(PodContainer) /\ hs \in Seq(PodContainer)
      /\ Extension(as, hs, N) /\ Extension(hs, cs, M)
  BY <1>3 DEF Lineage
<1>7. Extension(as, cs, N \cup M)
  BY <1>6, ExtensionTransitive
<1>8. n \in Nat /\ s \in 0..1 /\ HaveIds(j, cs, n, s)
  BY <1>1, <1>4, <1>5, <1>7, ManagedIds
<1>9. /\ Len(as) = n + 1 + s
      /\ \A i \in 1..n : IsCommandContainer(w, j, i, as[i])
      /\ IsSystemContainer(as[n + 1], AgentContainerName, NoId, "agent start")
      /\ s = 1 => IsSystemContainer(as[n + 2], CheckoutContainerName, 0, "checkout")
  BY <1>4, <1>5 DEF HasShape
<1>10. PICK l : l = Len(as) /\ l = n + 1 + s
  BY <1>9
<1>11. n + 1 \in 1..l /\ (s = 1 => n + 2 \in 1..l) /\ \A i \in 1..n : i \in 1..l
  <2>1. n \in Nat /\ s \in 0..1 /\ l = n + 1 + s
    BY <1>8, <1>10
  <2> QED BY <2>1
<1>12. ASSUME NEW i \in 1..l, as[i].name \in Protected(FALSE), cs[k].name = as[i].name
       PROVE  cs[k].entry = as[i].entry
  <2>1. k = i
    BY <1>3, <1>10, <1>12, OriginalPosition
  <2>2. i \in 1..Len(as) /\ as = Assembled(w, j).containers /\ as[i].name \in Protected(FALSE)
    BY <1>2, <1>10, <1>12
  <2>3. RunsSame(as[i], cs[i])
    BY <2>2, SystemRuns
  <2> QED BY <2>1, <2>3 DEF RunsSame
<1>13. ASSUME cs[k].name = AgentContainerName PROVE cs[k].entry = "agent start"
  <2>1. PICK i \in 1..l : i = n + 1
    BY <1>11
  <2>2. as[i].name = AgentContainerName /\ as[i].entry = "agent start"
    BY <1>9, <2>1 DEF IsSystemContainer
  <2>3. as[i].name \in Protected(FALSE) /\ cs[k].name = as[i].name
    BY <1>13, <2>2 DEF Protected
  <2> QED BY <1>12, <2>2, <2>3
<1>14. ASSUME cs[k].name = CheckoutContainerName PROVE cs[k].entry = "checkout"
  <2>1. s = 1
    BY <1>4, <1>14 DEF systemContainerCount
  <2>2. PICK i \in 1..l : i = n + 2
    BY <1>11, <2>1
  <2>3. as[i].name = CheckoutContainerName /\ as[i].entry = "checkout"
    BY <1>9, <2>1, <2>2 DEF IsSystemContainer
  <2>4. as[i].name \in Protected(FALSE) /\ cs[k].name = as[i].name
    BY <1>14, <2>3 DEF Protected
  <2> QED BY <1>12, <2>3, <2>4
<1>15. ASSUME cs[k].id # NoId, cs[k].name # CheckoutContainerName
       PROVE  cs[k].entry = "bootstrap" /\ LastGiven(j, ps, cs[k].name, cs[k].id + 1 - s, cs[k].command)
  <2>1. k \in 1..n /\ cs[k].name = CommandNames(j)[k] /\ cs[k].id = k - 1 + s
    BY <1>8, <1>15 DEF HaveIds
  <2>2. IsCommandContainer(w, j, k, as[k]) /\ k \in 1..l
    BY <1>9, <1>11, <2>1
  <2>3. as[k].name = cs[k].name /\ as[k].entry = "bootstrap" /\ as[k].command = CommandOf(w, j, k)
    BY <2>1, <2>2 DEF IsCommandContainer
  <2>4. cs[k].name \notin Protected(FALSE)
    <3>1. ToSet(CommandNames(j)) \cap (Reserved \cup ToSet(ImageCheckNames)) = {}
      BY <1>1, ValidNamesFacts
    <3>2. cs[k].name \in ToSet(CommandNames(j))
      BY <1>1, <1>4, <2>1, NamesFacts, LenProperties DEF ToSet
    <3> QED BY <3>1, <3>2 DEF Protected, Reserved
  <2>5. PICK between : /\ IsGiven(ps, as[k], between) /\ IsGiven(PluginPatch(j), between, cs[k])
                       /\ between.name = as[k].name
    <3>1. RunsBootstrap(as[k]) /\ k \in 1..Len(as)
      BY <1>10, <2>2, <2>3, <2>4 DEF RunsBootstrap
    <3> QED BY <1>2, <3>1, CommandRuns
  <2>6. PICK name, command, old : name = cs[k].name /\ command = cs[k].command /\ old = between.command
    OBVIOUS
  <2>7. /\ HasGiven(ps, name, CommandOf(w, j, k), old) /\ HasGiven(PluginPatch(j), name, old, command)
        /\ cs[k].entry = "bootstrap"
    BY <2>3, <2>5, <2>6 DEF IsGiven
  <2>8. k \in 1..Len(CommandNames(j))
    BY <1>4, <2>1
  <2>9. LastGiven(j, ps, name, k, command)
    BY <1>1, <2>7, <2>8, LastGivenFacts
  <2>10. cs[k].id + 1 - s = k
    BY <1>8, <2>1
  <2> QED BY <2>6, <2>7, <2>9, <2>10
<1> QED BY <1>4, <1>13, <1>14, <1>15 DEF ContainerRuns

\* What the init containers of the pod run.
InitContainerRuns(w, j, c) ==
    /\ c.name = CopyAgentContainerName => c.entry = "setup"
    /\ c.name \in ToSet(ImageCheckNames) /\ Named(Assembled(w, j).init, c.name) # {} =>
          c.entry = "check"

\* An init container with the name of an image check is one.
LEMMA CheckEntry ==
    ASSUME NEW w \in Configs, NEW j \in Jobs, ValidNames(j), NEW is, HasInitShape(w, j, is),
           NEW i \in 1..Len(is), is[i].name \in ToSet(ImageCheckNames)
    PROVE  is[i].entry = "check"
<1>1. PICK m, q, names : m = Len(ImageChecks(w, j)) /\ q = Len(podSpecInitNames(j)) /\ names = podSpecInitNames(j)
  OBVIOUS
<1>2. /\ m \in 0..Len(ImageCheckNames) /\ q \in Nat /\ Len(is) = 1 + m + q
      /\ is[1].name = CopyAgentContainerName
  BY <1>1 DEF HasInitShape, IsSystemContainer
<1>3. /\ \A k \in 1..m : is[1 + k].entry = "check"
      /\ \A k \in 1..q : is[1 + m + k].name = names[k]
  BY <1>1 DEF HasInitShape
<1>4. DOMAIN names = 1..q /\ Len(ImageCheckNames) \in Nat
  BY <1>1, NamesFacts, NamesAssumption, LenProperties
<1>5. m \in Nat /\ q \in Nat /\ i \in 1..(1 + m + q)
  BY <1>2, <1>4
<1>6. \/ i = 1 \/ (i - 1 \in 1..m /\ i = 1 + (i - 1))
      \/ (i - (1 + m) \in 1..q /\ i = 1 + m + (i - (1 + m)))
  BY <1>5
<1>7. /\ ToSet(names) \cap (Reserved \cup ToSet(ImageCheckNames)) = {}
      /\ ToSet(ImageCheckNames) \cap Reserved = {}
  BY <1>1, ValidNamesFacts
<1>8. CASE i = 1
  BY <1>2, <1>7, <1>8 DEF Reserved
<1>9. CASE \E k \in 1..m : i = 1 + k
  BY <1>3, <1>9
<1>10. CASE \E k \in 1..q : i = 1 + m + k
  <2>1. PICK k \in 1..q : i = 1 + m + k
    BY <1>10
  <2>2. is[i].name = names[k]
    BY <1>3, <2>1
  <2>3. is[i].name \in ToSet(names)
    BY <1>4, <2>2 DEF ToSet
  <2> QED BY <1>7, <2>3
<1> QED BY <1>6, <1>8, <1>9, <1>10

\* Every init container of the final pod runs what it should.
LEMMA FinalInitRuns ==
    ASSUME NEW w, NEW j, NEW ps, NEW qs, NEW b, Built(w, j, ps, qs, b), NEW x \in DOMAIN b.pod.init
    PROVE  InitContainerRuns(w, j, b.pod.init[x])
<1>1. w \in Configs /\ j \in Jobs /\ qs \in Seq(PatchContainer) /\ b = Build(w, j, qs) /\ b.ok
      /\ ValidNames(j)
  BY DEF Built
<1>2. PICK c, ds, es, is, hs, js : /\ c = Complete(w, j, qs) /\ es = PrepareVolumeMounts(c.init)
            /\ ds = PrepareVolumeMounts(Pick(c.containers, Kept(w, j, c.containers)))
            /\ is = Assembled(w, j).init /\ hs = Patched(w, j, qs).init /\ js = c.init
  OBVIOUS
<1>3. HasParts(b.pod, ds, es, FinalVolumes(w, j), managedContainerCount(w, j))
  BY <1>1, <1>2, BuiltFrom
<1>4. PICK N, M : Lineage(is, hs, js, N, M)
  BY <1>2, BuildLineage
<1>5. js \in Seq(PodContainer) /\ es = PrepareVolumeMounts(js) /\ b.pod.init = es
  BY <1>2, <1>3, <1>4 DEF Lineage, Extension, HasParts
<1>6. PICK d : d = b.pod.init[x]
  OBVIOUS
<1>7. x \in 1..Len(js) /\ d.name = js[x].name /\ d.entry = js[x].entry
  BY <1>5, <1>6, PrepareFacts
<1>8. HasInitShape(w, j, is)
  BY <1>1, <1>2, InitShape
<1>9. ASSUME NEW i \in 1..Len(is), is[i].name = d.name, d.name \in Protected(TRUE)
      PROVE  d.entry = is[i].entry
  <2>1. js[x].name = is[i].name
    BY <1>7, <1>9
  <2>2. x = i
    BY <1>4, <1>7, <2>1, OriginalPosition
  <2>3. js = Complete(w, j, qs).init /\ is = Assembled(w, j).init /\ is[i].name \in Protected(TRUE)
    BY <1>2, <1>9
  <2>4. RunsSame(is[i], js[i])
    BY <2>3, InitRuns
  <2> QED BY <1>7, <2>2, <2>4 DEF RunsSame
<1>10. ASSUME d.name = CopyAgentContainerName PROVE d.entry = "setup"
  <2>1. Len(is) >= 1 /\ is[1].name = CopyAgentContainerName /\ is[1].entry = "setup"
    <3>1. PICK m, q, l : m = Len(ImageChecks(w, j)) /\ q = Len(podSpecInitNames(j)) /\ l = Len(ImageCheckNames)
      OBVIOUS
    <3>2. m \in 0..l /\ q \in Nat /\ Len(is) = 1 + m + q
      BY <1>8, <3>1 DEF HasInitShape
    <3>3. IsSystemContainer(is[1], CopyAgentContainerName, NoId, "setup")
      BY <1>8 DEF HasInitShape
    <3>4. l \in Nat
      BY <3>1, NamesAssumption, LenProperties
    <3> QED BY <3>2, <3>3, <3>4 DEF IsSystemContainer
  <2>2. PICK i \in 1..Len(is) : i = 1
    <3>1. is \in Seq(PodContainer)
      BY <1>8 DEF HasInitShape
    <3>2. PICK l \in Nat : l = Len(is)
      BY <3>1, LenProperties
    <3>3. 1 \in 1..l
      BY <2>1, <3>2
    <3> QED BY <3>2, <3>3
  <2>3. is[i].name = d.name /\ d.name \in Protected(TRUE) /\ is[i].entry = "setup"
    BY <1>10, <2>1, <2>2 DEF Protected
  <2> QED BY <1>9, <2>3
<1>11. ASSUME d.name \in ToSet(ImageCheckNames), Named(is, d.name) # {} PROVE d.entry = "check"
  <2>1. DOMAIN is = 1..Len(is)
    BY <1>8, LenProperties DEF HasInitShape
  <2>2. PICK i \in 1..Len(is) : is[i].name = d.name
    BY <1>11, <2>1 DEF Named
  <2>3. d.name \in Protected(TRUE)
    BY <1>11 DEF Protected
  <2>4. d.entry = is[i].entry
    BY <1>9, <2>2, <2>3
  <2>5. is[i].name \in ToSet(ImageCheckNames)
    BY <1>11, <2>2
  <2>6. is[i].entry = "check"
    BY <1>1, <1>8, <2>5, CheckEntry
  <2> QED BY <2>4, <2>6
<1> QED BY <1>2, <1>6, <1>10, <1>11 DEF InitContainerRuns

\* Every container of the final pod runs what it should.
LEMMA FinalRuns ==
    ASSUME NEW w, NEW j, NEW ps, NEW qs, NEW b, Built(w, j, ps, qs, b), NEW x \in DOMAIN b.pod.containers
    PROVE  ContainerRuns(w, j, ps, b.pod.containers[x])
<1>1. PICK cs : cs = Complete(w, j, qs).containers
  OBVIOUS
<1>2. PICK d : d = b.pod.containers[x]
  OBVIOUS
<1>3. PICK k \in 1..Len(cs) : /\ SameButMounts(cs[k], d)
                              /\ skipCheckout(w, j) => cs[k].name # CheckoutContainerName
  BY <1>1, <1>2, FinalOrigin
<1>4. ContainerRuns(w, j, ps, cs[k])
  BY <1>1, <1>3, CompleteRuns
<1>5. d.name = cs[k].name /\ d.entry = cs[k].entry /\ d.command = cs[k].command /\ d.id = cs[k].id
  BY <1>3 DEF SameButMounts
<1>6. ContainerRuns(w, j, ps, d)
  BY <1>4, <1>5 DEF ContainerRuns
<1> QED BY <1>2, <1>6

\* "don't let users mess with them via podSpecPatch" (scheduler.go:1075): no patch, of
\* this build or left rewritten by an earlier one, takes a command container away
\* from the agent; the command given for it last is in BUILDKITE_COMMAND.
THEOREM CommandsUnderAgentHolds == Spec => CommandsUnderAgent
<1> DEFINE Under ==
       out'.ok /\ ~cfg.unsafe /\ ValidNames(job') =>
         /\ \A i \in DOMAIN out'.pod.containers :
              LET c == out'.pod.containers[i]
              IN /\ c.name = AgentContainerName => c.entry = "agent start"
                 /\ c.name = CheckoutContainerName => c.entry = "checkout"
                 /\ c.id # NoId /\ c.name # CheckoutContainerName =>
                       /\ c.entry = "bootstrap"
                       /\ LastGiven(job', patch, c.name,
                                    c.id + 1 - systemContainerCount(cfg, job'), c.command)
         /\ \A i \in DOMAIN out'.pod.init :
              LET c == out'.pod.init[i]
              IN /\ c.name = CopyAgentContainerName => c.entry = "setup"
                 /\ c.name \in ToSet(ImageCheckNames) /\ Named(Assembled(cfg, job').init, c.name) # {} =>
                       c.entry = "check"
<1>1. ASSUME BuildInv, NEW j \in Jobs, Handle(j), out'.ok, ~cfg.unsafe, ValidNames(job')
      PROVE  /\ \A i \in DOMAIN out'.pod.containers :
                   ContainerRuns(cfg, job', patch, out'.pod.containers[i])
             /\ \A i \in DOMAIN out'.pod.init : InitContainerRuns(cfg, job', out'.pod.init[i])
  <2>1. PICK w, ps, qs, b : w = cfg /\ ps = patch /\ qs = patch' /\ b = out'
    OBVIOUS
  <2>2. /\ job' = j /\ cfg' = cfg /\ out' = Build(cfg, j, patch')
        /\ patch' = Rewritten(cfg, j, Assembled(cfg, j), patch)
        /\ ~PatchFails(cfg, Assembled(cfg, j), patch)
        /\ BuildInv'
    BY <1>1, HandleFacts
  <2>3. cfg \in Configs /\ patch \in Seq(PatchContainer) /\ patch' \in Seq(PatchContainer)
    BY <1>1, <2>2 DEF BuildInv
  <2>4. Built(w, j, ps, qs, b)
    BY <1>1, <2>1, <2>2, <2>3 DEF Built
  <2>5. \A i \in DOMAIN b.pod.containers : ContainerRuns(w, j, ps, b.pod.containers[i])
    BY <2>4, FinalRuns
  <2>6. \A i \in DOMAIN b.pod.init : InitContainerRuns(w, j, b.pod.init[i])
    BY <2>4, FinalInitRuns
  <2> QED BY <2>1, <2>2, <2>5, <2>6
<1>2. BuildInv /\ [Next]_vars => [Under]_vars
  <2> SUFFICES ASSUME BuildInv, NEW j \in Jobs, Handle(j), out'.ok, ~cfg.unsafe, ValidNames(job')
               PROVE  Under
    BY DEF Next
  <2>1. /\ \A i \in DOMAIN out'.pod.containers :
              ContainerRuns(cfg, job', patch, out'.pod.containers[i])
        /\ \A i \in DOMAIN out'.pod.init : InitContainerRuns(cfg, job', out'.pod.init[i])
    BY <1>1
  <2> QED BY <2>1 DEF ContainerRuns, InitContainerRuns
<1> QED BY <1>2, BuildInvariant, PTL DEF Spec, CommandsUnderAgent
=============================================================================
