------------------------ MODULE SamplePipeline_proofs ------------------------
(***************************************************************************)
(* Theorems about SamplePipeline, for any payloads, clock, poll interval   *)
(* and number of readings: the history is the window over the readings,    *)
(* the score stays in its range, and reading a sample again changes        *)
(* nothing.                                                                *)
(***************************************************************************)
EXTENDS SamplePipeline, FiniteSetTheorems, WellFoundedInduction, TLAPS

-----------------------------------------------------------------------------
(* Numbers, enumerations of a finite set, and sorted sequences *)

\* A set of numbers that is not empty has a least one.
LEMMA LeastNumber ==
    ASSUME NEW T \in SUBSET Nat, T # {}
    PROVE  \E x \in T : \A y \in T : x <= y
<1>1. PICK x \in T : \A y \in T : <<y, x>> \notin OpToRel(<, Nat)
  <2>1. IsWellFoundedOn(OpToRel(<, Nat), Nat)
    BY NatLessThanWellFounded, Zenon
  <2> QED BY <2>1, WFMin, Zenon
<1>2. \A y \in T : ~(y < x)
  BY <1>1 DEF OpToRel
<1> QED BY <1>2

Enumeration(p, K, before) ==
    /\ p \in [1..Cardinality(K) -> K]
    /\ \A m, n \in 1..Cardinality(K) : m < n => <<p[m], p[n]>> \in before

\* A set without one element that has an enumeration gets one with the element, put
\* in before the first of those it comes before.
LEMMA EnumerationWithOneMore ==
    ASSUME NEW K, IsFiniteSet(K), NEW before, NEW x \in K,
           \A a, b \in K : a = b \/ <<a, b>> \in before \/ <<b, a>> \in before,
           \A a, b, c \in K : <<a, b>> \in before /\ <<b, c>> \in before => <<a, c>> \in before,
           NEW p, Enumeration(p, K \ {x}, before)
    PROVE  \E q : Enumeration(q, K, before)
<1> DEFINE N == Cardinality(K)
           After == {m \in 1..N : m = N \/ <<x, p[m]>> \in before}
<1>1. N \in Nat /\ N # 0 /\ Cardinality(K \ {x}) = N - 1
  BY FS_CardinalityType, FS_RemoveElement, FS_EmptySet
<1>2. /\ p \in [1..(N - 1) -> K \ {x}]
      /\ \A m, n \in 1..(N - 1) : m < n => <<p[m], p[n]>> \in before
  BY <1>1 DEF Enumeration
<1> HIDE DEF N
<1>3. N \in After /\ After \in SUBSET Nat
  BY <1>1
<1>4. PICK k \in After : \A m \in After : k <= m
  BY <1>3, LeastNumber
<1> DEFINE q == [m \in 1..N |-> IF m < k THEN p[m] ELSE IF m = k THEN x ELSE p[m - 1]]
<1>5. k \in 1..N
  BY <1>4
<1>6. \A m \in 1..N : m < k => m \in 1..(N - 1) /\ <<p[m], x>> \in before
  <2> SUFFICES ASSUME NEW m \in 1..N, m < k
               PROVE  m \in 1..(N - 1) /\ <<p[m], x>> \in before
    OBVIOUS
  <2>1. m \notin After
    BY <1>4, <1>5, <1>1
  <2>2. m # N /\ <<x, p[m]>> \notin before
    BY <2>1
  <2>3. m \in 1..(N - 1)
    BY <2>2, <1>1
  <2>4. p[m] \in K /\ p[m] # x
    BY <1>2, <2>3
  <2> QED BY <2>2, <2>3, <2>4
<1>7. \A m \in 1..(N - 1) : k <= m => <<x, p[m]>> \in before
  <2> SUFFICES ASSUME NEW m \in 1..(N - 1), k <= m
               PROVE  <<x, p[m]>> \in before
    OBVIOUS
  <2>1. k \in 1..(N - 1)
    BY <1>1, <1>5
  <2>2. <<x, p[k]>> \in before
    BY <1>1, <1>4, <2>1
  <2>3. CASE k = m
    BY <2>2, <2>3
  <2>4. CASE k < m
    <3>1. <<p[k], p[m]>> \in before /\ p[k] \in K /\ p[m] \in K
      BY <1>2, <2>1, <2>4
    <3> QED BY <2>2, <3>1
  <2> QED BY <2>3, <2>4, <1>5
<1>8. q \in [1..N -> K]
  <2> SUFFICES ASSUME NEW m \in 1..N
               PROVE  q[m] \in K
    OBVIOUS
  <2>1. CASE m < k
    BY <1>2, <1>6, <2>1
  <2>2. CASE m = k
    BY <2>2
  <2>3. CASE k < m
    <3>1. m - 1 \in 1..(N - 1)
      BY <1>1, <1>5, <2>3
    <3> QED BY <1>2, <1>5, <2>3, <3>1
  <2> QED BY <1>5, <2>1, <2>2, <2>3
<1>9. ASSUME NEW m \in 1..N, NEW n \in 1..N, m < n
      PROVE  <<q[m], q[n]>> \in before
  <2>1. CASE n < k
    <3>1. m \in 1..(N - 1) /\ n \in 1..(N - 1) /\ m < k
      BY <1>1, <1>5, <1>6, <1>9, <2>1
    <3>2. q[m] = p[m] /\ q[n] = p[n]
      BY <1>5, <2>1, <3>1
    <3> QED BY <1>2, <1>9, <3>1, <3>2
  <2>2. CASE n = k
    BY <1>6, <1>9, <2>2
  <2>3. CASE k < n /\ m < k
    <3>1. n - 1 \in 1..(N - 1) /\ k <= n - 1 /\ m \in 1..(N - 1)
      BY <1>1, <1>5, <1>6, <2>3
    <3>2. /\ <<p[m], x>> \in before /\ <<x, p[n - 1]>> \in before
          /\ p[m] \in K /\ p[n - 1] \in K
      BY <1>2, <1>6, <1>7, <2>3, <3>1
    <3>3. q[m] = p[m] /\ q[n] = p[n - 1]
      BY <1>5, <2>3
    <3> QED BY <3>2, <3>3
  <2>4. CASE m = k
    <3>1. n - 1 \in 1..(N - 1) /\ k <= n - 1
      BY <1>1, <1>5, <1>9, <2>4
    <3>2. q[m] = x /\ q[n] = p[n - 1]
      BY <1>5, <1>9, <2>4
    <3> QED BY <1>7, <3>1, <3>2
  <2>5. CASE k < m
    <3>1. m - 1 \in 1..(N - 1) /\ n - 1 \in 1..(N - 1) /\ m - 1 < n - 1
      BY <1>1, <1>5, <1>9, <2>5
    <3>2. q[m] = p[m - 1] /\ q[n] = p[n - 1]
      BY <1>5, <1>9, <2>5
    <3> QED BY <1>2, <3>1, <3>2
  <2> QED BY <1>5, <1>9, <2>1, <2>2, <2>3, <2>4, <2>5
<1> HIDE DEF q
<1> QED BY <1>8, <1>9 DEF N, Enumeration

\* Any finite set can be enumerated in a strict total order of its elements: a
\* smallest subset that cannot would be one element larger than one that can.
LEMMA EnumerationExists ==
    ASSUME NEW S, IsFiniteSet(S), NEW before,
           \A a, b \in S : a = b \/ <<a, b>> \in before \/ <<b, a>> \in before,
           \A a, b, c \in S : <<a, b>> \in before /\ <<b, c>> \in before => <<a, c>> \in before
    PROVE  \E p : Enumeration(p, S, before)
<1> DEFINE Has(K) == \E p : Enumeration(p, K, before)
           T == {n \in Nat : \E K \in SUBSET S : Cardinality(K) = n /\ ~Has(K)}
<1> SUFFICES ASSUME ~Has(S)
             PROVE  FALSE
  OBVIOUS
<1>1. Cardinality(S) \in T
  BY FS_CardinalityType
<1>2. PICK n \in T : \A m \in T : n <= m
  <2>1. T \in SUBSET Nat /\ T # {}
    BY <1>1
  <2> HIDE DEF T
  <2> QED BY <2>1, LeastNumber
<1>3. PICK K \in SUBSET S : Cardinality(K) = n /\ ~Has(K)
  BY <1>2
<1>4. IsFiniteSet(K)
  BY <1>3, FS_Subset
<1>5. CASE K = {}
  <2>1. Cardinality(K) = 0
    BY <1>5, FS_EmptySet
  <2> DEFINE e == [i \in 1..0 |-> 0]
  <2>2. e \in [1..0 -> K] /\ \A i \in 1..0 : FALSE
    OBVIOUS
  <2> HIDE DEF e
  <2>3. e \in [1..Cardinality(K) -> K] /\ \A i \in 1..Cardinality(K) : FALSE
    BY <2>1, <2>2
  <2>4. Enumeration(e, K, before)
    BY <2>3 DEF Enumeration
  <2> QED BY <1>3, <2>4
<1>6. CASE K # {}
  <2>1. PICK x \in K : TRUE
    BY <1>6
  <2>2. Cardinality(K \ {x}) = n - 1 /\ n - 1 \in Nat
    <3>1. IsFiniteSet(K \ {x}) /\ Cardinality(K \ {x}) = Cardinality(K) - 1
      BY <1>4, <2>1, FS_RemoveElement
    <3>2. Cardinality(K \ {x}) \in Nat
      BY <3>1, FS_CardinalityType
    <3>3. Cardinality(K) = n
      BY <1>3
    <3> QED BY <3>1, <3>2, <3>3
  <2>3. n - 1 \notin T
    <3>1. n \in Nat /\ ~(n <= n - 1)
      OBVIOUS
    <3> QED BY <1>2, <3>1
  <2>4. Has(K \ {x})
    BY <1>3, <2>2, <2>3
  <2>5. PICK p : Enumeration(p, K \ {x}, before)
    BY <2>4
  <2>6. /\ \A a, b \in K : a = b \/ <<a, b>> \in before \/ <<b, a>> \in before
        /\ \A a, b, c \in K : <<a, b>> \in before /\ <<b, c>> \in before => <<a, c>> \in before
    BY <1>3
  <2>7. Has(K)
    BY <1>4, <2>1, <2>5, <2>6, EnumerationWithOneMore
  <2> QED BY <1>3, <2>7
<1> QED BY <1>5, <1>6

-----------------------------------------------------------------------------
(* Lists of readings, and how Retained sorts them *)

\* The texts that parse.
Texts == [kind: {"text"}, instant: Int, suffix: Suffix] \ {Bad}

Readings == [recorded_at: Texts,
             temperature_c: _METRIC_RANGES.temperature_c,
             humidity_percent: _METRIC_RANGES.humidity_percent]

InList(list) == {list[i] : i \in DOMAIN list}

\* Sorted by text, and no two with the same.
Ordered(list) ==
    \A m, n \in DOMAIN list : m < n => TextBefore(list[m].recorded_at, list[n].recorded_at)

LEMMA SuffixFields ==
    ASSUME NEW x \in Suffix
    PROVE  /\ x.zone \in {"naive", "zulu", "plus", "minus"} /\ x.shift \in Nat
           /\ x = [zone |-> x.zone, shift |-> x.shift]
<1>1. CASE x \in [zone: {"naive", "zulu"}, shift: {0}]
  BY <1>1
<1>2. CASE x \in [zone: {"plus", "minus"}, shift: 0..1439]
  BY <1>2
<1> QED BY <1>1, <1>2 DEF Suffix

\* The order of the suffixes is strict, and total.
LEMMA SuffixOrder ==
    ASSUME NEW x \in Suffix, NEW y \in Suffix, NEW z \in Suffix
    PROVE  /\ ~SuffixBefore(x, x)
           /\ SuffixBefore(x, y) => ~SuffixBefore(y, x)
           /\ SuffixBefore(x, y) /\ SuffixBefore(y, z) => SuffixBefore(x, z)
           /\ x = y \/ SuffixBefore(x, y) \/ SuffixBefore(y, x)
<1> DEFINE Zones == {"naive", "zulu", "plus", "minus"}
<1>1. /\ x.zone \in Zones /\ y.zone \in Zones /\ z.zone \in Zones
      /\ x.shift \in Nat /\ y.shift \in Nat /\ z.shift \in Nat
      /\ x.zone = y.zone /\ x.shift = y.shift => x = y
  BY SuffixFields
<1>2. \A a, b \in Zones : /\ ZoneRank(a) \in Int
                          /\ ZoneRank(a) = ZoneRank(b) => a = b
  BY DEF ZoneRank
<1> HIDE DEF Zones
<1> QED BY <1>1, <1>2 DEF SuffixBefore

\* The order of the texts is strict, and total on them.
LEMMA TextOrder ==
    ASSUME NEW t \in Texts, NEW u \in Texts, NEW v \in Texts
    PROVE  /\ ~TextBefore(t, t)
           /\ TextBefore(t, u) => ~TextBefore(u, t)
           /\ TextBefore(t, u) /\ TextBefore(u, v) => TextBefore(t, v)
           /\ t = u \/ TextBefore(t, u) \/ TextBefore(u, t)
<1>1. /\ t.instant \in Int /\ u.instant \in Int /\ v.instant \in Int
      /\ t.suffix \in Suffix /\ u.suffix \in Suffix /\ v.suffix \in Suffix
      /\ t.instant = u.instant /\ t.suffix = u.suffix => t = u
  BY DEF Texts
<1>2. t.suffix.shift \in Nat /\ u.suffix.shift \in Nat /\ v.suffix.shift \in Nat
  BY <1>1, SuffixFields
<1>3. /\ Local(t) \in Int /\ Local(u) \in Int /\ Local(v) \in Int
      /\ Local(t) = Local(u) /\ t.suffix = u.suffix => t = u
  BY <1>1, <1>2 DEF Local
<1>4. /\ ~SuffixBefore(t.suffix, t.suffix)
      /\ SuffixBefore(t.suffix, u.suffix) => ~SuffixBefore(u.suffix, t.suffix)
      /\ SuffixBefore(t.suffix, u.suffix) /\ SuffixBefore(u.suffix, v.suffix)
            => SuffixBefore(t.suffix, v.suffix)
      /\ \/ t.suffix = u.suffix
         \/ SuffixBefore(t.suffix, u.suffix)
         \/ SuffixBefore(u.suffix, t.suffix)
  BY <1>1, SuffixOrder
<1> QED BY <1>3, <1>4 DEF TextBefore

LEMMA TextsOfReadings ==
    /\ \A r \in Readings : r.recorded_at \in Texts
    /\ \A list \in Seq(Readings) : \A i \in DOMAIN list :
          list[i] \in Readings /\ list[i].recorded_at \in Texts
<1>1. \A r \in Readings : r.recorded_at \in Texts
  BY DEF Readings
<1> HIDE DEF Readings
<1>2. \A list \in Seq(Readings) : \A i \in DOMAIN list : list[i] \in Readings
  OBVIOUS
<1> QED BY <1>1, <1>2

LEMMA PlacesOrder ==
    ASSUME NEW all \in Seq(Readings), NEW i \in DOMAIN all, NEW j \in DOMAIN all,
           NEW k \in DOMAIN all
    PROVE  /\ i = j \/ Precedes(all, i, j) \/ Precedes(all, j, i)
           /\ Precedes(all, i, j) /\ Precedes(all, j, k) => Precedes(all, i, k)
           /\ ~Precedes(all, i, i)
<1> DEFINE t == all[i].recorded_at
           u == all[j].recorded_at
           v == all[k].recorded_at
<1>1. t \in Texts /\ u \in Texts /\ v \in Texts
  BY TextsOfReadings
<1>2. i \in Int /\ j \in Int /\ k \in Int
  OBVIOUS
<1>3. /\ ~TextBefore(t, t)
      /\ TextBefore(t, u) => ~TextBefore(u, t)
      /\ TextBefore(u, v) => ~TextBefore(v, u)
      /\ TextBefore(t, u) /\ TextBefore(u, v) => TextBefore(t, v)
      /\ TextBefore(v, t) /\ TextBefore(t, u) => TextBefore(v, u)
      /\ TextBefore(u, v) /\ TextBefore(v, t) => TextBefore(u, t)
      /\ t = u \/ TextBefore(t, u) \/ TextBefore(u, t)
      /\ u = v \/ TextBefore(u, v) \/ TextBefore(v, u)
  BY <1>1, TextOrder
<1> HIDE DEF t, u, v
<1> QED BY <1>2, <1>3 DEF Precedes, t, u, v

\* What Sorted returns for any list and any places with different texts.
LEMMA SortedFacts ==
    ASSUME NEW all \in Seq(Readings), NEW kept \in SUBSET (DOMAIN all),
           \A i, j \in kept : i # j => all[i].recorded_at # all[j].recorded_at
    PROVE  LET list == Sorted(all, kept)
           IN  /\ list \in Seq(Readings)
               /\ Ordered(list)
               /\ InList(list) = {all[i] : i \in kept}
               /\ Len(list) = Cardinality(kept)
<1> DEFINE N == Cardinality(kept)
           before == {e \in kept \X kept : Precedes(all, e[1], e[2])}
           places == InOrder(all, kept)
           list == Sorted(all, kept)
<1>1. IsFiniteSet(kept) /\ N \in Nat
  <2>1. IsFiniteSet(1..Len(all)) /\ DOMAIN all = 1..Len(all)
    BY FS_Interval
  <2> QED BY <2>1, FS_Subset, FS_CardinalityType
<1>2. \A i, j \in kept : <<i, j>> \in before <=> Precedes(all, i, j)
  OBVIOUS
<1> HIDE DEF before
<1>3. \E p : Enumeration(p, kept, before)
  <2>1. \A i, j \in kept : i = j \/ <<i, j>> \in before \/ <<j, i>> \in before
    BY <1>2, PlacesOrder
  <2>2. \A i, j, k \in kept :
           <<i, j>> \in before /\ <<j, k>> \in before => <<i, k>> \in before
    BY <1>2, PlacesOrder
  <2> QED BY <1>1, <2>1, <2>2, EnumerationExists
<1>4. \E p \in [1..N -> kept] : \A m, n \in DOMAIN p : m < n => Precedes(all, p[m], p[n])
  <2>1. PICK p : Enumeration(p, kept, before)
    BY <1>3
  <2>2. p \in [1..N -> kept] /\ \A m, n \in 1..N : m < n => <<p[m], p[n]>> \in before
    BY <2>1 DEF Enumeration
  <2> HIDE DEF N
  <2> QED BY <1>2, <2>2
<1>5. /\ places \in [1..N -> kept]
      /\ \A m, n \in 1..N : m < n => Precedes(all, places[m], places[n])
  BY <1>4 DEF InOrder
<1> HIDE DEF N, places
<1>6. list = [n \in 1..N |-> all[places[n]]]
  BY <1>5 DEF Sorted, places
<1> HIDE DEF list
<1>7. list \in Seq(Readings) /\ Len(list) = N /\ DOMAIN list = 1..N
  <2>1. \A n \in 1..N : all[places[n]] \in Readings
    BY <1>5
  <2> QED BY <1>1, <1>6, <2>1
<1>8. \A m, n \in 1..N : m # n => places[m] # places[n]
  <2> SUFFICES ASSUME NEW m \in 1..N, NEW n \in 1..N, m < n
               PROVE  places[m] # places[n]
    BY <1>1
  <2>1. Precedes(all, places[m], places[n]) /\ places[m] \in DOMAIN all
    BY <1>5
  <2> QED BY <2>1, PlacesOrder
<1>9. \A i \in kept : \E n \in 1..N : places[n] = i
  <2>1. places \in Injection(1..N, kept)
    BY <1>5, <1>8 DEF Injection, IsInjective
  <2>2. Cardinality(1..N) = Cardinality(kept)
    BY <1>1, FS_Interval DEF N
  <2>3. places \in Surjection(1..N, kept)
    BY <1>1, <2>1, <2>2, FS_Injection
  <2> QED BY <2>3 DEF Surjection
<1>10. Ordered(list)
  <2> SUFFICES ASSUME NEW m \in 1..N, NEW n \in 1..N, m < n
               PROVE  TextBefore(list[m].recorded_at, list[n].recorded_at)
    BY <1>7 DEF Ordered
  <2>1. /\ places[m] \in kept /\ places[n] \in kept /\ places[m] # places[n]
        /\ Precedes(all, places[m], places[n])
    BY <1>5, <1>8
  <2>2. /\ list[m].recorded_at = all[places[m]].recorded_at
        /\ list[n].recorded_at = all[places[n]].recorded_at
    BY <1>6
  <2>3. all[places[m]].recorded_at \in Texts /\ all[places[n]].recorded_at \in Texts
    BY <2>1, TextsOfReadings
  <2>4. all[places[m]].recorded_at # all[places[n]].recorded_at
    BY <2>1
  <2> QED BY <2>1, <2>2, <2>3, <2>4, TextOrder DEF Precedes
<1>11. InList(list) = {all[i] : i \in kept}
  BY <1>5, <1>6, <1>7, <1>9 DEF InList
<1> QED BY <1>7, <1>10, <1>11 DEF N, list

\* An ordered list is determined by what is in it, and as long as that is many.
LEMMA OrderedUnique ==
    ASSUME NEW l \in Seq(Readings), NEW r \in Seq(Readings), Ordered(l), Ordered(r),
           InList(l) = InList(r), Len(l) = Len(r)
    PROVE  l = r
<1> DEFINE T == {i \in DOMAIN l : l[i] # r[i]}
<1>1. /\ DOMAIN l = 1..Len(l) /\ DOMAIN r = 1..Len(l) /\ Len(l) \in Nat
      /\ \A i \in 1..Len(l) : l[i].recorded_at \in Texts /\ r[i].recorded_at \in Texts
  BY TextsOfReadings
<1>2. CASE T = {}
  BY <1>1, <1>2
<1>3. CASE T # {}
  <2>1. PICK i \in T : \A j \in T : i <= j
    <3>1. T \in SUBSET Nat
      BY <1>1
    <3> HIDE DEF T
    <3> QED BY <1>3, <3>1, LeastNumber
  <2>2. i \in 1..Len(l) /\ l[i] # r[i]
    BY <1>1
  <2>3. \A j \in 1..Len(l) : j < i => l[j] = r[j]
    BY <1>1, <2>1, <2>2
  <2>4. PICK j \in 1..Len(l) : r[j] = l[i]
    BY <1>1, <2>2 DEF InList
  <2>5. PICK k \in 1..Len(l) : l[k] = r[i]
    BY <1>1, <2>2 DEF InList
  <2>6. i < j
    <3>1. j # i
      BY <2>2, <2>4
    <3>2. ~(j < i)
      <4> SUFFICES ASSUME j < i
                   PROVE  FALSE
        OBVIOUS
      <4>1. l[j] = l[i]
        BY <2>3, <2>4
      <4>2. TextBefore(l[j].recorded_at, l[i].recorded_at)
        BY <1>1, <2>2 DEF Ordered
      <4> QED BY <1>1, <2>2, <4>1, <4>2, TextOrder
    <3> QED BY <2>2, <3>1, <3>2
  <2>7. i < k
    <3>1. k # i
      BY <2>2, <2>5
    <3>2. ~(k < i)
      <4> SUFFICES ASSUME k < i
                   PROVE  FALSE
        OBVIOUS
      <4>1. r[k] = r[i]
        BY <2>3, <2>5
      <4>2. TextBefore(r[k].recorded_at, r[i].recorded_at)
        BY <1>1, <2>2 DEF Ordered
      <4> QED BY <1>1, <2>2, <4>1, <4>2, TextOrder
    <3> QED BY <2>2, <3>1, <3>2
  <2>8. TextBefore(r[i].recorded_at, l[i].recorded_at)
    BY <1>1, <2>2, <2>4, <2>6 DEF Ordered
  <2>9. TextBefore(l[i].recorded_at, r[i].recorded_at)
    BY <1>1, <2>2, <2>5, <2>7 DEF Ordered
  <2> QED BY <1>1, <2>2, <2>8, <2>9, TextOrder
<1> QED BY <1>2, <1>3

LEMMA OrderedLength ==
    ASSUME NEW l \in Seq(Readings), Ordered(l)
    PROVE  IsFiniteSet(InList(l)) /\ Len(l) = Cardinality(InList(l))
<1>1. DOMAIN l = 1..Len(l) /\ Len(l) \in Nat /\ l \in [1..Len(l) -> InList(l)]
  BY DEF InList
<1>2. \A i, j \in 1..Len(l) : l[i] = l[j] => i = j
  <2> SUFFICES ASSUME NEW i \in 1..Len(l), NEW j \in 1..Len(l), i < j
               PROVE  l[i] # l[j]
    BY <1>1
  <2>1. TextBefore(l[i].recorded_at, l[j].recorded_at) /\ l[i].recorded_at \in Texts
    BY <1>1, TextsOfReadings DEF Ordered
  <2> QED BY <2>1, TextOrder
<1>3. l \in Surjection(1..Len(l), InList(l))
  BY <1>1 DEF Surjection, InList
<1>4. l \in Injection(1..Len(l), InList(l))
  BY <1>1, <1>2 DEF Injection, IsInjective
<1>5. IsFiniteSet(1..Len(l)) /\ Cardinality(1..Len(l)) = Len(l)
  BY <1>1, FS_Interval
<1> QED BY <1>3, <1>4, <1>5, FS_Surjection

-----------------------------------------------------------------------------
(* Totals *)

IsSum(g, f, n) == g = [i \in 0..n |-> IF i = 0 THEN 0 ELSE g[i - 1] + f[i]]

\* The sums of Total exist: the shortest list without them would have one more term
\* than a list that has them.
LEMMA SumExists ==
    ASSUME NEW f \in Seq(Int)
    PROVE  \E g : IsSum(g, f, Len(f))
<1> DEFINE Has(n) == \E g : IsSum(g, f, n)
           T == {n \in 0..Len(f) : ~Has(n)}
<1> SUFFICES ASSUME T # {}
             PROVE  FALSE
  <2>1. Len(f) \in 0..Len(f)
    OBVIOUS
  <2> QED BY <2>1
<1>1. PICK n \in T : \A m \in T : n <= m
  <2>1. T \in SUBSET Nat
    OBVIOUS
  <2> HIDE DEF T
  <2> QED BY <2>1, LeastNumber
<1>2. n \in 0..Len(f) /\ n \in Nat /\ ~Has(n)
  OBVIOUS
<1>3. CASE n = 0
  <2> DEFINE g == [i \in 0..0 |-> 0]
  <2>1. g = [i \in 0..0 |-> IF i = 0 THEN 0 ELSE g[i - 1] + f[i]]
    OBVIOUS
  <2> HIDE DEF g
  <2>2. IsSum(g, f, 0)
    BY <2>1 DEF IsSum
  <2> QED BY <1>2, <1>3, <2>2
<1>4. CASE n # 0
  <2>1. n - 1 \in 0..Len(f) /\ ~(n <= n - 1)
    BY <1>2, <1>4
  <2>2. Has(n - 1)
    BY <1>1, <2>1
  <2>3. PICK g : IsSum(g, f, n - 1)
    BY <2>2
  <2>4. g = [i \in 0..(n - 1) |-> IF i = 0 THEN 0 ELSE g[i - 1] + f[i]]
    BY <2>3 DEF IsSum
  <2> DEFINE h == [i \in 0..n |-> IF i = n THEN g[n - 1] + f[n] ELSE g[i]]
  <2>5. \A i \in 0..n : h[i] = IF i = 0 THEN 0 ELSE h[i - 1] + f[i]
    <3> SUFFICES ASSUME NEW i \in 0..n
                 PROVE  h[i] = IF i = 0 THEN 0 ELSE h[i - 1] + f[i]
      OBVIOUS
    <3>1. CASE i = n
      <4>1. i - 1 \in 0..n /\ i - 1 # n /\ i # 0
        BY <1>2, <1>4, <3>1
      <4> QED BY <3>1, <4>1
    <3>2. CASE i # n /\ i = 0
      <4>1. 0 \in 0..(n - 1) /\ h[i] = g[0]
        BY <1>2, <1>4, <3>2
      <4>2. g[0] = 0
        BY <2>4, <4>1
      <4> QED BY <3>2, <4>1, <4>2
    <3>3. CASE i # n /\ i # 0
      <4>1. i \in 0..(n - 1) /\ i - 1 \in 0..n /\ i - 1 # n
        BY <1>2, <3>3
      <4>2. g[i] = g[i - 1] + f[i]
        BY <2>4, <3>3, <4>1
      <4>3. h[i] = g[i] /\ h[i - 1] = g[i - 1]
        BY <3>3, <4>1
      <4> QED BY <3>3, <4>2, <4>3
    <3> QED BY <3>1, <3>2, <3>3
  <2>6. h = [i \in 0..n |-> h[i]]
    OBVIOUS
  <2> HIDE DEF h
  <2>7. h = [i \in 0..n |-> IF i = 0 THEN 0 ELSE h[i - 1] + f[i]]
    BY <2>5, <2>6
  <2>8. IsSum(h, f, n)
    BY <2>7 DEF IsSum
  <2> QED BY <1>2, <2>8
<1> QED BY <1>3, <1>4

\* Total is the last of these sums.
LEMMA TotalIsSum ==
    ASSUME NEW f \in Seq(Int)
    PROVE  \E g : IsSum(g, f, Len(f)) /\ Total(f) = g[Len(f)]
<1> DEFINE sum == CHOOSE g : g = [i \in 0..Len(f) |-> IF i = 0 THEN 0 ELSE g[i - 1] + f[i]]
<1>1. Total(f) = sum[Len(f)]
  BY DEF Total
<1>2. PICK g : g = [i \in 0..Len(f) |-> IF i = 0 THEN 0 ELSE g[i - 1] + f[i]]
  BY SumExists DEF IsSum
<1>3. sum = [i \in 0..Len(f) |-> IF i = 0 THEN 0 ELSE sum[i - 1] + f[i]]
  BY <1>2, Zenon
<1> HIDE DEF sum
<1> QED BY <1>1, <1>3 DEF IsSum

\* Terms of which each is at most 300 times another add up to as much.
LEMMA TotalsCompare ==
    ASSUME NEW e \in Seq(Nat), NEW c \in Seq(Nat), Len(e) = Len(c),
           \A i \in DOMAIN e : e[i] <= 300 * c[i]
    PROVE  /\ Total(e) \in Nat /\ Total(c) \in Nat
           /\ Total(e) <= 300 * Total(c)
           /\ (\A i \in DOMAIN e : e[i] = 0) => Total(e) = 0
<1> DEFINE N == Len(e)
<1>1. /\ N \in Nat /\ DOMAIN e = 1..N /\ e \in Seq(Int) /\ c \in Seq(Int) /\ Len(c) = N
      /\ \A i \in 1..N : e[i] \in Nat /\ c[i] \in Nat /\ e[i] <= 300 * c[i]
  <2>1. N \in Nat /\ DOMAIN e = 1..N /\ e \in Seq(Int) /\ c \in Seq(Int) /\ Len(c) = N
    OBVIOUS
  <2>2. \A i \in DOMAIN e : e[i] \in Nat /\ c[i] \in Nat /\ e[i] <= 300 * c[i]
    OBVIOUS
  <2> HIDE DEF N
  <2> QED BY <2>1, <2>2
<1>2. PICK g : IsSum(g, e, N) /\ Total(e) = g[N]
  BY <1>1, TotalIsSum
<1>3. PICK h : IsSum(h, c, N) /\ Total(c) = h[N]
  BY <1>1, TotalIsSum
<1> HIDE DEF N
<1>4. \A i \in 0..N : /\ g[i] = (IF i = 0 THEN 0 ELSE g[i - 1] + e[i])
                      /\ h[i] = (IF i = 0 THEN 0 ELSE h[i - 1] + c[i])
  BY <1>2, <1>3 DEF IsSum
<1> DEFINE Good(i) == /\ g[i] \in Nat /\ h[i] \in Nat /\ g[i] <= 300 * h[i]
                      /\ (\A j \in 1..N : e[j] = 0) => g[i] = 0
           T == {i \in 0..N : ~Good(i)}
<1>5. T = {}
  <2> SUFFICES ASSUME T # {}
               PROVE  FALSE
    OBVIOUS
  <2>1. PICK i \in T : \A j \in T : i <= j
    <3>1. T \in SUBSET Nat
      BY <1>1
    <3> HIDE DEF T
    <3> QED BY <3>1, LeastNumber
  <2>2. i \in 0..N /\ i \in Nat /\ ~Good(i)
    BY <1>1
  <2>3. CASE i = 0
    <3>1. g[i] = 0 /\ h[i] = 0
      BY <1>4, <2>2, <2>3
    <3> QED BY <2>2, <3>1
  <2>4. CASE i # 0
    <3>1. i - 1 \in 0..N /\ ~(i <= i - 1) /\ i \in 1..N
      BY <1>1, <2>2, <2>4
    <3>2. Good(i - 1)
      BY <2>1, <3>1
    <3>3. /\ g[i] = g[i - 1] + e[i] /\ h[i] = h[i - 1] + c[i]
          /\ e[i] \in Nat /\ c[i] \in Nat /\ e[i] <= 300 * c[i]
      BY <1>1, <1>4, <2>2, <2>4, <3>1
    <3>4. g[i] \in Nat /\ h[i] \in Nat /\ g[i] <= 300 * h[i]
      <4> DEFINE a == g[i - 1]
                 b == h[i - 1]
                 x == e[i]
                 y == c[i]
      <4>1. a \in Nat /\ b \in Nat /\ a <= 300 * b
        BY <3>2
      <4>2. x \in Nat /\ y \in Nat /\ x <= 300 * y /\ g[i] = a + x /\ h[i] = b + y
        BY <3>3
      <4> HIDE DEF Good, T, a, b, x, y
      <4>3. a + x \in Nat /\ b + y \in Nat /\ a + x <= 300 * (b + y)
        BY <4>1, <4>2
      <4> QED BY <4>2, <4>3
    <3>5. ASSUME \A j \in 1..N : e[j] = 0
          PROVE  g[i] = 0
      <4>1. e[i] = 0
        BY <3>1, <3>5
      <4>2. g[i - 1] = 0
        BY <3>2, <3>5
      <4> QED BY <3>3, <4>1, <4>2
    <3> QED BY <2>2, <3>4, <3>5
  <2> QED BY <2>3, <2>4
<1>6. Good(N)
  <2>1. N \in 0..N
    BY <1>1
  <2> QED BY <1>5, <2>1
<1> QED BY <1>1, <1>2, <1>3, <1>6

\* Terms that differ in one place add up to sums that differ as much.
LEMMA TotalsDiffer ==
    ASSUME NEW e \in Seq(Int), NEW c \in Seq(Int), Len(e) = Len(c), NEW k \in DOMAIN e,
           \A i \in DOMAIN e : i # k => e[i] = c[i]
    PROVE  /\ Total(e) \in Int /\ Total(c) \in Int
           /\ Total(e) = Total(c) + (e[k] - c[k])
<1> DEFINE N == Len(e)
           d == e[k] - c[k]
<1>1. /\ N \in Nat /\ DOMAIN e = 1..N /\ Len(c) = N /\ k \in 1..N /\ d \in Int
      /\ \A i \in 1..N : e[i] \in Int /\ c[i] \in Int /\ (i # k => e[i] = c[i])
  <2>1. N \in Nat /\ DOMAIN e = 1..N /\ Len(c) = N /\ k \in 1..N
    OBVIOUS
  <2>2. \A i \in 1..N : e[i] \in Int /\ c[i] \in Int /\ (i # k => e[i] = c[i])
    <3>1. \A i \in DOMAIN e : e[i] \in Int
      OBVIOUS
    <3>2. \A i \in DOMAIN c : c[i] \in Int
      OBVIOUS
    <3>3. DOMAIN e = 1..N /\ DOMAIN c = 1..N
      OBVIOUS
    <3> HIDE DEF N
    <3> QED BY <3>1, <3>2, <3>3
  <2> HIDE DEF N
  <2>3. d \in Int
    BY <2>1, <2>2
  <2> QED BY <2>1, <2>2, <2>3
<1>2. PICK g : IsSum(g, e, N) /\ Total(e) = g[N]
  BY <1>1, TotalIsSum
<1>3. PICK h : IsSum(h, c, N) /\ Total(c) = h[N]
  BY <1>1, TotalIsSum
<1>9. e[k] = c[k] + d
  BY <1>1
<1> HIDE DEF N, d
<1>4. \A i \in 0..N : /\ g[i] = (IF i = 0 THEN 0 ELSE g[i - 1] + e[i])
                      /\ h[i] = (IF i = 0 THEN 0 ELSE h[i - 1] + c[i])
  BY <1>2, <1>3 DEF IsSum
<1> DEFINE Good(i) == /\ g[i] \in Int /\ h[i] \in Int
                      /\ g[i] = h[i] + (IF i < k THEN 0 ELSE d)
           T == {i \in 0..N : ~Good(i)}
<1>5. T = {}
  <2> SUFFICES ASSUME T # {}
               PROVE  FALSE
    OBVIOUS
  <2>1. PICK i \in T : \A j \in T : i <= j
    <3>1. T \in SUBSET Nat
      BY <1>1
    <3> HIDE DEF T
    <3> QED BY <3>1, LeastNumber
  <2>2. i \in 0..N /\ i \in Nat /\ ~Good(i)
    BY <1>1
  <2>3. CASE i = 0
    <3>1. g[i] = 0 /\ h[i] = 0 /\ i < k
      <4>1. g[i] = 0 /\ h[i] = 0
        BY <1>4, <2>2, <2>3
      <4> QED BY <1>1, <2>3, <4>1
    <3>2. Good(i)
      <4> HIDE DEF T
      <4> QED BY <3>1
    <3> QED BY <2>2, <3>2
  <2>4. CASE i # 0
    <3>1. i - 1 \in 0..N /\ ~(i <= i - 1) /\ i \in 1..N
      BY <1>1, <2>2, <2>4
    <3>2. Good(i - 1)
      BY <2>1, <3>1
    <3>3. /\ g[i] = g[i - 1] + e[i] /\ h[i] = h[i - 1] + c[i]
          /\ e[i] \in Int /\ c[i] \in Int
      BY <1>1, <1>4, <2>2, <2>4, <3>1
    <3>4. CASE i = k
      <4>1. i - 1 < k /\ ~(i < k) /\ e[i] = c[i] + d
        BY <1>1, <1>9, <3>1, <3>4
      <4>2. g[i - 1] = h[i - 1] /\ h[i - 1] \in Int
        BY <3>2, <4>1
      <4> DEFINE b == h[i - 1]
                 x == c[i]
      <4>3. b \in Int /\ x \in Int /\ d \in Int
        BY <1>1, <3>3, <4>2
      <4>4. g[i] = b + (x + d) /\ h[i] = b + x
        BY <3>3, <4>1, <4>2
      <4> HIDE DEF b, x, T
      <4>5. b + x \in Int /\ (b + x) + d \in Int /\ b + (x + d) = (b + x) + d
        BY <4>3
      <4>6. Good(i)
        BY <4>1, <4>4, <4>5
      <4> QED BY <2>2, <4>6
    <3>5. CASE i # k
      <4> DEFINE b == h[i - 1]
                 x == c[i]
                 z == IF i < k THEN 0 ELSE d
      <4>1. e[i] = x /\ z = (IF i - 1 < k THEN 0 ELSE d)
        BY <1>1, <3>1, <3>5
      <4>2. b \in Int /\ x \in Int /\ z \in Int /\ g[i - 1] = b + z
        BY <1>1, <3>2, <3>3, <4>1
      <4>3. g[i] = (b + z) + x /\ h[i] = b + x
        BY <3>3, <4>1, <4>2
      <4>4. z = IF i < k THEN 0 ELSE d
        OBVIOUS
      <4> HIDE DEF b, x, z, T
      <4>5. g[i] = (b + x) + z /\ b + x \in Int /\ (b + x) + z \in Int
        BY <4>2, <4>3
      <4>6. Good(i)
        BY <4>3, <4>4, <4>5
      <4> QED BY <2>2, <4>6
    <3> QED BY <3>4, <3>5
  <2> QED BY <2>3, <2>4
<1>6. Good(N) /\ ~(N < k)
  <2>1. N \in 0..N /\ ~(N < k)
    BY <1>1
  <2> QED BY <1>5, <2>1
<1> QED BY <1>1, <1>2, <1>3, <1>6 DEF d

\* The recursion by which a fold over the set S sums up f.
SumsOver(S, f, iter) ==
    iter = [s \in SUBSET S |->
               IF s = {} THEN 0
               ELSE f[CHOOSE x \in s : TRUE] + iter[s \ {CHOOSE x \in s : TRUE}]]

\* p lists the set S without repetition.
Lists(S, n, p) ==
    /\ n \in Nat /\ p \in [1..n -> S]
    /\ \A x \in S : \E i \in 1..n : p[i] = x
    /\ \A i, j \in 1..n : p[i] = p[j] => i = j

\* Summing f over a set in any order, one element chosen after the other, is summing it
\* over a list of the set.
SumsUp(S, f, n, p) ==
    /\ \E iter : SumsOver(S, f, iter)
    /\ \A iter : SumsOver(S, f, iter) => iter[S] = Total([i \in 1..n |-> f[p[i]]])

LEMMA SetSum ==
    ASSUME NEW S, NEW f, \A x \in S : f[x] \in Int, NEW n, NEW p, Lists(S, n, p)
    PROVE  SumsUp(S, f, n, p)
<1>0. /\ n \in Nat /\ p \in [1..n -> S]
      /\ \A x \in S : \E i \in 1..n : p[i] = x
      /\ \A i, j \in 1..n : p[i] = p[j] => i = j
  BY DEF Lists
<1> USE <1>0
<1> DEFINE terms(s) == [i \in 1..n |-> IF p[i] \in s THEN f[p[i]] ELSE 0]
           sum == [s \in SUBSET S |-> Total(terms(s))]
           chosen(s) == CHOOSE x \in s : TRUE
<1>1. \A s : terms(s) \in Seq(Int) /\ Len(terms(s)) = n /\ DOMAIN terms(s) = 1..n
  <2> TAKE s
  <2>1. \A i \in 1..n : (IF p[i] \in s THEN f[p[i]] ELSE 0) \in Int
    OBVIOUS
  <2>2. terms(s) \in [1..n -> Int]
    BY <2>1
  <2> HIDE DEF terms
  <2> QED BY <2>2
<1>2. sum[{}] = 0
  <2>1. \A i \in 1..n : terms({})[i] = 0
    OBVIOUS
  <2>2. terms({}) \in Seq(Nat)
    <3>1. terms({}) \in [1..n -> Nat]
      BY <2>1
    <3> HIDE DEF terms
    <3> QED BY <3>1
  <2>3. DOMAIN terms({}) = 1..n
    OBVIOUS
  <2>4. Total(terms({})) = 0
    <3> HIDE DEF terms
    <3> QED BY <2>1, <2>2, <2>3, TotalsCompare
  <2> QED BY <2>4
<1>3. ASSUME NEW s \in SUBSET S, NEW x \in s
      PROVE  sum[s] = f[x] + sum[s \ {x}]
  <2>1. PICK k \in 1..n : p[k] = x
    OBVIOUS
  <2>2. \A i \in 1..n : i # k => terms(s)[i] = terms(s \ {x})[i]
    BY <2>1
  <2>3. terms(s)[k] = f[x] /\ terms(s \ {x})[k] = 0 /\ f[x] \in Int
    BY <2>1
  <2>4. /\ Total(terms(s)) \in Int /\ Total(terms(s \ {x})) \in Int
        /\ Total(terms(s)) = Total(terms(s \ {x})) + (terms(s)[k] - terms(s \ {x})[k])
    <3> DEFINE e == terms(s)
               c == terms(s \ {x})
    <3>1. /\ e \in Seq(Int) /\ c \in Seq(Int) /\ Len(e) = Len(c) /\ k \in DOMAIN e
          /\ \A i \in DOMAIN e : i # k => e[i] = c[i]
      <4> HIDE DEF terms
      <4> QED BY <1>1, <2>2
    <3> HIDE DEF e, c
    <3>2. /\ Total(e) \in Int /\ Total(c) \in Int
          /\ Total(e) = Total(c) + (e[k] - c[k])
      BY <3>1, TotalsDiffer
    <3> QED BY <3>2 DEF e, c
  <2>5. sum[s] = Total(terms(s)) /\ sum[s \ {x}] = Total(terms(s \ {x}))
    OBVIOUS
  <2> HIDE DEF terms, sum
  <2> QED BY <2>3, <2>4, <2>5
<1>4. \A s \in SUBSET S : s # {} => chosen(s) \in s
  OBVIOUS
<1>5. SumsOver(S, f, sum)
  <2>1. \A s \in SUBSET S :
            sum[s] = IF s = {} THEN 0 ELSE f[chosen(s)] + sum[s \ {chosen(s)}]
    <3> HIDE DEF sum, chosen
    <3> QED BY <1>2, <1>3, <1>4
  <2>2. sum = [s \in SUBSET S |-> sum[s]]
    OBVIOUS
  <2> HIDE DEF sum
  <2> QED BY <2>1, <2>2 DEF SumsOver
<1>6. sum[S] = Total([i \in 1..n |-> f[p[i]]])
  <2>1. terms(S) = [i \in 1..n |-> f[p[i]]]
    OBVIOUS
  <2>2. sum[S] = Total(terms(S))
    OBVIOUS
  <2> QED BY <2>1, <2>2
<1>7. ASSUME NEW iter, SumsOver(S, f, iter)
      PROVE  iter[S] = sum[S]
  <2>1. \A s \in SUBSET S :
            iter[s] = IF s = {} THEN 0 ELSE f[chosen(s)] + iter[s \ {chosen(s)}]
    BY <1>7 DEF SumsOver
  <2>2. IsFiniteSet(S)
    <3>1. IsFiniteSet(1..n)
      BY FS_Interval
    <3>2. p \in Surjection(1..n, S)
      BY DEF Surjection
    <3> QED BY <3>1, <3>2, FS_Surjection
  <2> HIDE DEF sum, chosen
  <2> DEFINE T == {m \in Nat : \E s \in SUBSET S : Cardinality(s) = m /\ iter[s] # sum[s]}
  <2>3. T = {}
    <3> SUFFICES ASSUME T # {}
                 PROVE  FALSE
      OBVIOUS
    <3>1. PICK m \in T : \A j \in T : m <= j
      <4>1. T \in SUBSET Nat
        OBVIOUS
      <4> HIDE DEF T
      <4> QED BY <4>1, LeastNumber
    <3>2. PICK s \in SUBSET S : Cardinality(s) = m /\ iter[s] # sum[s]
      OBVIOUS
    <3>3. s # {}
      BY <1>2, <2>1, <3>2
    <3> DEFINE x == chosen(s)
               rest == s \ {x}
    <3>4. x \in s
      BY <1>4, <3>3
    <3>5. IsFiniteSet(s)
      BY <2>2, FS_Subset
    <3>6. Cardinality(rest) = m - 1 /\ m \in Nat /\ Cardinality(rest) \in Nat
      BY <3>2, <3>4, <3>5, FS_RemoveElement, FS_CardinalityType, FS_Subset
    <3>7. iter[rest] = sum[rest]
      <4>1. m - 1 \notin T
        BY <3>1, <3>6
      <4> QED BY <3>6, <4>1
    <3>8. iter[s] = f[x] + iter[rest] /\ sum[s] = f[x] + sum[rest]
      BY <1>3, <2>1, <3>3, <3>4
    <3> QED BY <3>2, <3>7, <3>8
  <2> QED BY <2>2, <2>3, FS_CardinalityType
<1> QED BY <1>5, <1>6, <1>7 DEF SumsUp

-----------------------------------------------------------------------------
(* The score of a list of readings *)

LEMMA ExposureRange ==
    ASSUME NEW r \in Readings
    PROVE  /\ _mold_exposure_score(r) \in 0..300
           /\ r.humidity_percent <= 75 => _mold_exposure_score(r) = 0
<1> DEFINE h == r.humidity_percent
           t == r.temperature_c
           humidity == CASE h < 75 -> 0 [] h > 90 -> 15 [] OTHER -> h - 75
           temperature == CASE t < 5 \/ t > 35 -> 7
                            [] t \in 5..9 \cup 31..35 -> 12
                            [] OTHER -> 20
<1>1. h \in 0..100 /\ t \in -50..100
  BY DEF Readings, _METRIC_RANGES
<1>2. humidity \in 0..15 /\ (h <= 75 => humidity = 0)
  BY <1>1
<1>3. temperature \in {7, 12, 20}
  BY <1>1
<1>4. _mold_exposure_score(r) = humidity * temperature
  BY DEF _mold_exposure_score
<1> HIDE DEF humidity, temperature
<1> QED BY <1>2, <1>3, <1>4

LEMMA IntervalRange ==
    ASSUME NEW list \in Seq(Readings), NEW i \in DOMAIN list
    PROVE  Interval(list, i) \in Nat
<1>1. \A j \in DOMAIN list : list[j].recorded_at.instant \in Int
  BY TextsOfReadings DEF Texts
<1>2. i < Len(list) => i + 1 \in DOMAIN list
  OBVIOUS
<1> QED BY <1>1, <1>2, NumbersAssumption DEF Interval, MaxOf

\* What is covered and what is weighed: no more than the highest exposure throughout,
\* and nothing at all when every reading is dry.
LEMMA WeightedRange ==
    ASSUME NEW list \in Seq(Readings)
    PROVE  /\ Weighted(list) \in Nat /\ Covered(list) \in Nat
           /\ Weighted(list) <= 300 * Covered(list)
           /\ (\A i \in DOMAIN list : list[i].humidity_percent <= 75) => Weighted(list) = 0
<1> DEFINE e == [i \in DOMAIN list |-> _mold_exposure_score(list[i]) * Interval(list, i)]
           c == [i \in DOMAIN list |-> Interval(list, i)]
<1>1. \A i \in DOMAIN list : /\ _mold_exposure_score(list[i]) \in 0..300
                             /\ Interval(list, i) \in Nat
                             /\ list[i].humidity_percent <= 75
                                   => _mold_exposure_score(list[i]) = 0
  BY TextsOfReadings, ExposureRange, IntervalRange
<1>2. \A x \in 0..300, y \in Nat : x * y \in Nat /\ x * y <= 300 * y /\ 0 * y = 0
  <2> SUFFICES ASSUME NEW x \in 0..300, NEW y \in Nat
               PROVE  x * y \in Nat /\ x * y <= 300 * y /\ 0 * y = 0
    OBVIOUS
  <2> DEFINE a == x * y
             b == (300 - x) * y
  <2>1. a \in Nat /\ b \in Nat
    OBVIOUS
  <2>2. a + b = 300 * y
    OBVIOUS
  <2>3. 0 * y = 0
    OBVIOUS
  <2> HIDE DEF a, b
  <2>4. a <= 300 * y
    BY <2>1, <2>2
  <2> QED BY <2>1, <2>3, <2>4 DEF a
<1>3. \A i \in DOMAIN list : /\ e[i] \in Nat /\ c[i] \in Nat /\ e[i] <= 300 * c[i]
                             /\ list[i].humidity_percent <= 75 => e[i] = 0
  <2> TAKE i \in DOMAIN list
  <2> DEFINE score == _mold_exposure_score(list[i])
             interval == Interval(list, i)
  <2>1. e[i] = score * interval /\ c[i] = interval
    OBVIOUS
  <2>2. /\ score \in 0..300 /\ interval \in Nat
        /\ list[i].humidity_percent <= 75 => score = 0
    BY <1>1
  <2> HIDE DEF e, c, score, interval
  <2>3. score * interval \in Nat /\ score * interval <= 300 * interval /\ 0 * interval = 0
    BY <1>2, <2>2
  <2> QED BY <2>1, <2>2, <2>3
<1>4. Weighted(list) = Total(e) /\ Covered(list) = Total(c)
  BY DEF Weighted, Covered
<1>5. DOMAIN list = 1..Len(list) /\ Len(list) \in Nat
  OBVIOUS
<1>6. e = [i \in 1..Len(list) |-> e[i]] /\ c = [i \in 1..Len(list) |-> c[i]]
  BY <1>5
<1> HIDE DEF e, c
<1>7. e \in Seq(Nat) /\ c \in Seq(Nat) /\ Len(e) = Len(list) /\ Len(c) = Len(list)
  BY <1>3, <1>5, <1>6
<1>8. DOMAIN e = DOMAIN list
  BY <1>5, <1>6
<1>9. /\ Total(e) \in Nat /\ Total(c) \in Nat /\ Total(e) <= 300 * Total(c)
      /\ (\A i \in DOMAIN e : e[i] = 0) => Total(e) = 0
  <2>1. Len(e) = Len(c) /\ \A i \in DOMAIN e : e[i] <= 300 * c[i]
    BY <1>3, <1>7, <1>8
  <2> QED BY <1>7, <2>1, TotalsCompare
<1>10. (\A i \in DOMAIN list : list[i].humidity_percent <= 75) => Weighted(list) = 0
  BY <1>3, <1>4, <1>8, <1>9
<1> QED BY <1>4, <1>9, <1>10

\* RoundHalfEven is within a half of the quotient.
LEMMA RoundingRange ==
    ASSUME NEW n \in Nat, NEW d \in Nat, d > 0, n <= 10 * d
    PROVE  /\ RoundHalfEven(n, d) \in 0..10
           /\ 2 * (RoundHalfEven(n, d) * d) <= 2 * n + d
           /\ n = 0 => RoundHalfEven(n, d) = 0
<1> DEFINE q == n \div d
           r == n % d
<1>1. q \in Nat /\ r \in 0..(d - 1) /\ n = d * q + r
  OBVIOUS
<1>2. RoundHalfEven(n, d) = CASE 2 * r < d -> q
                              [] 2 * r > d -> q + 1
                              [] OTHER -> IF q % 2 = 0 THEN q ELSE q + 1
  BY DEF RoundHalfEven
<1> HIDE DEF q, r
<1>3. q \in 0..10 /\ (q = 10 => r = 0)
  <2>1. d * q <= 10 * d
    BY <1>1
  <2>2. CASE q <= 10
    BY <1>1, <2>2
  <2>3. CASE q >= 11
    <3>1. d * (q - 11) \in Nat
      BY <1>1, <2>3
    <3>2. d * q = d * (q - 11) + 11 * d
      BY <1>1
    <3> QED BY <2>1, <3>1, <3>2
  <2> QED BY <1>1, <2>2, <2>3
<1>4. \/ RoundHalfEven(n, d) = q /\ 2 * r <= d
      \/ RoundHalfEven(n, d) = q + 1 /\ 2 * r >= d /\ q # 10
  BY <1>1, <1>2, <1>3
<1>5. q * d = d * q /\ (q + 1) * d = d * q + d
  BY <1>1
<1>6. n = 0 => RoundHalfEven(n, d) = 0
  <2> SUFFICES ASSUME n = 0
               PROVE  RoundHalfEven(n, d) = 0
    OBVIOUS
  <2>1. d * q \in Nat /\ d * q = 0 /\ r = 0
    BY <1>1
  <2>2. q = 0
    BY <1>1, <2>1
  <2> QED BY <1>4, <2>1, <2>2
<1> QED BY <1>1, <1>3, <1>4, <1>5, <1>6

\* A score is a level from 0 to 10, takes readings that cover as many tenths of the
\* window, up to the rounding, and is 0 when every reading is dry.
LEMMA RiskLevelRange ==
    ASSUME NEW list \in Seq(Readings)
    PROVE  LET level == RiskLevel(list)
           IN  /\ level \in 0..10
               /\ (2 * level - 1) * Window <= 20 * Covered(list)
               /\ level > 0 => \E i \in DOMAIN list : list[i].humidity_percent > 75
<1> DEFINE W == Weighted(list)
           C == Covered(list)
           M == MaxOf(C, Window)
           level == RiskLevel(list)
<1>1. W \in Nat /\ C \in Nat /\ W <= 300 * C
  BY WeightedRange
<1>2. Window = 2880
  BY DEF Window
<1>3. level = RoundHalfEven(W, 30 * M)
  BY DEF RiskLevel
<1>4. M \in Nat /\ M >= C /\ M >= 2880
  BY <1>1, <1>2 DEF MaxOf
<1> HIDE DEF W, C, M, level
<1>5. W <= 10 * (30 * M) /\ 30 * M \in Nat /\ 30 * M > 0
  BY <1>1, <1>4
<1>6. level \in 0..10 /\ 2 * (level * (30 * M)) <= 2 * W + 30 * M /\ (W = 0 => level = 0)
  BY <1>1, <1>3, <1>5, RoundingRange
<1>7. (2 * level - 1) * 2880 <= 20 * C
  <2>1. CASE level = 0
    BY <1>1, <2>1
  <2>2. CASE level # 0
    <3> DEFINE x == 2 * level - 1
    <3>1. x \in Nat
      BY <1>6, <2>2
    <3>2. 2 * (level * (30 * M)) - 30 * M = 30 * (x * M)
      BY <1>4, <1>6
    <3>3. x * M \in Nat /\ x * (M - 2880) \in Nat
      BY <1>4, <3>1
    <3>4. x * M = x * (M - 2880) + x * 2880
      BY <1>4, <3>1
    <3>5. level * (30 * M) \in Nat
      BY <1>4, <1>6
    <3>6. x * 2880 <= x * M
      BY <3>1, <3>3, <3>4
    <3>7. 30 * (x * M) <= 600 * C
      BY <1>1, <1>4, <1>6, <3>2, <3>5
    <3> QED BY <1>1, <3>1, <3>3, <3>6, <3>7
  <2> QED BY <2>1, <2>2
<1>8. level > 0 => \E i \in DOMAIN list : list[i].humidity_percent > 75
  <2> SUFFICES ASSUME level > 0
               PROVE  \E i \in DOMAIN list : list[i].humidity_percent > 75
    OBVIOUS
  <2>1. W # 0
    BY <1>6
  <2>2. PICK i \in DOMAIN list : ~(list[i].humidity_percent <= 75)
    BY <2>1, WeightedRange DEF W
  <2>3. list[i] \in Readings
    BY TextsOfReadings
  <2>4. \A r \in Readings : r.humidity_percent \in 0..100
    BY DEF Readings, _METRIC_RANGES
  <2>5. list[i].humidity_percent > 75
    <3> DEFINE h == list[i].humidity_percent
    <3>1. h \in 0..100 /\ ~(h <= 75)
      BY <2>2, <2>3, <2>4
    <3> HIDE DEF h
    <3>2. h > 75
      BY <3>1
    <3> QED BY <3>2 DEF h
  <2> QED BY <2>5
<1> QED BY <1>2, <1>6, <1>7, <1>8 DEF C, level

-----------------------------------------------------------------------------
(* Samples, and what they make of the history *)

ValueOfMetric(key, value) == value = None \/ value \in _METRIC_RANGES[key]

LEMMA ValidatedValue ==
    ASSUME NEW key, NEW value
    PROVE  ValueOfMetric(key, _validated_metric(key, value))
BY DEF ValueOfMetric, _validated_metric

\* A sample has a value in range, or none, for every metric, and its time is a text
\* or does not parse.
LEMMA SampleFacts ==
    ASSUME NEW p \in Payloads, NEW now \in Clock
    PROVE  LET sample == from_api_payload(p, now)
           IN  /\ DOMAIN sample.metrics = Metrics
               /\ \A key \in Metrics : ValueOfMetric(key, sample.metrics[key])
               /\ sample.recorded_at # Bad => sample.recorded_at \in Texts
<1> DEFINE sample == from_api_payload(p, now)
           raw == TimeOr(p.recorded, p.time)
<1>1. sample.metrics = (IF IsList(p) THEN ListMetrics(p) ELSE FlatMetrics(p))
  BY DEF from_api_payload
<1>2. sample.recorded_at = _coerce_datetime(raw, now)
  BY DEF from_api_payload
<1> HIDE DEF sample
<1>3. DOMAIN sample.metrics = Metrics
  BY <1>1 DEF ListMetrics, FlatMetrics
<1>4. \A key \in Metrics : ValueOfMetric(key, sample.metrics[key])
  <2>1. \A key \in Metrics : ValueOfMetric(key, ListMetrics(p)[key])
    <3> SUFFICES ASSUME NEW key \in Metrics
                 PROVE  ValueOfMetric(key, ListMetrics(p)[key])
      OBVIOUS
    <3>1. ValueOfMetric(key, SensorMetric(p.sensors, key))
      BY ValidatedValue DEF SensorMetric, ValueOfMetric
    <3> QED BY <3>1, ValidatedValue DEF ListMetrics
  <2>2. \A key \in Metrics : ValueOfMetric(key, FlatMetrics(p)[key])
    BY ValidatedValue DEF FlatMetrics
  <2> QED BY <1>1, <2>1, <2>2
<1>5. sample.recorded_at # Bad => sample.recorded_at \in Texts
  <2>1. raw \in Time /\ now \in Int
    BY TimesAssumption DEF TimeOr
  <2> HIDE DEF raw
  <2>2. \/ raw \in {None, Overflow} /\ sample.recorded_at = Text(now, Plus(0))
        \/ sample.recorded_at = Bad
        \/ /\ raw \in [kind: {"number", "text"}, instant: Int, suffix: Suffix]
           /\ sample.recorded_at = Text(raw.instant, raw.suffix)
    BY <1>2, <2>1 DEF _coerce_datetime, Time
  <2>3. Plus(0) \in Suffix
    BY DEF Plus, Suffix
  <2> QED BY <2>1, <2>2, <2>3 DEF Text, Texts
<1> QED BY <1>3, <1>4, <1>5 DEF sample

LEMMA ReadingFacts ==
    ASSUME NEW p \in Payloads, NEW now \in Clock, Scored(from_api_payload(p, now)),
           from_api_payload(p, now).recorded_at # Bad
    PROVE  Reading(from_api_payload(p, now)) \in Readings
<1> DEFINE sample == from_api_payload(p, now)
<1>1. /\ sample.recorded_at \in Texts
      /\ ValueOfMetric("temperature_c", sample.metrics.temperature_c)
      /\ ValueOfMetric("humidity_percent", sample.metrics.humidity_percent)
  <2>1. "temperature_c" \in Metrics /\ "humidity_percent" \in Metrics
    BY DEF Metrics, SensorMetrics
  <2> QED BY <2>1, SampleFacts
<1>2. sample.metrics.temperature_c # None /\ sample.metrics.humidity_percent # None
  BY DEF Scored
<1> HIDE DEF sample
<1>3. /\ sample.metrics.temperature_c \in _METRIC_RANGES.temperature_c
      /\ sample.metrics.humidity_percent \in _METRIC_RANGES.humidity_percent
  BY <1>1, <1>2 DEF ValueOfMetric
<1>4. Reading(sample) \in Readings
  BY <1>1, <1>3 DEF Reading, Readings
<1> QED BY <1>4 DEF sample

Fits(s, r) == /\ s.recorded_at.instant >= r.recorded_at.instant - Window
              /\ s.recorded_at # r.recorded_at

\* Two places of an ordered list have different texts.
LEMMA OrderedDiffer ==
    ASSUME NEW list \in Seq(Readings), Ordered(list),
           NEW i \in DOMAIN list, NEW j \in DOMAIN list, i # j
    PROVE  list[i].recorded_at # list[j].recorded_at
<1>1. list[i].recorded_at \in Texts /\ list[j].recorded_at \in Texts
  BY TextsOfReadings
<1>2. i < j \/ j < i
  OBVIOUS
<1>3. TextBefore(list[i].recorded_at, list[j].recorded_at)
        \/ TextBefore(list[j].recorded_at, list[i].recorded_at)
  BY <1>2 DEF Ordered
<1> QED BY <1>1, <1>3, TextOrder

\* Retained returns the readings that fit and the new one, in order.
LEMMA RetainedFacts ==
    ASSUME NEW history \in Seq(Readings), Ordered(history), NEW r \in Readings
    PROVE  LET list == Retained(history, r)
           IN  /\ list \in Seq(Readings)
               /\ Ordered(list)
               /\ InList(list) = {s \in InList(history) : Fits(s, r)} \cup {r}
<1> DEFINE all == Append(history, r)
           N == Len(history)
           kept == {i \in InWindow(history, r) : history[i].recorded_at # r.recorded_at}
           places == kept \cup {N + 1}
<1>1. /\ all \in Seq(Readings) /\ N \in Nat
      /\ DOMAIN history = 1..N /\ DOMAIN all = 1..(N + 1)
      /\ all[N + 1] = r
      /\ \A i \in 1..N : all[i] = history[i]
  OBVIOUS
<1>2. kept = {i \in 1..N : Fits(history[i], r)}
  BY <1>1 DEF InWindow, Fits
<1>3. Retained(history, r) = Sorted(all, places)
  BY DEF Retained
<1> HIDE DEF all, N, kept
<1>4. places \in SUBSET (DOMAIN all)
  BY <1>1, <1>2
<1>5. \A i, j \in places : i # j => all[i].recorded_at # all[j].recorded_at
  <2> SUFFICES ASSUME NEW i \in places, NEW j \in places, i # j
               PROVE  all[i].recorded_at # all[j].recorded_at
    OBVIOUS
  <2>1. CASE i \in kept /\ j \in kept
    <3>1. i \in DOMAIN history /\ j \in DOMAIN history /\ all[i] = history[i] /\ all[j] = history[j]
      BY <1>1, <1>2, <2>1
    <3> QED BY <3>1, OrderedDiffer
  <2>2. CASE i \in kept /\ j = N + 1
    BY <1>1, <1>2, <2>2 DEF Fits
  <2>3. CASE i = N + 1 /\ j \in kept
    BY <1>1, <1>2, <2>3 DEF Fits
  <2> QED BY <2>1, <2>2, <2>3
<1>6. {all[i] : i \in places} = {s \in InList(history) : Fits(s, r)} \cup {r}
  <2>1. \A i \in kept : all[i] = history[i]
    BY <1>1, <1>2
  <2>2. {all[i] : i \in kept} = {s \in InList(history) : Fits(s, r)}
    BY <1>1, <1>2, <2>1 DEF InList
  <2>3. {all[i] : i \in places} = {all[i] : i \in kept} \cup {all[N + 1]}
    OBVIOUS
  <2> QED BY <1>1, <2>2, <2>3
<1> HIDE DEF places
<1> QED BY <1>1, <1>3, <1>4, <1>5, <1>6, SortedFacts

\* A reading that is in a history it fits beside is retained to the same history.
LEMMA RetainedAgain ==
    ASSUME NEW history \in Seq(Readings), Ordered(history), NEW r \in InList(history),
           \A s \in InList(history) :
              s.recorded_at.instant >= r.recorded_at.instant - Window
    PROVE  Retained(history, r) = history
<1> DEFINE list == Retained(history, r)
<1>1. r \in Readings
  BY TextsOfReadings DEF InList
<1>2. /\ list \in Seq(Readings) /\ Ordered(list)
      /\ InList(list) = {s \in InList(history) : Fits(s, r)} \cup {r}
  BY <1>1, RetainedFacts
<1> HIDE DEF list
<1>3. \A s \in InList(history) : s = r \/ s.recorded_at # r.recorded_at
  BY OrderedDiffer DEF InList
<1>4. InList(list) = InList(history)
  BY <1>2, <1>3 DEF Fits
<1>5. Len(list) = Len(history)
  BY <1>2, <1>4, OrderedLength
<1> QED BY <1>2, <1>4, <1>5, OrderedUnique DEF list

\* Texts with one suffix are ordered as their instants are.
LEMMA OneSuffix ==
    ASSUME NEW list \in Seq(Readings), Ordered(list),
           \A r, s \in InList(list) : r.recorded_at.suffix = s.recorded_at.suffix,
           NEW i \in DOMAIN list, NEW j \in DOMAIN list, i < j
    PROVE  list[i].recorded_at.instant < list[j].recorded_at.instant
<1>1. list[i].recorded_at \in Texts /\ list[j].recorded_at \in Texts
  BY TextsOfReadings
<1>2. TextBefore(list[i].recorded_at, list[j].recorded_at)
  BY DEF Ordered
<1>3. list[i].recorded_at.suffix = list[j].recorded_at.suffix
  BY DEF InList
<1>4. ~SuffixBefore(list[i].recorded_at.suffix, list[j].recorded_at.suffix)
  BY <1>1, <1>3, SuffixOrder DEF Texts
<1>5. /\ list[i].recorded_at.instant \in Int /\ list[j].recorded_at.instant \in Int
      /\ list[i].recorded_at.suffix.shift \in Nat
  BY <1>1, SuffixFields DEF Texts
<1> QED BY <1>2, <1>3, <1>4, <1>5 DEF TextBefore, Local

\* The time to the next later reading of the set, a poll interval for the latest.
SpanIn(seen, r) ==
    LET later == {s.recorded_at.instant - r.recorded_at.instant :
                    s \in {s \in seen : s.recorded_at.instant > r.recorded_at.instant}}
    IN  IF later = {} THEN poll_interval
        ELSE CHOOSE d \in later : \A e \in later : d <= e

LEMMA SpanIsInterval ==
    ASSUME NEW list \in Seq(Readings), Ordered(list),
           \A r, s \in InList(list) : r.recorded_at.suffix = s.recorded_at.suffix,
           NEW i \in DOMAIN list
    PROVE  SpanIn(InList(list), list[i]) = Interval(list, i)
<1> DEFINE at(j) == list[j].recorded_at.instant
           later == {s.recorded_at.instant - list[i].recorded_at.instant :
                       s \in {s \in InList(list) :
                                 s.recorded_at.instant > list[i].recorded_at.instant}}
<1>1. /\ DOMAIN list = 1..Len(list) /\ Len(list) \in Nat /\ i \in 1..Len(list)
      /\ \A j \in DOMAIN list : at(j) \in Int
  BY TextsOfReadings DEF Texts
<1>2. \A j, k \in DOMAIN list : j < k => at(j) < at(k)
  BY OneSuffix
<1>3. later = {at(j) - at(i) : j \in {j \in DOMAIN list : at(j) > at(i)}}
  BY DEF InList
<1> HIDE DEF at
<1>4. \A j \in DOMAIN list : at(j) > at(i) <=> j > i
  BY <1>1, <1>2
<1>5. SpanIn(InList(list), list[i]) =
        IF later = {} THEN poll_interval ELSE CHOOSE d \in later : \A e \in later : d <= e
  BY DEF SpanIn
<1> HIDE DEF later
<1>6. CASE i < Len(list)
  <2> DEFINE d == at(i + 1) - at(i)
  <2>1. i + 1 \in DOMAIN list /\ d \in Int /\ d > 0
    BY <1>1, <1>2, <1>6
  <2>2. d \in later
    BY <1>3, <1>4, <1>1, <2>1
  <2>3. ASSUME NEW e \in later PROVE e \in Int /\ d <= e
    <3>1. PICK j \in DOMAIN list : j > i /\ e = at(j) - at(i)
      BY <1>3, <1>4
    <3>2. j = i + 1 \/ i + 1 < j
      BY <1>1, <3>1
    <3>3. at(i + 1) <= at(j)
      BY <1>1, <1>2, <2>1, <3>2
    <3> QED BY <1>1, <2>1, <3>1, <3>3
  <2>4. Interval(list, i) = d
    BY <1>6, <2>1 DEF Interval, MaxOf, at
  <2> HIDE DEF d
  <2>5. \A e \in later : (\A c \in later : e <= c) => e = d
    BY <2>1, <2>2, <2>3
  <2>6. (CHOOSE e \in later : \A c \in later : e <= c) = d
    BY <2>2, <2>3, <2>5
  <2> QED BY <1>5, <2>2, <2>4, <2>6
<1>7. CASE ~(i < Len(list))
  <2>1. \A j \in DOMAIN list : ~(j > i)
    BY <1>1, <1>7
  <2>2. later = {}
    BY <1>3, <1>4, <2>1
  <2> QED BY <1>5, <1>7, <2>2 DEF Interval
<1> QED BY <1>6, <1>7

-----------------------------------------------------------------------------
(* The inductive invariant *)

KeptPlaces ==
    {i \in DOMAIN readings :
        \A j \in i + 1 .. Len(readings) :
            /\ readings[j].recorded_at # readings[i].recorded_at
            /\ readings[j].recorded_at.instant - readings[i].recorded_at.instant <= Window}

\* The history is ordered, and holds the readings that were kept.
HistoryInv ==
    /\ mold_history \in Seq(Readings) /\ Ordered(mold_history)
    /\ readings \in Seq(Readings) /\ Len(readings) <= MaxReadings
    /\ InList(mold_history) = {readings[i] : i \in KeptPlaces}

\* What the snapshot shows of a device that is connected.
SnapshotInv ==
    latest_state # None =>
        /\ DOMAIN latest_state = Metrics \cup {MOLD_RISK_METRIC_KEY}
        /\ \A key \in Metrics : ValueOfMetric(key, latest_state[key])
        /\ latest_state[MOLD_RISK_METRIC_KEY] \in {None, RiskLevel(mold_history)}
        /\ telemetry = _filtered_telemetry_payload(latest_state)

\* What storing the sample leaves behind.
Stored(sample) ==
    /\ telemetry = _filtered_telemetry_payload(latest_state)
    /\ ~Scored(sample) => latest_state = WithMoldRisk(sample.metrics, None)
    /\ Scored(sample) =>
          /\ Reading(sample) \in InList(mold_history)
          /\ \A s \in InList(mold_history) :
                s.recorded_at.instant >= sample.recorded_at.instant - Window
          /\ latest_state = WithMoldRisk(sample.metrics, RiskLevel(mold_history))

LastInv ==
    /\ device_model \in Models
    /\ payload \in Payloads \cup {None}
    /\ payload # None => \E now \in Clock : Stored(from_api_payload(payload, now))

SampleInv == HistoryInv /\ SnapshotInv /\ LastInv

LEMMA SampleInvInit ==
    ASSUME Init
    PROVE  SampleInv
<1>1. HistoryInv
  BY NumbersAssumption DEF Init, HistoryInv, KeptPlaces, Ordered, InList
<1> QED BY <1>1 DEF Init, SampleInv, SnapshotInv, LastInv

LEMMA ApplyConfigKeeps ==
    ASSUME SampleInv, NEW m \in Models, ApplyConfig(m)
    PROVE  SampleInv'
<1>1. HistoryInv'
  BY NumbersAssumption DEF ApplyConfig, HistoryInv, KeptPlaces, Ordered, InList
<1> QED BY <1>1 DEF ApplyConfig, SampleInv, SnapshotInv, LastInv

\* What the snapshot shows once metrics are stored.
LEMMA StoreShows ==
    ASSUME NEW p \in Payloads, NEW now \in Clock, NEW level,
           Store(WithMoldRisk(from_api_payload(p, now).metrics, level))
    PROVE  /\ DOMAIN latest_state' = Metrics \cup {MOLD_RISK_METRIC_KEY}
           /\ \A key \in Metrics : ValueOfMetric(key, latest_state'[key])
           /\ latest_state'[MOLD_RISK_METRIC_KEY] = level
           /\ telemetry' = _filtered_telemetry_payload(latest_state')
<1> DEFINE metrics == from_api_payload(p, now).metrics
<1>1. \A key \in Metrics : ValueOfMetric(key, metrics[key])
  BY SampleFacts
<1>2. latest_state' = WithMoldRisk(metrics, level)
      /\ telemetry' = _filtered_telemetry_payload(latest_state')
  BY DEF Store
<1>3. MOLD_RISK_METRIC_KEY \notin Metrics
  BY DEF Metrics, SensorMetrics, MOLD_RISK_METRIC_KEY
<1> HIDE DEF metrics
<1> QED BY <1>1, <1>2, <1>3 DEF WithMoldRisk

LEMMA ReadScoredKeeps ==
    ASSUME SampleInv, NEW p \in Payloads, NEW now \in Clock, ReadScored(p, now)
    PROVE  SampleInv'
<1> DEFINE sample == from_api_payload(p, now)
           r == Reading(sample)
           N == Len(readings)
<1>1. /\ Scored(sample) /\ sample.recorded_at # Bad /\ N < MaxReadings
      /\ mold_history' = Retained(mold_history, r)
      /\ readings' = Append(readings, r)
      /\ Store(WithMoldRisk(sample.metrics, RiskLevel(mold_history')))
      /\ payload' = p /\ UNCHANGED device_model
  BY DEF ReadScored
<1>2. HistoryInv /\ LastInv
  BY DEF SampleInv
<1>3. r \in Readings
  BY <1>1, ReadingFacts
<1>4. r.recorded_at = sample.recorded_at
  BY DEF Reading
<1> HIDE DEF sample, r
<1>5. /\ mold_history' \in Seq(Readings) /\ Ordered(mold_history')
      /\ InList(mold_history') = {s \in InList(mold_history) : Fits(s, r)} \cup {r}
  BY <1>1, <1>2, <1>3, RetainedFacts DEF HistoryInv
<1>6. /\ readings \in Seq(Readings) /\ N \in Nat /\ DOMAIN readings = 1..N
      /\ InList(mold_history) = {readings[i] : i \in KeptPlaces}
  BY <1>2 DEF HistoryInv
<1>7. /\ readings' \in Seq(Readings) /\ Len(readings') = N + 1 /\ DOMAIN readings' = 1..(N + 1)
      /\ readings'[N + 1] = r /\ \A i \in 1..N : readings'[i] = readings[i]
  BY <1>1, <1>3, <1>6
<1> HIDE DEF N
<1>8. Len(readings') <= MaxReadings
  BY <1>1, <1>6, <1>7, NumbersAssumption
<1>9. KeptPlaces' = {i \in KeptPlaces : Fits(readings[i], r)} \cup {N + 1}
  <2>1. ASSUME NEW i \in 1..N
        PROVE  i \in KeptPlaces' <=> i \in KeptPlaces /\ Fits(readings[i], r)
    <3>1. i + 1 .. N + 1 = (i + 1 .. N) \cup {N + 1}
      BY <1>6, <2>1
    <3>2. /\ i \in KeptPlaces' <=>
                \A j \in i + 1 .. N + 1 :
                    /\ readings'[j].recorded_at # readings'[i].recorded_at
                    /\ readings'[j].recorded_at.instant - readings'[i].recorded_at.instant
                          <= Window
          /\ i \in KeptPlaces <=>
                \A j \in i + 1 .. N :
                    /\ readings[j].recorded_at # readings[i].recorded_at
                    /\ readings[j].recorded_at.instant - readings[i].recorded_at.instant
                          <= Window
      BY <1>6, <1>7, <2>1 DEF KeptPlaces, N
    <3>3. \A j \in i + 1 .. N : readings'[j] = readings[j]
      BY <1>6, <1>7, <2>1
    <3>4. /\ readings[i].recorded_at.instant \in Int /\ r.recorded_at.instant \in Int
          /\ Window \in Int
      BY <1>3, <1>6, <2>1, TextsOfReadings DEF Texts, Window
    <3>5. Fits(readings[i], r) <=>
             /\ r.recorded_at # readings[i].recorded_at
             /\ r.recorded_at.instant - readings[i].recorded_at.instant <= Window
      BY <3>4 DEF Fits
    <3> QED BY <1>7, <2>1, <3>1, <3>2, <3>3, <3>5
  <2>2. N + 1 \in KeptPlaces'
    <3>1. N + 1 \in DOMAIN readings' /\ ~(\E j \in N + 1 + 1 .. N + 1 : TRUE)
      BY <1>6, <1>7
    <3> QED BY <1>7, <3>1 DEF KeptPlaces
  <2>3. KeptPlaces' \subseteq 1..(N + 1) /\ KeptPlaces \subseteq 1..N
    BY <1>6, <1>7 DEF KeptPlaces
  <2>4. 1..(N + 1) = (1..N) \cup {N + 1} /\ N + 1 \notin 1..N
    BY <1>6
  <2> QED BY <2>1, <2>2, <2>3, <2>4
<1>10. InList(mold_history') = {readings'[i] : i \in KeptPlaces'}
  <2>1. KeptPlaces \subseteq 1..N
    BY <1>6 DEF KeptPlaces
  <2>2. {readings'[i] : i \in KeptPlaces'}
           = {readings'[i] : i \in {k \in KeptPlaces : Fits(readings[k], r)}} \cup {r}
    BY <1>7, <1>9
  <2>3. {readings'[i] : i \in {k \in KeptPlaces : Fits(readings[k], r)}}
           = {s \in {readings[i] : i \in KeptPlaces} : Fits(s, r)}
    BY <1>7, <2>1
  <2> QED BY <1>5, <1>6, <2>2, <2>3
<1>11. HistoryInv'
  BY <1>5, <1>7, <1>8, <1>10 DEF HistoryInv, InList
<1>12. SnapshotInv'
  BY <1>1, StoreShows DEF SnapshotInv, sample
<1>13. LastInv'
  <2>1. \A s \in InList(mold_history') :
           s.recorded_at.instant >= sample.recorded_at.instant - Window
    <3>1. r.recorded_at.instant >= r.recorded_at.instant - Window
      BY <1>3, TextsOfReadings DEF Texts, Window
    <3> QED BY <1>4, <1>5, <3>1 DEF Fits
  <2>2. r \in InList(mold_history')
    BY <1>5
  <2>3. Scored(sample)'
    BY <1>1 DEF Scored, sample
  <2>4. Stored(sample)'
    BY <1>1, <2>1, <2>2, <2>3 DEF Stored, Store, r, sample
  <2> QED BY <1>1, <1>2, <2>4 DEF LastInv, sample
<1> QED BY <1>11, <1>12, <1>13 DEF SampleInv

LEMMA HistoryKept ==
    ASSUME HistoryInv, UNCHANGED <<mold_history, readings>>
    PROVE  HistoryInv'
<1>1. KeptPlaces' = KeptPlaces
  BY DEF KeptPlaces
<1>2. Ordered(mold_history') /\ InList(mold_history') = InList(mold_history)
  BY DEF HistoryInv
<1> QED BY <1>1, <1>2 DEF HistoryInv

LEMMA ReadUnscoredKeeps ==
    ASSUME SampleInv, NEW p \in Payloads, NEW now \in Clock, ReadUnscored(p, now)
    PROVE  SampleInv'
<1> DEFINE sample == from_api_payload(p, now)
<1>1. /\ ~Scored(sample) /\ Store(WithMoldRisk(sample.metrics, None))
      /\ payload' = p /\ UNCHANGED <<device_model, mold_history, readings>>
  BY DEF ReadUnscored
<1>2. HistoryInv'
  BY <1>1, HistoryKept DEF SampleInv
<1>3. SnapshotInv'
  BY <1>1, StoreShows DEF SnapshotInv
<1> HIDE DEF sample
<1>4. Stored(sample)'
  BY <1>1 DEF Stored, Store, Scored, sample
<1>5. LastInv'
  BY <1>1, <1>4 DEF SampleInv, LastInv, sample
<1> QED BY <1>2, <1>3, <1>5 DEF SampleInv

\* A read that stores nothing.
LEMMA ReadFailedKeeps ==
    ASSUME SampleInv, ReadFailed
    PROVE  SampleInv'
<1>1. /\ latest_state' = None /\ payload' = None
      /\ UNCHANGED <<device_model, mold_history, readings>>
  BY DEF ReadFailed
<1>2. HistoryInv'
  BY <1>1, HistoryKept DEF SampleInv
<1> QED BY <1>1, <1>2 DEF SampleInv, SnapshotInv, LastInv

LEMMA SampleInvStep ==
    ASSUME SampleInv, [Next]_vars
    PROVE  SampleInv'
<1>1. ASSUME NEW m \in Models, ApplyConfig(m)
      PROVE  SampleInv'
  BY <1>1, ApplyConfigKeeps
<1>2. ASSUME NEW p \in Payloads, NEW now \in Clock,
             ReadScored(p, now) \/ ReadUnscored(p, now) \/ ReadRaises(p, now)
      PROVE  SampleInv'
  BY <1>2, ReadScoredKeeps, ReadUnscoredKeeps, ReadFailedKeeps DEF ReadRaises
<1>3. CASE ReadFailed
  BY <1>3, ReadFailedKeeps
<1>4. CASE UNCHANGED vars
  <2>1. HistoryInv' /\ SnapshotInv'
    BY <1>4, HistoryKept DEF vars, SampleInv, SnapshotInv
  <2>2. \A sample : Stored(sample) => Stored(sample)'
    BY <1>4 DEF vars, Stored, Scored
  <2>3. LastInv'
    BY <1>4, <2>2 DEF vars, SampleInv, LastInv
  <2> QED BY <2>1, <2>3 DEF SampleInv
<1> QED BY <1>1, <1>2, <1>3, <1>4 DEF Next

LEMMA SampleInvHolds == Spec => []SampleInv
BY SampleInvInit, SampleInvStep, PTL DEF Spec

-----------------------------------------------------------------------------
(* The theorems *)

\* The state has its type; the values in the history are in their ranges.
THEOREM SamplesTypeCorrect == Spec => []TypeOK
<1>1. ASSUME SampleInv
      PROVE  TypeOK
  <2>1. /\ device_model \in Models /\ payload \in Payloads \cup {None}
        /\ Len(readings) <= MaxReadings /\ mold_history \in Seq(Readings)
    BY <1>1 DEF SampleInv, HistoryInv, LastInv
  <2>2. \A r \in Readings : /\ r.temperature_c \in _METRIC_RANGES.temperature_c
                            /\ r.humidity_percent \in _METRIC_RANGES.humidity_percent
    BY DEF Readings
  <2>3. \A i \in DOMAIN mold_history : mold_history[i] \in Readings
    BY <2>1, TextsOfReadings
  <2> QED BY <2>1, <2>2, <2>3 DEF TypeOK
<1> QED BY <1>1, SampleInvHolds, PTL

\* The history that is updated reading by reading is the window over all readings,
\* however many there are and in whatever order they arrive (_compute_mold_risk_level).
THEOREM HistoryIsTheWindow == Spec => []HistoryIsWindow
<1>1. ASSUME SampleInv
      PROVE  HistoryIsWindow
  <2>1. /\ mold_history \in Seq(Readings) /\ Ordered(mold_history) /\ readings \in Seq(Readings)
        /\ InList(mold_history) = {readings[i] : i \in KeptPlaces}
    BY <1>1 DEF SampleInv, HistoryInv
  <2>2. KeptPlaces \in SUBSET (1..Len(readings)) /\ Len(readings) \in Nat
    BY <2>1 DEF KeptPlaces
  <2>3. IsFiniteSet(KeptPlaces)
    <3>1. IsFiniteSet(1..Len(readings))
      BY <2>2, FS_Interval
    <3> QED BY <2>2, <3>1, FS_Subset
  <2>4. \A i, j \in KeptPlaces : readings[i] = readings[j] => i = j
    <3> SUFFICES ASSUME NEW i \in KeptPlaces, NEW j \in KeptPlaces, i < j
                 PROVE  readings[i] # readings[j]
      BY <2>2
    <3>1. j \in i + 1 .. Len(readings)
      BY <2>2
    <3> QED BY <3>1 DEF KeptPlaces
  <2> DEFINE f == [i \in KeptPlaces |-> readings[i]]
  <2>5. f \in Surjection(KeptPlaces, InList(mold_history))
    BY <2>1 DEF Surjection
  <2>6. f \in Injection(KeptPlaces, InList(mold_history))
    BY <2>1, <2>4 DEF Injection, IsInjective
  <2>7. Cardinality(InList(mold_history)) = Cardinality(KeptPlaces)
    BY <2>3, <2>5, <2>6, FS_Surjection
  <2>8. Len(mold_history) = Cardinality(KeptPlaces)
    BY <2>1, <2>7, OrderedLength
  <2>9. \A i \in DOMAIN mold_history : mold_history[i].recorded_at # Bad
    BY <2>1, TextsOfReadings DEF Texts
  <2> QED BY <2>1, <2>8, <2>9 DEF HistoryIsWindow, KeptPlaces, InList
<1> QED BY <1>1, SampleInvHolds, PTL

\* The score the snapshot shows is the one of the readings by their instants, for any
\* readings whose texts name the time zone in one way (_compute_mold_risk_level).
THEOREM ScoresFollowTime == Spec => []ScoreFollowsTime
<1>1. ASSUME SampleInv
      PROVE  ScoreFollowsTime
  <2> DEFINE seen == InList(mold_history)
             f == [r \in seen |-> _mold_exposure_score(r) * SpanIn(seen, r)]
             g == [r \in seen |-> SpanIn(seen, r)]
             chosen(s) == CHOOSE x \in s : TRUE
             weigh(iter) == iter = [s \in SUBSET seen |->
                IF s = {} THEN 0
                ELSE _mold_exposure_score(chosen(s)) * SpanIn(seen, chosen(s))
                       + iter[s \ {chosen(s)}]]
             cover(iter) == iter = [s \in SUBSET seen |->
                IF s = {} THEN 0 ELSE SpanIn(seen, chosen(s)) + iter[s \ {chosen(s)}]]
             weighted == MapThenSumSet(
                LAMBDA r : _mold_exposure_score(r) * SpanIn(seen, r), seen)
             covered == MapThenSumSet(LAMBDA r : SpanIn(seen, r), seen)
  <2>1. ScoreFollowsTime <=>
          ((/\ latest_state # None
            /\ latest_state[MOLD_RISK_METRIC_KEY] # None
            /\ \A r, s \in seen : r.recorded_at.suffix = s.recorded_at.suffix)
             => latest_state[MOLD_RISK_METRIC_KEY]
                  = RoundHalfEven(weighted, 30 * MaxOf(covered, Window)))
    BY DEF ScoreFollowsTime, SpanIn, InList
  <2>2. weighted = (CHOOSE iter : weigh(iter))[seen]
    BY DEF MapThenSumSet, MapThenFoldSet
  <2>3. covered = (CHOOSE iter : cover(iter))[seen]
    BY DEF MapThenSumSet, MapThenFoldSet
  <2> HIDE DEF weighted, covered, seen, f, g, weigh, cover
  <2> SUFFICES ASSUME latest_state # None, latest_state[MOLD_RISK_METRIC_KEY] # None,
                      \A r, s \in seen : r.recorded_at.suffix = s.recorded_at.suffix
               PROVE  latest_state[MOLD_RISK_METRIC_KEY]
                        = RoundHalfEven(weighted, 30 * MaxOf(covered, Window))
    BY <2>1
  <2> DEFINE n == Len(mold_history)
  <2>4. /\ mold_history \in Seq(Readings) /\ Ordered(mold_history)
        /\ n \in Nat /\ DOMAIN mold_history = 1..n
        /\ latest_state[MOLD_RISK_METRIC_KEY] = RiskLevel(mold_history)
    BY <1>1 DEF SampleInv, HistoryInv, SnapshotInv
  <2>5. \A i \in 1..n : /\ mold_history[i] \in seen
                        /\ SpanIn(seen, mold_history[i]) = Interval(mold_history, i)
                        /\ Interval(mold_history, i) \in Nat
                        /\ _mold_exposure_score(mold_history[i]) \in 0..300
    BY <2>4, SpanIsInterval, IntervalRange, ExposureRange, TextsOfReadings DEF InList, seen
  <2>6. \A x \in seen : \E i \in 1..n : mold_history[i] = x
    BY <2>4 DEF InList, seen
  <2>7. \A i, j \in 1..n : mold_history[i] = mold_history[j] => i = j
    <3> SUFFICES ASSUME NEW i \in 1..n, NEW j \in 1..n, i < j
                 PROVE  mold_history[i] # mold_history[j]
      BY <2>4
    <3>1. /\ mold_history[i].recorded_at.instant < mold_history[j].recorded_at.instant
          /\ mold_history[i].recorded_at.instant \in Int
      BY <2>4, OneSuffix, TextsOfReadings DEF Texts, seen
    <3> QED BY <3>1
  <2>8. mold_history \in [1..n -> seen]
    <3>1. mold_history = [i \in 1..n |-> mold_history[i]]
      BY <2>4
    <3> QED BY <2>5, <3>1
  <2>9. \A x \in seen : f[x] \in Int /\ g[x] \in Int
    <3> TAKE x \in seen
    <3>1. PICK i \in 1..n : mold_history[i] = x
      BY <2>6
    <3>2. _mold_exposure_score(x) \in Int /\ SpanIn(seen, x) \in Int
      <4>1. /\ SpanIn(seen, mold_history[i]) \in Nat
            /\ _mold_exposure_score(mold_history[i]) \in 0..300
        BY <2>5
      <4>2. SpanIn(seen, mold_history[i]) = SpanIn(seen, x)
        BY <3>1
      <4>3. _mold_exposure_score(mold_history[i]) = _mold_exposure_score(x)
        BY <3>1
      <4>4. (\A k \in 0..300 : k \in Int) /\ (\A k \in Nat : k \in Int)
        OBVIOUS
      <4> QED BY <4>1, <4>2, <4>3, <4>4, Zenon
    <3>3. f[x] = _mold_exposure_score(x) * SpanIn(seen, x) /\ g[x] = SpanIn(seen, x)
      BY DEF f, g
    <3> QED BY <3>2, <3>3
  <2>10. Lists(seen, n, mold_history)
    BY <2>4, <2>6, <2>7, <2>8 DEF Lists
  <2>11. \A iter : /\ SumsOver(seen, f, iter) <=> weigh(iter)
                   /\ SumsOver(seen, g, iter) <=> cover(iter)
    BY DEF SumsOver, weigh, cover, f, g
  <2>12. weighted = Weighted(mold_history)
    <3>1. [i \in 1..n |-> f[mold_history[i]]]
            = [i \in DOMAIN mold_history |->
                 _mold_exposure_score(mold_history[i]) * Interval(mold_history, i)]
      BY <2>4, <2>5 DEF f, g
    <3> HIDE DEF n
    <3>2. /\ \E iter : SumsOver(seen, f, iter)
          /\ \A iter : SumsOver(seen, f, iter)
                => iter[seen] = Total([i \in 1..n |-> f[mold_history[i]]])
      <4>1. SumsUp(seen, f, n, mold_history)
        BY <2>9, <2>10, SetSum
      <4> QED BY <4>1 DEF SumsUp
    <3>3. weigh(CHOOSE iter : weigh(iter))
      BY <2>11, <3>2, Zenon
    <3>4. weighted = Total([i \in 1..n |-> f[mold_history[i]]])
      BY <2>2, <2>11, <3>2, <3>3
    <3> QED BY <3>1, <3>4 DEF Weighted
  <2>13. covered = Covered(mold_history)
    <3>1. [i \in 1..n |-> g[mold_history[i]]]
            = [i \in DOMAIN mold_history |-> Interval(mold_history, i)]
      BY <2>4, <2>5 DEF f, g
    <3> HIDE DEF n
    <3>2. /\ \E iter : SumsOver(seen, g, iter)
          /\ \A iter : SumsOver(seen, g, iter)
                => iter[seen] = Total([i \in 1..n |-> g[mold_history[i]]])
      <4>1. SumsUp(seen, g, n, mold_history)
        BY <2>9, <2>10, SetSum
      <4> QED BY <4>1 DEF SumsUp
    <3>3. cover(CHOOSE iter : cover(iter))
      BY <2>11, <3>2, Zenon
    <3>4. covered = Total([i \in 1..n |-> g[mold_history[i]]])
      BY <2>3, <2>11, <3>2, <3>3
    <3> QED BY <3>1, <3>4 DEF Covered
  <2> QED BY <2>4, <2>12, <2>13 DEF RiskLevel
<1> QED BY <1>1, SampleInvHolds, PTL

\* A score is a level of 0 to 10, and takes readings that cover as many tenths of 48
\* hours, with one above the dry limit.
THEOREM ScoresNeedCoverage == Spec => []ScoreNeedsCoverage
<1>1. ASSUME SampleInv
      PROVE  ScoreNeedsCoverage
  <2> SUFFICES ASSUME latest_state # None, latest_state[MOLD_RISK_METRIC_KEY] # None
               PROVE  LET level == latest_state[MOLD_RISK_METRIC_KEY]
                      IN  /\ level \in _METRIC_RANGES[MOLD_RISK_METRIC_KEY]
                          /\ (2 * level - 1) * Window <= 20 * Covered(mold_history)
                          /\ level > 0 => \E i \in DOMAIN mold_history :
                                             mold_history[i].humidity_percent > 75
    BY DEF ScoreNeedsCoverage
  <2>1. latest_state[MOLD_RISK_METRIC_KEY] = RiskLevel(mold_history)
    BY <1>1 DEF SampleInv, SnapshotInv
  <2>2. mold_history \in Seq(Readings)
    BY <1>1 DEF SampleInv, HistoryInv
  <2>3. _METRIC_RANGES[MOLD_RISK_METRIC_KEY] = 0..10
    BY DEF _METRIC_RANGES, MOLD_RISK_METRIC_KEY
  <2> QED BY <2>1, <2>2, <2>3, RiskLevelRange
<1> QED BY <1>1, SampleInvHolds, PTL

\* What is sent to Core is in the range of its metric and declared by the entity
\* (_filtered_telemetry_payload, capabilities_for_device).
THEOREM SentValuesAreDeclared == Spec => []SentIsDeclared
<1>1. ASSUME SampleInv
      PROVE  SentIsDeclared
  <2> SUFFICES ASSUME latest_state # None, NEW key \in DOMAIN telemetry
               PROVE  /\ telemetry[key] \in _METRIC_RANGES[key]
                      /\ key \in capabilities_for_device(device_model, latest_state)
                                    \cup {"rssi_dbm"}
    BY DEF SentIsDeclared
  <2>1. /\ DOMAIN latest_state = Metrics \cup {MOLD_RISK_METRIC_KEY}
        /\ \A k \in Metrics : ValueOfMetric(k, latest_state[k])
        /\ latest_state[MOLD_RISK_METRIC_KEY] \in {None, RiskLevel(mold_history)}
        /\ telemetry = _filtered_telemetry_payload(latest_state)
    BY <1>1 DEF SampleInv, SnapshotInv
  <2>2. key \in DOMAIN latest_state /\ latest_state[key] # None /\ telemetry[key] = latest_state[key]
    BY <2>1 DEF _filtered_telemetry_payload
  <2>3. telemetry[key] \in _METRIC_RANGES[key]
    <3>1. CASE key \in Metrics
      BY <2>1, <2>2, <3>1 DEF ValueOfMetric
    <3>2. CASE key = MOLD_RISK_METRIC_KEY
      <4>1. latest_state[key] = RiskLevel(mold_history)
        BY <2>1, <2>2, <3>2
      <4>2. mold_history \in Seq(Readings)
        BY <1>1 DEF SampleInv, HistoryInv
      <4>3. _METRIC_RANGES[MOLD_RISK_METRIC_KEY] = 0..10
        BY DEF _METRIC_RANGES, MOLD_RISK_METRIC_KEY
      <4> QED BY <2>2, <3>2, <4>1, <4>2, <4>3, RiskLevelRange
    <3> QED BY <2>1, <2>2, <3>1, <3>2
  <2>4. key \in Candidates \cup {"rssi_dbm"}
    BY <2>1, <2>2 DEF Candidates, Metrics, SensorMetrics
  <2> QED BY <2>2, <2>3, <2>4 DEF capabilities_for_device
<1> QED BY <1>1, SampleInvHolds, PTL

\* Reading the sample again that was read last changes neither the history nor what is
\* shown and sent, as long as the sample says when it was recorded (_read_and_store).
THEOREM RereadsChangeNothing == Spec => RereadChangesNothing
<1> DEFINE Same == payload # None /\ payload' = payload /\ Timed(payload)
                     /\ device_model' = device_model
                   => UNCHANGED <<mold_history, latest_state, telemetry>>
<1>1. ASSUME SampleInv, Next
      PROVE  Same
  <2> SUFFICES ASSUME payload # None, payload' = payload, Timed(payload)
               PROVE  UNCHANGED <<mold_history, latest_state, telemetry>>
    OBVIOUS
  <2>1. payload' # None
    OBVIOUS
  <2>2. PICK p \in Payloads, now \in Clock : ReadScored(p, now) \/ ReadUnscored(p, now)
    BY <1>1, <2>1 DEF Next, ApplyConfig, ReadFailed, ReadRaises
  <2>3. p = payload
    BY <2>2 DEF ReadScored, ReadUnscored
  <2>4. PICK before \in Clock : Stored(from_api_payload(payload, before))
    BY <1>1 DEF SampleInv, LastInv
  <2> DEFINE sample == from_api_payload(p, now)
  <2>5. from_api_payload(payload, before) = sample
    BY <2>3 DEF from_api_payload, _coerce_datetime, Timed
  <2>6. Stored(sample)
    BY <2>4, <2>5
  <2> HIDE DEF sample
  <2>7. CASE ReadUnscored(p, now)
    <3>1. /\ ~Scored(sample) /\ Store(WithMoldRisk(sample.metrics, None))
          /\ UNCHANGED mold_history
      BY <2>7 DEF ReadUnscored, sample
    <3> QED BY <2>6, <3>1 DEF Stored, Store
  <2>8. CASE ReadScored(p, now)
    <3>1. /\ Scored(sample) /\ mold_history' = Retained(mold_history, Reading(sample))
          /\ Store(WithMoldRisk(sample.metrics, RiskLevel(mold_history')))
      BY <2>8 DEF ReadScored, sample
    <3>2. /\ Reading(sample) \in InList(mold_history)
          /\ \A s \in InList(mold_history) :
                s.recorded_at.instant >= sample.recorded_at.instant - Window
          /\ latest_state = WithMoldRisk(sample.metrics, RiskLevel(mold_history))
          /\ telemetry = _filtered_telemetry_payload(latest_state)
      BY <2>6, <3>1 DEF Stored
    <3>3. Reading(sample).recorded_at = sample.recorded_at
      BY DEF Reading
    <3>4. mold_history \in Seq(Readings) /\ Ordered(mold_history)
      BY <1>1 DEF SampleInv, HistoryInv
    <3>5. UNCHANGED mold_history
      BY <3>1, <3>2, <3>3, <3>4, RetainedAgain
    <3> QED BY <3>1, <3>2, <3>5 DEF Store
  <2> QED BY <2>2, <2>7, <2>8
<1>2. ASSUME SampleInv, [Next]_vars
      PROVE  [Same]_vars
  BY <1>1, <1>2
<1> HIDE DEF Same
<1>3. Spec => [][Same]_vars
  BY <1>2, SampleInvHolds, PTL DEF Spec
<1> QED BY <1>3 DEF Same, RereadChangesNothing

\* The elements of a finite set, each at one place of its sequence.
LEMMA SetToSeqFacts ==
    ASSUME NEW S, IsFiniteSet(S)
    PROVE  LET seq == SetToSeq(S)
           IN  /\ DOMAIN seq = 1..Cardinality(S)
               /\ \A i \in DOMAIN seq : seq[i] \in S
               /\ \A i, j \in DOMAIN seq : seq[i] = seq[j] => i = j
               /\ \A x \in S : \E i \in DOMAIN seq : seq[i] = x
<1> DEFINE N == Cardinality(S)
           seq == SetToSeq(S)
<1>1. N \in Nat /\ ExistsBijection(1..N, S)
  BY FS_CardinalityType
<1>2. \E f \in [1..N -> S] : IsInjective(f)
  BY <1>1 DEF ExistsBijection, Bijection, Injection
<1>3. seq \in [1..N -> S] /\ IsInjective(seq)
  BY <1>2 DEF SetToSeq
<1>4. seq \in Surjection(1..N, S)
  <2>1. seq \in Injection(1..N, S)
    BY <1>3 DEF Injection
  <2>2. Cardinality(1..N) = Cardinality(S)
    BY <1>1, FS_Interval
  <2> QED BY <2>1, <2>2, FS_Injection
<1> HIDE DEF N, seq
<1> QED BY <1>3, <1>4 DEF IsInjective, Surjection, N, seq

\* Both shapes of a reading give the same metrics, but for a battery of 0, for any
\* payload (from_api_payload).
THEOREM BothShapesAgree == Spec => []ShapesAgree
<1>1. ShapesAgree
  <2> SUFFICES ASSUME NEW key \in Metrics
               PROVE  \/ ListMetrics(AsList(payload))[key] = FlatMetrics(payload)[key]
                      \/ key = "battery_percent" /\ payload[key] = 0
    BY DEF ShapesAgree
  <2>1. FlatMetrics(payload)[key] = _validated_metric(key, payload[key])
    BY DEF FlatMetrics
  <2>2. CASE key = "battery_percent"
    <3>1. ListMetrics(AsList(payload))[key]
             = _validated_metric(key, ValueOr(payload[key], None))
      BY <2>2 DEF ListMetrics, AsList
    <3>2. CASE payload[key] # 0
      <4>1. ValueOr(payload[key], None) = payload[key]
        BY <3>2 DEF ValueOr
      <4> QED BY <2>1, <3>1, <4>1
    <3> QED BY <2>2, <3>2
  <2>3. CASE key # "battery_percent"
    <3> DEFINE sensor(k) == [metric |-> k, value |-> payload[k]]
               S == {sensor(k) : k \in SensorMetrics}
               seq == SetToSeq(S)
    <3>1. key \in SensorMetrics
      BY <2>3 DEF Metrics
    <3>2. IsFiniteSet(S)
      <4> DEFINE T == {sensor("temperature_c")}
                 H == T \cup {sensor("humidity_percent")}
      <4>1. S = H \cup {sensor("rssi_dbm")}
        BY DEF SensorMetrics
      <4>2. IsFiniteSet(T)
        BY FS_Singleton
      <4> HIDE DEF T
      <4>3. IsFiniteSet(H)
        BY <4>2, FS_AddElement
      <4> HIDE DEF H
      <4>4. IsFiniteSet(H \cup {sensor("rssi_dbm")})
        BY <4>3, FS_AddElement
      <4> HIDE DEF S
      <4> QED BY <4>1, <4>4
    <3>3. ListMetrics(AsList(payload))[key] = SensorMetric(seq, key)
      BY <2>3 DEF ListMetrics, AsList
    <3>4. /\ DOMAIN seq = 1..Cardinality(S)
          /\ \A i \in DOMAIN seq : seq[i] \in S
          /\ \A i, j \in DOMAIN seq : seq[i] = seq[j] => i = j
          /\ \A x \in S : \E i \in DOMAIN seq : seq[i] = x
      BY <3>2, SetToSeqFacts
    <3> HIDE DEF seq
    <3>5. PICK i \in DOMAIN seq : seq[i] = sensor(key)
      BY <3>1, <3>4
    <3>6. \A j \in DOMAIN seq : seq[j].metric = key => j = i
      BY <3>4, <3>5
    <3>7. OfType(seq, key) = {i}
      BY <3>5, <3>6 DEF OfType
    <3>8. Max({i}) = i
      <4>1. i \in Int
        BY <3>4
      <4> QED BY <4>1 DEF Max
    <3>9. SensorMetric(seq, key) = _validated_metric(key, payload[key])
      BY <3>5, <3>7, <3>8 DEF SensorMetric
    <3> QED BY <2>1, <3>3, <3>9
  <2> QED BY <2>2, <2>3
<1> QED BY <1>1, PTL
=============================================================================
