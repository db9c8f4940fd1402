--------------------------- MODULE SemVer_proofs ---------------------------
(***************************************************************************)
(* Theorems about the versions of scripts/release.py: where the comparison *)
(* is an order and where it is not, and that every bump goes forward in    *)
(* it, but for a prerelease that is restarted under another identifier.    *)
(***************************************************************************)
EXTENDS SemVer, SequenceTheorems, WellFoundedInduction, TLAPS

-----------------------------------------------------------------------------
(* Identifiers and sequences of them *)

LEMMA IdentifierFields ==
    ASSUME NEW a \in Identifier
    PROVE  /\ a.numeric \in BOOLEAN /\ a.value \in Nat /\ a.zeros \in Nat
           /\ ~a.numeric => a.zeros = 0
           /\ a = [numeric |-> a.numeric, value |-> a.value, zeros |-> a.zeros]
<1>1. CASE a \in [numeric: {TRUE}, value: Nat, zeros: Nat]
  BY <1>1
<1>2. CASE a \in [numeric: {FALSE}, value: Nat, zeros: {0}]
  <2>1. /\ a.numeric = FALSE /\ a.value \in Nat /\ a.zeros = 0
        /\ a = [numeric |-> a.numeric, value |-> a.value, zeros |-> a.zeros]
    BY <1>2
  <2>2. a.numeric \in BOOLEAN
    BY <2>1, Zenon
  <2>3. a.zeros \in Nat
    BY <2>1
  <2> QED BY <2>1, <2>2, <2>3, Zenon
<1> QED BY <1>1, <1>2 DEF Identifier

LEMMA IdentifierOrder ==
    ASSUME NEW a \in Identifier, NEW b \in Identifier, NEW c \in Identifier
    PROVE  /\ ~IdentifierBefore(a, a)
           /\ IdentifierBefore(a, b) /\ IdentifierBefore(b, c) => IdentifierBefore(a, c)
           /\ IdentifierBefore(a, b) => a # b /\ ~IdentifierBefore(b, a)
           /\ \/ a = b
              \/ IdentifierBefore(a, b)
              \/ IdentifierBefore(b, a)
              \/ a.numeric /\ b.numeric /\ a.value = b.value
           /\ a.numeric /\ b.numeric /\ a.value = b.value => ~IdentifierBefore(a, b)
<1>1. /\ a.numeric \in BOOLEAN /\ b.numeric \in BOOLEAN /\ c.numeric \in BOOLEAN
      /\ a.value \in Nat /\ b.value \in Nat /\ c.value \in Nat
  BY IdentifierFields
<1>2. /\ ~IdentifierBefore(a, a)
      /\ IdentifierBefore(a, b) => a # b /\ ~IdentifierBefore(b, a)
      /\ a.numeric /\ b.numeric /\ a.value = b.value => ~IdentifierBefore(a, b)
  BY <1>1 DEF IdentifierBefore
<1>3. IdentifierBefore(a, b) /\ IdentifierBefore(b, c) => IdentifierBefore(a, c)
  BY <1>1 DEF IdentifierBefore
<1>4. ~a.numeric /\ ~b.numeric /\ a.value = b.value => a = b
  BY <1>1, IdentifierFields
<1>5. \/ a = b
      \/ IdentifierBefore(a, b)
      \/ IdentifierBefore(b, a)
      \/ a.numeric /\ b.numeric /\ a.value = b.value
  BY <1>1, <1>4 DEF IdentifierBefore
<1> QED BY <1>2, <1>3, <1>5

\* A set of numbers that is not empty has a least one.
LEMMA LeastElement ==
    ASSUME NEW T \in SUBSET Nat, T # {}
    PROVE  \E x \in T : \A y \in T : x <= y
<1>1. PICK x \in T : \A y \in T : <<y, x>> \notin OpToRel(<, Nat)
  <2>1. IsWellFoundedOn(OpToRel(<, Nat), Nat)
    BY NatLessThanWellFounded, Zenon
  <2> QED BY <2>1, WFMin, Zenon
<1>2. \A y \in T : ~(y < x)
  BY <1>1 DEF OpToRel
<1> QED BY <1>2

\* Where two different sequences part: at the first place where they differ, or at
\* the end of the shorter one.
LEMMA FirstDifference ==
    ASSUME NEW S, NEW l \in Seq(S), NEW r \in Seq(S), l # r
    PROVE  \/ \E i \in DOMAIN l \cap DOMAIN r : PartAt(l, r, i)
           \/ IsProperPrefix(l, r)
           \/ IsProperPrefix(r, l)
<1> DEFINE T == {i \in DOMAIN l \cap DOMAIN r : l[i] # r[i]}
<1>1. Len(l) \in Nat /\ Len(r) \in Nat /\ DOMAIN l = 1..Len(l) /\ DOMAIN r = 1..Len(r)
  OBVIOUS
<1>2. CASE T = {}
  <2>1. \A i \in DOMAIN l \cap DOMAIN r : l[i] = r[i]
    BY <1>2
  <2>2. Len(l) # Len(r)
    BY <1>1, <2>1, SeqEqual
  <2>3. CASE Len(l) < Len(r)
    BY <1>1, <2>1, <2>3 DEF IsProperPrefix
  <2>4. CASE Len(r) < Len(l)
    BY <1>1, <2>1, <2>4 DEF IsProperPrefix
  <2>5. Len(l) < Len(r) \/ Len(r) < Len(l)
    <3>1. \A m, n \in Nat : m # n => m < n \/ n < m
      OBVIOUS
    <3> QED BY <1>1, <2>2, <3>1, Zenon
  <2> QED BY <2>3, <2>4, <2>5
<1>3. CASE T # {}
  <2>1. T \in SUBSET Nat
    BY <1>1
  <2>2. PICK i \in T : \A j \in T : i <= j
    BY <1>3, <2>1, LeastElement
  <2>3. i \in DOMAIN l \cap DOMAIN r /\ l[i] # r[i]
    BY <2>2
  <2>4. ASSUME NEW j \in 1..(i - 1) PROVE l[j] = r[j]
    <3>1. j \in DOMAIN l \cap DOMAIN r /\ j \notin T
      BY <1>1, <2>2, <2>3
    <3> QED BY <3>1
  <2> QED BY <2>3, <2>4 DEF PartAt
<1> QED BY <1>2, <1>3

\* Two sequences part at one place at most, and not if one is a prefix of the other.
LEMMA OnePart ==
    ASSUME NEW S, NEW l \in Seq(S), NEW r \in Seq(S)
    PROVE  /\ \A i, k \in DOMAIN l \cap DOMAIN r : PartAt(l, r, i) /\ PartAt(l, r, k) => i = k
           /\ \A i \in DOMAIN l \cap DOMAIN r :
                 PartAt(l, r, i) => /\ PartAt(r, l, i)
                                    /\ ~IsProperPrefix(l, r) /\ ~IsProperPrefix(r, l)
           /\ ~(IsProperPrefix(l, r) /\ IsProperPrefix(r, l))
<1>1. Len(l) \in Nat /\ Len(r) \in Nat /\ DOMAIN l = 1..Len(l) /\ DOMAIN r = 1..Len(r)
  OBVIOUS
<1>2. ASSUME NEW i \in DOMAIN l \cap DOMAIN r, NEW k \in DOMAIN l \cap DOMAIN r,
             PartAt(l, r, i), PartAt(l, r, k)
      PROVE  i = k
  <2>1. ~(i < k) /\ ~(k < i)
    BY <1>1, <1>2 DEF PartAt
  <2> QED BY <1>1, <2>1
<1>3. ASSUME NEW i \in DOMAIN l \cap DOMAIN r, PartAt(l, r, i)
      PROVE  PartAt(r, l, i) /\ ~IsProperPrefix(l, r) /\ ~IsProperPrefix(r, l)
  BY <1>3 DEF PartAt, IsProperPrefix
<1>4. ~(IsProperPrefix(l, r) /\ IsProperPrefix(r, l))
  BY <1>1 DEF IsProperPrefix
<1> QED BY <1>2, <1>3, <1>4

LEMMA IdentifiersIrreflexive ==
    ASSUME NEW l \in Seq(Identifier)
    PROVE  ~IdentifiersBefore(l, l)
BY DEF IdentifiersBefore, PartAt, IsProperPrefix

LEMMA IdentifiersTransitive ==
    ASSUME NEW l \in Seq(Identifier), NEW m \in Seq(Identifier), NEW r \in Seq(Identifier),
           IdentifiersBefore(l, m), IdentifiersBefore(m, r)
    PROVE  IdentifiersBefore(l, r)
<1>1. /\ Len(l) \in Nat /\ DOMAIN l = 1..Len(l)
      /\ Len(m) \in Nat /\ DOMAIN m = 1..Len(m)
      /\ Len(r) \in Nat /\ DOMAIN r = 1..Len(r)
  OBVIOUS
<1>2. ASSUME NEW i \in DOMAIN l \cap DOMAIN m, PartAt(l, m, i), IdentifierBefore(l[i], m[i])
      PROVE  IdentifiersBefore(l, r)
  <2>1. ASSUME NEW k \in DOMAIN m \cap DOMAIN r, PartAt(m, r, k), IdentifierBefore(m[k], r[k])
        PROVE  IdentifiersBefore(l, r)
    <3>1. CASE i < k
      <4>1. i \in DOMAIN l \cap DOMAIN r /\ m[i] = r[i]
        BY <1>1, <2>1, <3>1 DEF PartAt
      <4>2. PartAt(l, r, i)
        BY <1>1, <1>2, <2>1, <3>1, <4>1 DEF PartAt
      <4> QED BY <1>2, <4>1, <4>2 DEF IdentifiersBefore
    <3>2. CASE k < i
      <4>1. k \in DOMAIN l \cap DOMAIN r /\ l[k] = m[k]
        BY <1>1, <1>2, <3>2 DEF PartAt
      <4>2. PartAt(l, r, k)
        BY <1>1, <1>2, <2>1, <3>2, <4>1 DEF PartAt
      <4> QED BY <2>1, <4>1, <4>2 DEF IdentifiersBefore
    <3>3. CASE i = k
      <4>1. l[i] \in Identifier /\ m[i] \in Identifier /\ r[i] \in Identifier
        BY <2>1, <3>3
      <4>2. IdentifierBefore(l[i], r[i]) /\ l[i] # r[i]
        BY <1>2, <2>1, <3>3, <4>1, IdentifierOrder
      <4>3. PartAt(l, r, i)
        BY <1>1, <1>2, <2>1, <3>3, <4>2 DEF PartAt
      <4> QED BY <2>1, <3>3, <4>2, <4>3 DEF IdentifiersBefore
    <3> QED BY <1>1, <3>1, <3>2, <3>3
  <2>2. CASE IsProperPrefix(m, r)
    <3>1. i \in DOMAIN l \cap DOMAIN r /\ m[i] = r[i] /\ PartAt(l, r, i)
      BY <1>1, <1>2, <2>2 DEF IsProperPrefix, PartAt
    <3> QED BY <1>2, <3>1 DEF IdentifiersBefore
  <2> QED BY <2>1, <2>2 DEF IdentifiersBefore
<1>3. CASE IsProperPrefix(l, m)
  <2>1. ASSUME NEW k \in DOMAIN m \cap DOMAIN r, PartAt(m, r, k), IdentifierBefore(m[k], r[k])
        PROVE  IdentifiersBefore(l, r)
    <3>1. CASE k <= Len(l)
      <4>1. k \in DOMAIN l \cap DOMAIN r /\ l[k] = m[k] /\ PartAt(l, r, k)
        BY <1>1, <1>3, <2>1, <3>1 DEF IsProperPrefix, PartAt
      <4> QED BY <2>1, <4>1 DEF IdentifiersBefore
    <3>2. CASE Len(l) < k
      <4>1. \A j \in DOMAIN l : j \in 1..(k - 1) /\ l[j] = m[j]
        BY <1>1, <1>3, <2>1, <3>2 DEF IsProperPrefix
      <4>2. IsProperPrefix(l, r)
        BY <1>1, <2>1, <3>2, <4>1 DEF IsProperPrefix, PartAt
      <4> QED BY <4>2 DEF IdentifiersBefore
    <3> QED BY <1>1, <3>1, <3>2
  <2>2. CASE IsProperPrefix(m, r)
    BY <1>1, <1>3, <2>2 DEF IdentifiersBefore, IsProperPrefix
  <2> QED BY <2>1, <2>2 DEF IdentifiersBefore
<1> QED BY <1>2, <1>3 DEF IdentifiersBefore

\* l and r part at one number with different leading zeros.
PartAtZeros(l, r) ==
    \E i \in DOMAIN l \cap DOMAIN r :
        PartAt(l, r, i) /\ l[i].numeric /\ r[i].numeric /\ l[i].value = r[i].value

\* What _compare_identifiers answers for two prereleases, and for the two swapped.
LEMMA IdentifiersCompared ==
    ASSUME NEW l \in Seq(Identifier), NEW r \in Seq(Identifier)
    PROVE  /\ IdentifiersAfter(l, r) <=> IdentifiersBefore(r, l) \/ PartAtZeros(l, r)
           /\ l = r \/ IdentifiersBefore(l, r) \/ IdentifiersBefore(r, l) \/ PartAtZeros(l, r)
           /\ PartAtZeros(l, r) => ~IdentifiersBefore(l, r) /\ PartAtZeros(r, l)
<1>1. \A i \in DOMAIN l \cap DOMAIN r : l[i] \in Identifier /\ r[i] \in Identifier
  OBVIOUS
<1>2. ASSUME NEW i \in DOMAIN l \cap DOMAIN r, PartAt(l, r, i)
      PROVE  /\ PartAt(r, l, i) /\ l[i] # r[i]
             /\ IdentifiersAfter(l, r) <=> ~IdentifierBefore(l[i], r[i])
             /\ IdentifiersBefore(l, r) <=> IdentifierBefore(l[i], r[i])
             /\ IdentifiersBefore(r, l) <=> IdentifierBefore(r[i], l[i])
             /\ PartAtZeros(l, r) <=> l[i].numeric /\ r[i].numeric /\ l[i].value = r[i].value
             /\ PartAtZeros(r, l) <=> l[i].numeric /\ r[i].numeric /\ l[i].value = r[i].value
  <2>1. /\ PartAt(r, l, i) /\ ~IsProperPrefix(l, r) /\ ~IsProperPrefix(r, l)
        /\ \A k \in DOMAIN l \cap DOMAIN r : PartAt(l, r, k) => k = i
        /\ \A k \in DOMAIN r \cap DOMAIN l : PartAt(r, l, k) => k = i
    BY <1>2, OnePart
  <2>2. i \in DOMAIN r \cap DOMAIN l
    OBVIOUS
  <2>3. l[i] # r[i]
    BY <1>2 DEF PartAt
  <2>4. IdentifiersAfter(l, r) <=> ~IdentifierBefore(l[i], r[i])
    BY <1>2, <2>1 DEF IdentifiersAfter
  <2>5. /\ IdentifiersBefore(l, r) <=> IdentifierBefore(l[i], r[i])
        /\ IdentifiersBefore(r, l) <=> IdentifierBefore(r[i], l[i])
    BY <1>2, <2>1, <2>2 DEF IdentifiersBefore
  <2>6. /\ PartAtZeros(l, r) <=> l[i].numeric /\ r[i].numeric /\ l[i].value = r[i].value
        /\ PartAtZeros(r, l) <=> l[i].numeric /\ r[i].numeric /\ l[i].value = r[i].value
    BY <1>2, <2>1, <2>2 DEF PartAtZeros
  <2> QED BY <2>1, <2>3, <2>4, <2>5, <2>6
<1>3. CASE \E i \in DOMAIN l \cap DOMAIN r : PartAt(l, r, i)
  <2>1. PICK i \in DOMAIN l \cap DOMAIN r : PartAt(l, r, i)
    BY <1>3
  <2>2. /\ IdentifierBefore(r[i], l[i]) => ~IdentifierBefore(l[i], r[i])
        /\ \/ IdentifierBefore(l[i], r[i])
           \/ IdentifierBefore(r[i], l[i])
           \/ l[i].numeric /\ r[i].numeric /\ l[i].value = r[i].value
        /\ l[i].numeric /\ r[i].numeric /\ l[i].value = r[i].value =>
              ~IdentifierBefore(l[i], r[i])
    BY <1>1, <1>2, <2>1, IdentifierOrder
  <2> QED BY <1>2, <2>1, <2>2
<1>4. CASE ~\E i \in DOMAIN l \cap DOMAIN r : PartAt(l, r, i)
  <2>1. ~PartAtZeros(l, r) /\ (IdentifiersAfter(l, r) <=> IsProperPrefix(r, l))
        /\ (IdentifiersBefore(l, r) <=> IsProperPrefix(l, r))
    BY <1>4 DEF PartAtZeros, IdentifiersAfter, IdentifiersBefore
  <2>2. \A i \in DOMAIN r \cap DOMAIN l : ~PartAt(r, l, i)
    BY <1>4, OnePart
  <2>3. IdentifiersBefore(r, l) <=> IsProperPrefix(r, l)
    BY <2>2 DEF IdentifiersBefore
  <2>4. l = r \/ IsProperPrefix(l, r) \/ IsProperPrefix(r, l)
    BY <1>4, FirstDifference
  <2> QED BY <2>1, <2>3, <2>4
<1> QED BY <1>3, <1>4

-----------------------------------------------------------------------------
(* Versions *)

LEMMA StableOrder ==
    ASSUME NEW u \in Version, NEW v \in Version, NEW w \in Version
    PROVE  /\ ~StableBefore(v, v)
           /\ StableBefore(u, v) /\ StableBefore(v, w) => StableBefore(u, w)
           /\ StableBefore(u, v) /\ SameStable(v, w) => StableBefore(u, w)
           /\ SameStable(u, v) /\ StableBefore(v, w) => StableBefore(u, w)
           /\ SameStable(u, v) \/ StableBefore(u, v) \/ StableBefore(v, u)
           /\ ~(SameStable(u, v) /\ StableBefore(u, v))
BY DEF Version, StableBefore, SameStable

\* Versions without leading zeros in the numbers of their prereleases.
Canonical == {v \in Version : \A i \in DOMAIN v.prerelease : v.prerelease[i].zeros = 0}

\* Versions that differ in nothing but their build metadata.
SameButBuild(v, w) == SameStable(v, w) /\ v.prerelease = w.prerelease

LEMMA AmbiguousParts ==
    ASSUME NEW v \in Version, NEW w \in Version
    PROVE  /\ Ambiguous(v, w) <=> SameStable(v, w) /\ PartAtZeros(v.prerelease, w.prerelease)
           /\ Ambiguous(v, w) => ~IsStable(v) /\ ~IsStable(w)
<1>1. Ambiguous(v, w) <=> SameStable(v, w) /\ PartAtZeros(v.prerelease, w.prerelease)
  BY DEF Ambiguous, PartAtZeros
<1>2. Ambiguous(v, w) => ~IsStable(v) /\ ~IsStable(w)
  BY DEF Ambiguous, IsStable
<1> QED BY <1>1, <1>2

\* Where SemVer.compare is an order.  "Older" is a strict partial order.  "Newer" is
\* its converse, but that two spellings of one number are each newer than the other.
\* Two versions that compare as neither differ in the build metadata at most, and
\* among the versions without leading zeros none is ambiguous.
THEOREM CompareOrdersVersions ==
    /\ \A v \in Version : ~Before(v, v)
    /\ \A u, v, w \in Version : Before(u, v) /\ Before(v, w) => Before(u, w)
    /\ \A v, w \in Version : Newer(v, w) <=> Before(w, v) \/ Ambiguous(v, w)
    /\ \A v, w \in Version : Ambiguous(v, w) => Newer(v, w) /\ Newer(w, v) /\ ~Before(v, w)
    /\ \A v, w \in Version : Before(v, w) \/ Newer(v, w) \/ SameButBuild(v, w)
    /\ \A v, w \in Canonical : ~Ambiguous(v, w)
<1>1. ASSUME NEW v \in Version PROVE ~Before(v, v)
  BY StableOrder, IdentifiersIrreflexive DEF Before, Version
<1>2. ASSUME NEW u \in Version, NEW v \in Version, NEW w \in Version, Before(u, v), Before(v, w)
      PROVE  Before(u, w)
  <2>1. CASE StableBefore(u, v) \/ StableBefore(v, w)
    BY <1>2, <2>1, StableOrder DEF Before
  <2>2. CASE SameStable(u, v) /\ SameStable(v, w)
    <3>1. SameStable(u, w) /\ ~IsStable(u) /\ ~IsStable(v)
      BY <1>2, <2>2, StableOrder DEF SameStable, Before
    <3>2. CASE ~IsStable(w)
      <4>1. /\ IdentifiersBefore(u.prerelease, v.prerelease)
            /\ IdentifiersBefore(v.prerelease, w.prerelease)
        BY <1>2, <2>2, <3>1, <3>2, StableOrder DEF Before
      <4>2. /\ u.prerelease \in Seq(Identifier) /\ v.prerelease \in Seq(Identifier)
            /\ w.prerelease \in Seq(Identifier)
        BY DEF Version
      <4> QED BY <3>1, <3>2, <4>1, <4>2, IdentifiersTransitive DEF Before
    <3> QED BY <3>1, <3>2 DEF Before
  <2> QED BY <1>2, <2>1, <2>2 DEF Before
<1>3. ASSUME NEW v \in Version, NEW w \in Version
      PROVE  /\ Newer(v, w) <=> Before(w, v) \/ Ambiguous(v, w)
             /\ Ambiguous(v, w) => Ambiguous(w, v) /\ ~Before(v, w)
             /\ Before(v, w) \/ Before(w, v) \/ Ambiguous(v, w) \/ SameButBuild(v, w)
  <2>1. v.prerelease \in Seq(Identifier) /\ w.prerelease \in Seq(Identifier)
    BY DEF Version
  <2>2. SameStable(v, w) <=> SameStable(w, v)
    BY DEF SameStable
  <2>3. CASE ~SameStable(v, w)
    <3>1. ~Ambiguous(v, w)
      BY <2>3 DEF Ambiguous
    <3>2. StableBefore(v, w) \/ StableBefore(w, v)
      BY <2>3, StableOrder
    <3> QED BY <2>2, <2>3, <3>1, <3>2 DEF Newer, Before
  <2>4. CASE SameStable(v, w)
    <3>1. ~StableBefore(v, w) /\ ~StableBefore(w, v)
      BY <2>2, <2>4, StableOrder
    <3>2. CASE IsStable(v) \/ IsStable(w)
      <4>1. ~Ambiguous(v, w)
        BY <3>2, AmbiguousParts
      <4>2. IsStable(v) /\ IsStable(w) => SameButBuild(v, w)
        BY <2>4 DEF IsStable, SameButBuild
      <4> QED BY <2>2, <2>4, <3>1, <3>2, <4>1, <4>2 DEF Newer, Before
    <3>3. CASE ~IsStable(v) /\ ~IsStable(w)
      <4>1. /\ Newer(v, w) <=> IdentifiersAfter(v.prerelease, w.prerelease)
            /\ Before(w, v) <=> IdentifiersBefore(w.prerelease, v.prerelease)
            /\ Before(v, w) <=> IdentifiersBefore(v.prerelease, w.prerelease)
        BY <2>2, <2>4, <3>1, <3>3 DEF Newer, Before
      <4>2. /\ Ambiguous(v, w) <=> PartAtZeros(v.prerelease, w.prerelease)
            /\ Ambiguous(w, v) <=> PartAtZeros(w.prerelease, v.prerelease)
        BY <2>2, <2>4, AmbiguousParts
      <4>3. v.prerelease = w.prerelease => SameButBuild(v, w)
        BY <2>4 DEF SameButBuild
      <4> QED BY <2>1, <4>1, <4>2, <4>3, IdentifiersCompared
    <3> QED BY <3>2, <3>3
  <2> QED BY <2>3, <2>4
<1>4. ASSUME NEW v \in Canonical, NEW w \in Canonical PROVE ~Ambiguous(v, w)
  <2>1. /\ v \in Version /\ w \in Version
        /\ v.prerelease \in Seq(Identifier) /\ w.prerelease \in Seq(Identifier)
    BY DEF Canonical, Version
  <2>2. SUFFICES ASSUME NEW i \in DOMAIN v.prerelease \cap DOMAIN w.prerelease,
                        v.prerelease[i].numeric, w.prerelease[i].numeric,
                        v.prerelease[i].value = w.prerelease[i].value
                 PROVE  v.prerelease[i] = w.prerelease[i]
    BY DEF Ambiguous, PartAt
  <2>3. v.prerelease[i].zeros = 0 /\ w.prerelease[i].zeros = 0
    BY DEF Canonical
  <2>4. v.prerelease[i] \in Identifier /\ w.prerelease[i] \in Identifier
    BY <2>1
  <2> DEFINE a == v.prerelease[i]
             b == w.prerelease[i]
  <2>5. /\ a \in Identifier /\ b \in Identifier /\ a.numeric /\ b.numeric
        /\ a.value = b.value /\ a.zeros = 0 /\ b.zeros = 0
    BY <2>2, <2>3, <2>4
  <2> HIDE DEF a, b
  <2>6. a = b
    BY <2>5, IdentifierFields
  <2> QED BY <2>6 DEF a, b
<1>5. \A v, w \in Version : Newer(v, w) <=> Before(w, v) \/ Ambiguous(v, w)
  BY <1>3
<1>6. \A v, w \in Version : Ambiguous(v, w) => Newer(v, w) /\ Newer(w, v) /\ ~Before(v, w)
  BY <1>3
<1>7. \A v, w \in Version : Before(v, w) \/ Newer(v, w) \/ SameButBuild(v, w)
  BY <1>3
<1> QED BY <1>1, <1>2, <1>4, <1>5, <1>6, <1>7

LEMMA AmbiguousTurned ==
    ASSUME NEW v \in Version, NEW w \in Version, Ambiguous(v, w)
    PROVE  Ambiguous(w, v)
<1>1. v.prerelease \in Seq(Identifier) /\ w.prerelease \in Seq(Identifier)
  BY DEF Version
<1>2. SameStable(w, v) /\ PartAtZeros(v.prerelease, w.prerelease)
  BY AmbiguousParts DEF SameStable
<1> QED BY <1>1, <1>2, IdentifiersCompared, AmbiguousParts

-----------------------------------------------------------------------------
(* The bumps *)

\* A prerelease that begins again under another first identifier.
Restarted(v, w) ==
    /\ SameStable(v, w) /\ ~IsStable(v) /\ ~IsStable(w)
    /\ Head(v.prerelease) # Head(w.prerelease)

\* What a run may do to the version.
Forward(v, w) == Before(v, w) \/ Restarted(v, w) \/ Ambiguous(v, w)

\* A proper prefix comes before what extends it.
LEMMA PrefixBefore ==
    ASSUME NEW l \in Seq(Identifier), NEW x \in Identifier
    PROVE  Append(l, x) \in Seq(Identifier) /\ IdentifiersBefore(l, Append(l, x))
<1>1. /\ Append(l, x) \in Seq(Identifier) /\ Len(Append(l, x)) = Len(l) + 1
      /\ \A j \in 1..Len(l) : Append(l, x)[j] = l[j]
      /\ Len(l) \in Nat /\ DOMAIN l = 1..Len(l)
  OBVIOUS
<1> QED BY <1>1 DEF IdentifiersBefore, IsProperPrefix

LEMMA WithPrereleaseFacts ==
    ASSUME NEW v \in Version, NEW parts \in Seq(Identifier)
    PROVE  /\ WithPrerelease(v, parts) \in Version
           /\ WithPrerelease(v, parts).prerelease = parts
           /\ SameStable(v, WithPrerelease(v, parts))
BY DEF WithPrerelease, Version, SameStable

\* A later prerelease of one version makes a later version.
LEMMA LaterPrerelease ==
    ASSUME NEW v \in Version, NEW parts \in Seq(Identifier), ~IsStable(v), parts # <<>>,
           IdentifiersBefore(v.prerelease, parts)
    PROVE  WithPrerelease(v, parts) \in Version /\ Before(v, WithPrerelease(v, parts))
<1> DEFINE w == WithPrerelease(v, parts)
<1>1. w \in Version /\ w.prerelease = parts /\ SameStable(v, w)
  BY WithPrereleaseFacts
<1> HIDE DEF w
<1>2. Before(v, w)
  BY <1>1 DEF Before, IsStable
<1> QED BY <1>1, <1>2 DEF w

\* bump_prerelease gives a later version, or restarts the prerelease.
LEMMA BumpPrereleaseForward ==
    ASSUME NEW v \in Version, NEW preid \in Nat
    PROVE  /\ BumpPrerelease(v, preid) \in Version
           /\ Before(v, BumpPrerelease(v, preid)) \/ Restarted(v, BumpPrerelease(v, preid))
<1> DEFINE parts == v.prerelease
           last == Len(parts)
           first == <<Word(preid), Number(1)>>
<1>1. Word(preid) \in Identifier /\ Number(1) \in Identifier
  BY DEF Word, Number, Identifier
<1>2. first \in Seq(Identifier) /\ first # <<>> /\ Head(first) = Word(preid)
  BY <1>1
<1>3. parts \in Seq(Identifier)
  BY DEF Version
<1>4. CASE IsStable(v)
  <2> DEFINE s == Stable(v.major, v.minor, v.patch + 1)
  <2>1. s \in Version /\ StableBefore(v, s)
    BY DEF Stable, Version, StableBefore
  <2>2. BumpPrerelease(v, preid) = WithPrerelease(s, first)
    BY <1>4 DEF BumpPrerelease
  <2> HIDE DEF s, first
  <2> QED BY <1>2, <2>1, <2>2, WithPrereleaseFacts, StableOrder DEF Before
<1>5. CASE ~IsStable(v) /\ Head(parts) # Word(preid)
  <2>1. BumpPrerelease(v, preid) = WithPrerelease(v, first)
    BY <1>5 DEF BumpPrerelease
  <2> HIDE DEF first
  <2> QED BY <1>2, <1>5, <2>1, WithPrereleaseFacts DEF Restarted, IsStable
<1>6. CASE ~IsStable(v) /\ Head(parts) = Word(preid)
  <2>0. parts # <<>> /\ last \in Nat /\ last >= 1 /\ parts[1] = Word(preid)
    BY <1>3, <1>6 DEF IsStable
  <2>1. CASE last = 1
    <3>1. BumpPrerelease(v, preid) = WithPrerelease(v, first)
      BY <1>6, <2>1 DEF BumpPrerelease
    <3>2. IdentifiersBefore(parts, first)
      BY <1>2, <1>3, <2>0, <2>1 DEF IdentifiersBefore, IsProperPrefix
    <3> HIDE DEF first
    <3> QED BY <1>2, <1>6, <3>1, <3>2, LaterPrerelease
  <2>2. CASE last # 1 /\ parts[last].numeric
    <3> DEFINE number == Number(parts[last].value + 1)
               next == [parts EXCEPT ![last] = number]
    <3>1. BumpPrerelease(v, preid) = WithPrerelease(v, next)
      BY <1>6, <2>2 DEF BumpPrerelease
    <3>2. parts[last] \in Identifier
      BY <1>3, <2>0
    <3>3. number \in Identifier /\ IdentifierBefore(parts[last], number) /\ parts[last] # number
      <4>1. parts[last].numeric /\ parts[last].value \in Nat
        BY <2>2, <3>2 DEF Identifier
      <4> QED BY <4>1 DEF Number, Identifier, IdentifierBefore
    <3> HIDE DEF number
    <3>4. /\ next \in Seq(Identifier) /\ Len(next) = last /\ next[last] = number
          /\ \A j \in 1..(last - 1) : next[j] = parts[j]
      BY <1>3, <2>0, <3>3
    <3> HIDE DEF next
    <3>5. IdentifiersBefore(parts, next) /\ next # <<>>
      BY <1>3, <2>0, <3>3, <3>4 DEF IdentifiersBefore, PartAt
    <3> QED BY <1>6, <3>1, <3>4, <3>5, LaterPrerelease
  <2>3. CASE last # 1 /\ ~parts[last].numeric
    <3>1. BumpPrerelease(v, preid) = WithPrerelease(v, Append(parts, Number(1)))
      BY <1>6, <2>3 DEF BumpPrerelease
    <3>2. /\ Append(parts, Number(1)) \in Seq(Identifier) /\ Append(parts, Number(1)) # <<>>
          /\ IdentifiersBefore(parts, Append(parts, Number(1)))
      BY <1>1, <1>3, PrefixBefore
    <3> QED BY <1>6, <3>1, <3>2, LaterPrerelease
  <2> QED BY <2>1, <2>2, <2>3
<1> QED BY <1>4, <1>5, <1>6

\* Every bump of every version is a version, and goes forward: only bump_prerelease
\* under another identifier may give an earlier one (bump_version, bump_prerelease).
THEOREM BumpsGoForward ==
    \A v \in Version, preid \in Nat : \A w \in Bumped(v, preid) :
        w \in Version /\ (Before(v, w) \/ (Restarted(v, w) /\ w = BumpPrerelease(v, preid)))
<1> SUFFICES ASSUME NEW v \in Version, NEW preid \in Nat, NEW w \in Bumped(v, preid)
             PROVE  w \in Version /\ (Before(v, w) \/ (Restarted(v, w) /\ w = BumpPrerelease(v, preid)))
  OBVIOUS
<1> DEFINE next == {Stable(v.major + 1, 0, 0), Stable(v.major, v.minor + 1, 0),
                    Stable(v.major, v.minor, v.patch + 1)}
           first == <<Word(preid), Number(1)>>
<1>1. \A n \in next : n \in Version /\ StableBefore(v, n)
  <2>1. /\ Stable(v.major + 1, 0, 0) \in Version
        /\ Stable(v.major, v.minor + 1, 0) \in Version
        /\ Stable(v.major, v.minor, v.patch + 1) \in Version
    BY DEF Stable, Version
  <2>2. /\ StableBefore(v, Stable(v.major + 1, 0, 0))
        /\ StableBefore(v, Stable(v.major, v.minor + 1, 0))
        /\ StableBefore(v, Stable(v.major, v.minor, v.patch + 1))
    BY DEF Stable, Version, StableBefore
  <2> QED BY <2>1, <2>2
<1>2. first \in Seq(Identifier)
  BY DEF Word, Number, Identifier
<1>3. CASE w \in next
  BY <1>1, <1>3 DEF Before
<1>4. CASE w \in {WithPrerelease(n, first) : n \in next}
  <2> HIDE DEF next, first
  <2> QED BY <1>1, <1>2, <1>4, WithPrereleaseFacts, StableOrder DEF Before
<1>5. CASE w = BumpPrerelease(v, preid)
  BY <1>5, BumpPrereleaseForward
<1>6. CASE ~IsStable(v) /\ w = WithoutPrerelease(v)
  <2>1. <<>> \in Seq(Identifier)
    OBVIOUS
  <2> QED BY <1>6, <2>1, WithPrereleaseFacts DEF WithoutPrerelease, Before, IsStable
<1> QED BY <1>3, <1>4, <1>5, <1>6 DEF Bumped
=============================================================================
