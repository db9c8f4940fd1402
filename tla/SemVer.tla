------------------------------- MODULE SemVer -------------------------------
(***************************************************************************)
(* The versions of scripts/release.py: their order and the bumps.          *)
(*                                                                         *)
(* A prerelease is a sequence of identifiers.  An identifier is a number,  *)
(* written with any leading zeros, or a word, given by its rank in the     *)
(* order of strings.  Build metadata is a number too, 0 when there is      *)
(* none; it takes no part in the order.                                    *)
(***************************************************************************)
EXTENDS Integers, Sequences

Identifier ==
    [numeric: {TRUE}, value: Nat, zeros: Nat] \cup [numeric: {FALSE}, value: Nat, zeros: {0}]

Number(n) == [numeric |-> TRUE, value |-> n, zeros |-> 0]

Word(rank) == [numeric |-> FALSE, value |-> rank, zeros |-> 0]

Version == [major: Nat, minor: Nat, patch: Nat, prerelease: Seq(Identifier), build: Nat]

Stable(major, minor, patch) ==
    [major |-> major, minor |-> minor, patch |-> patch, prerelease |-> <<>>, build |-> 0]

IsStable(v) == v.prerelease = <<>>

WithPrerelease(v, parts) == [v EXCEPT !.prerelease = parts]

WithoutPrerelease(v) == WithPrerelease(v, <<>>)

-----------------------------------------------------------------------------
(* The order *)

\* One identifier before another: a number before a word, else by value.
IdentifierBefore(a, b) ==
    \/ a.numeric /\ ~b.numeric
    \/ a.numeric = b.numeric /\ a.value < b.value

\* l and r have different identifiers at place i, and the same before it.
PartAt(l, r, i) == l[i] # r[i] /\ \A j \in 1..(i - 1) : l[j] = r[j]

IsProperPrefix(l, r) == Len(l) < Len(r) /\ \A j \in DOMAIN l : l[j] = r[j]

\* _compare_identifiers(l, r) < 0: l is before r at the first place where they
\* differ, or is a proper prefix of it.
IdentifiersBefore(l, r) ==
    \/ \E i \in DOMAIN l \cap DOMAIN r : PartAt(l, r, i) /\ IdentifierBefore(l[i], r[i])
    \/ IsProperPrefix(l, r)

\* _compare_identifiers(l, r) > 0: whatever differs and is not before counts as
\* after, also the same number with other leading zeros.
IdentifiersAfter(l, r) ==
    \/ \E i \in DOMAIN l \cap DOMAIN r : PartAt(l, r, i) /\ ~IdentifierBefore(l[i], r[i])
    \/ IsProperPrefix(r, l)

SameStable(v, w) == v.major = w.major /\ v.minor = w.minor /\ v.patch = w.patch

\* v.stable_key() < w.stable_key()
StableBefore(v, w) ==
    \/ v.major < w.major
    \/ v.major = w.major /\ v.minor < w.minor
    \/ v.major = w.major /\ v.minor = w.minor /\ v.patch < w.patch

\* v.compare(w) < 0
Before(v, w) ==
    \/ StableBefore(v, w)
    \/ /\ SameStable(v, w)
       /\ \/ ~IsStable(v) /\ IsStable(w)
          \/ ~IsStable(v) /\ ~IsStable(w) /\ IdentifiersBefore(v.prerelease, w.prerelease)

\* v.compare(w) > 0
Newer(v, w) ==
    \/ StableBefore(w, v)
    \/ /\ SameStable(v, w)
       /\ \/ IsStable(v) /\ ~IsStable(w)
          \/ ~IsStable(v) /\ ~IsStable(w) /\ IdentifiersAfter(v.prerelease, w.prerelease)

\* The prereleases part at one number with different leading zeros: compare finds
\* each of the versions newer than the other.
Ambiguous(v, w) ==
    /\ SameStable(v, w)
    /\ \E i \in DOMAIN v.prerelease \cap DOMAIN w.prerelease :
          /\ PartAt(v.prerelease, w.prerelease, i)
          /\ v.prerelease[i].numeric /\ w.prerelease[i].numeric
          /\ v.prerelease[i].value = w.prerelease[i].value

-----------------------------------------------------------------------------
(* The bumps *)

\* Mutant: a stable version gets a prerelease without a new patch number.
BumpPrereleaseInPlace(v, preid) ==
    WithPrerelease(v, <<Word(preid), Number(1)>>)

\* bump_prerelease
BumpPrerelease(v, preid) ==
    LET parts == v.prerelease
        last == Len(parts)
        first == <<Word(preid), Number(1)>>
    IN  IF IsStable(v) THEN WithPrerelease(Stable(v.major, v.minor, v.patch + 1), first)
        ELSE IF Head(parts) # Word(preid) \/ last = 1 THEN WithPrerelease(v, first)
        ELSE IF parts[last].numeric
        THEN WithPrerelease(v, [parts EXCEPT ![last] = Number(@.value + 1)])
        ELSE WithPrerelease(v, Append(parts, Number(1)))

\* bump_version, without the release of a stable version, which is an error.
Bumped(v, preid) ==
    LET next == {Stable(v.major + 1, 0, 0), Stable(v.major, v.minor + 1, 0),
                 Stable(v.major, v.minor, v.patch + 1)}
    IN  next
        \cup {WithPrerelease(n, <<Word(preid), Number(1)>>) : n \in next}
        \cup {BumpPrerelease(v, preid)}
        \cup (IF IsStable(v) THEN {} ELSE {WithoutPrerelease(v)})
=============================================================================
