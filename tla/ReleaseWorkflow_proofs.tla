----------------------- MODULE ReleaseWorkflow_proofs -----------------------
(***************************************************************************)
(* Theorems about ReleaseWorkflow, for any number of runs, merges, tags    *)
(* and versions: what the registry serves was built from the source its    *)
(* tag names, and nothing published is overwritten or goes back.           *)
(***************************************************************************)
EXTENDS ReleaseWorkflow, SemVer_proofs

-----------------------------------------------------------------------------
(* The inductive invariant *)

\* How far a run is once its version is resolved, its image built, its tag in the
\* repository, and its image under the version tag.
Resolved == Steps \ {"checkout", "resolve"}

Built == {"push", "push_tag", "promote", "promote_latest", "verify", "release"}

Tagged == {"promote", "promote_latest", "verify", "release"}

Promoted == {"promote_latest", "verify", "release"}

\* What the steps behind a run have established.
RunInv ==
    /\ Recovery => run.existing_tag \in DOMAIN git_tags /\ run.tag_commit \in Commits
    /\ run.pc \in Resolved => run.version \in Version
    /\ run.pc \in Built =>
          /\ run.image = [revision |-> run.head, version |-> run.version, run |-> run.number]
          /\ versions[run.head] = run.version
    /\ run.pc \in Tagged => run.version \in DOMAIN git_tags /\ git_tags[run.version] = run.head
    /\ run.pc \in {"build", "push", "push_tag", "promote"} => run.version \notin DOMAIN images
    /\ run.pc \in Promoted => run.version \in DOMAIN images
    /\ run.pc \in Resolved \ {"policy"} /\ run.push_latest => IsStable(run.version) /\ ~Recovery
    /\ run.pc = "promote_latest" => run.push_latest

\* A recovery works on the commit of its tag, and creates neither commit nor tag.
RecoveryInv ==
    Recovery =>
        /\ run.pc \notin {"push", "push_tag"}
        /\ run.pc \in Resolved \cup {"resolve"} => run.head = run.tag_commit
        /\ run.pc \in Resolved => versions[run.head] = run.version
        /\ run.pc \in {"absent", "build"} =>
              run.version \in DOMAIN git_tags /\ git_tags[run.version] = run.head

\* Any other run goes forward from the version of the commit it has checked out,
\* which the push makes sure is still the head of the branch.
FreshInv ==
    ~Recovery =>
        /\ run.pc \in {"policy", "absent", "build"} => Forward(versions[run.head], run.version)
        /\ run.pc = "push" =>
              run.tag_commit \in Commits /\ Forward(versions[run.tag_commit], run.version)
        /\ run.pc \in {"push_tag", "promote", "promote_latest"} => versions[branch] = run.version

TagsInv == \A v \in DOMAIN git_tags : versions[git_tags[v]] = v

\* The stable version l is not after the version v.
AtMost(l, v) == StableBefore(l, v) \/ (SameStable(l, v) /\ IsStable(v))

\* What is tagged latest is stable, not after the version of the branch, and before
\* the version that is on its way to be latest.
LatestInv ==
    latest # None =>
        /\ IsStable(latest.version)
        /\ AtMost(latest.version, versions[branch])
        /\ run.pc \in {"push_tag", "promote", "promote_latest"} /\ run.push_latest =>
              Before(latest.version, run.version)

ReleaseInv ==
    /\ TypeOK
    /\ RunInv
    /\ RecoveryInv
    /\ FreshInv
    /\ TagsInv
    /\ PublishedFromItsTag
    /\ LatestInv

-----------------------------------------------------------------------------
(* Versions and functions *)

LEMMA VersionFields ==
    ASSUME NEW v \in Version
    PROVE  v.major \in Nat /\ v.minor \in Nat /\ v.patch \in Nat /\ v.prerelease \in Seq(Identifier)
BY DEF Version

\* A step forward keeps latest behind, and passes it with a stable version.
LEMMA ForwardPassesLatest ==
    ASSUME NEW l \in Version, NEW u \in Version, NEW v \in Version,
           IsStable(l), AtMost(l, u), Forward(u, v)
    PROVE  AtMost(l, v) /\ (IsStable(v) => Before(l, v))
<1>1. CASE StableBefore(u, v)
  <2>1. StableBefore(l, v)
    BY <1>1, StableOrder DEF AtMost
  <2> QED BY <2>1 DEF AtMost, Before
<1>2. CASE SameStable(u, v) /\ ~IsStable(u)
  <2>1. StableBefore(l, v)
    BY <1>2, StableOrder DEF AtMost
  <2> QED BY <2>1 DEF AtMost, Before
<1>3. Ambiguous(u, v) => ~IsStable(u)
  BY AmbiguousParts
<1> QED BY <1>1, <1>2, <1>3 DEF Forward, Before, Restarted, Ambiguous

LEMMA AppendVersion ==
    ASSUME versions \in Seq(Version), NEW v \in Version
    PROVE  /\ Append(versions, v) \in Seq(Version)
           /\ DOMAIN Append(versions, v) = Commits \cup {Len(versions) + 1}
           /\ Len(Append(versions, v)) = Len(versions) + 1
           /\ Len(versions) + 1 \in Nat /\ Len(versions) + 1 \notin Commits
           /\ Append(versions, v)[Len(versions) + 1] = v
           /\ \A i \in Commits : Append(versions, v)[i] = versions[i]
BY DEF Commits

\* A run that goes to another step keeps all it knows.
LEMMA GoesFacts ==
    ASSUME run \in Run, NEW step \in Steps \cup {"ended"}, Goes(step)
    PROVE  /\ run' \in Run
           /\ run'.pc = step
           /\ run'.number = run.number
           /\ run'.existing_tag = run.existing_tag
           /\ run'.push_latest = run.push_latest
           /\ run'.tag_commit = run.tag_commit
           /\ run'.head = run.head
           /\ run'.version = run.version
           /\ run'.image = run.image
BY DEF Run, Goes

LEMMA RunFields ==
    ASSUME run \in Run
    PROVE  /\ run.pc \in Steps \cup {"ended"} /\ run.number \in Nat
           /\ run.existing_tag \in Version \cup {None} /\ run.push_latest \in BOOLEAN
           /\ run.tag_commit \in Nat /\ run.head \in Nat
           /\ run.version \in Version \cup {None} /\ run.image \in Image \cup {None}
BY DEF Run

\* The versions a run may resolve to: forward, or the one the tag has.
LEMMA ResolvableForward ==
    ASSUME TypeOK, NEW v \in Resolvable
    PROVE  /\ v \in Version
           /\ Recovery => v = versions[run.head]
           /\ ~Recovery => Forward(versions[run.head], v)
<1>1. versions[run.head] \in Version
  BY DEF TypeOK, Commits
<1>2. CASE Recovery
  BY <1>1, <1>2 DEF Resolvable
<1>3. CASE ~Recovery
  <2> DEFINE current == versions[run.head]
  <2>1. v \in UNION {Bumped(current, preid) : preid \in Preids}
        \/ (v \in CustomVersions /\ Newer(v, current))
    BY <1>3 DEF Resolvable
  <2>2. current \in Version
    BY <1>1
  <2> HIDE DEF current
  <2>3. CASE v \in UNION {Bumped(current, preid) : preid \in Preids}
    <3>1. PICK preid \in Preids : v \in Bumped(current, preid)
      BY <2>3
    <3>2. preid \in Nat
      BY VersionAssumption
    <3>3. v \in Version /\ (Before(current, v) \/ Restarted(current, v))
      BY <2>2, <3>1, <3>2, BumpsGoForward
    <3> QED BY <1>3, <3>3 DEF current, Forward
  <2>4. CASE v \in CustomVersions /\ Newer(v, current)
    <3>1. v \in Version
      BY <2>4, VersionAssumption
    <3>2. Before(current, v) \/ Ambiguous(v, current)
      BY <2>2, <2>4, <3>1, CompareOrdersVersions
    <3>3. Ambiguous(v, current) => Ambiguous(current, v)
      BY <2>2, <3>1, AmbiguousTurned
    <3> QED BY <1>3, <3>1, <3>2, <3>3 DEF current, Forward
  <2> QED BY <2>1, <2>3, <2>4
<1> QED BY <1>2, <1>3

-----------------------------------------------------------------------------
(* Every step preserves the invariant *)

\* A run that goes on and publishes nothing.
LEMMA GoesKeeps ==
    ASSUME ReleaseInv, UNCHANGED <<versions, branch, git_tags, images, latest, releases>>,
           run' \in Run, run'.head \in Commits, RunInv', RecoveryInv', FreshInv',
           run'.pc \in {"push_tag", "promote", "promote_latest"} =>
              run.pc \in {"push_tag", "promote", "promote_latest"}
                /\ run'.version = run.version /\ run'.push_latest = run.push_latest
    PROVE  ReleaseInv'
<1>1. TypeOK'
  BY DEF ReleaseInv, TypeOK, Commits
<1>2. TagsInv' /\ PublishedFromItsTag'
  BY DEF ReleaseInv, TagsInv, PublishedFromItsTag
<1>3. LatestInv'
  BY DEF ReleaseInv, LatestInv
<1> QED BY <1>1, <1>2, <1>3 DEF ReleaseInv

LEMMA DispatchKeeps ==
    ASSUME ReleaseInv, NEW t \in DOMAIN git_tags \cup {None}, NEW l \in BOOLEAN, Dispatch(t, l)
    PROVE  ReleaseInv'
<1> DEFINE commit == IF t = None THEN 0 ELSE git_tags[t]
<1>1. TypeOK
  BY DEF ReleaseInv
<1>2. /\ run' = [pc |-> "checkout", number |-> run.number + 1, existing_tag |-> t,
                 push_latest |-> l, tag_commit |-> commit, head |-> run.head,
                 version |-> None, image |-> None]
      /\ UNCHANGED <<versions, branch, git_tags, images, latest, releases>>
  BY DEF Dispatch
<1>3. t \in Version \cup {None} /\ run.number \in Nat /\ run.head \in Commits /\ run.head \in Nat
  BY <1>1, RunFields DEF TypeOK
<1>4. commit \in Nat /\ (t # None => commit \in Commits)
  BY <1>1 DEF TypeOK, Commits
<1> HIDE DEF commit
<1>5. run' \in Run /\ run'.pc = "checkout" /\ run'.head = run.head
      /\ run'.existing_tag = t /\ run'.tag_commit = commit
  BY <1>2, <1>3, <1>4 DEF Run, Steps
<1>6. RunInv' /\ RecoveryInv' /\ FreshInv'
  BY <1>2, <1>4, <1>5 DEF RunInv, RecoveryInv, FreshInv, Recovery, Commits, Resolved, Built,
                          Tagged, Promoted
<1> QED BY <1>2, <1>3, <1>5, <1>6, GoesKeeps

LEMMA CheckoutKeeps ==
    ASSUME ReleaseInv, Checkout
    PROVE  ReleaseInv'
<1> DEFINE head == IF Recovery THEN run.tag_commit ELSE branch
<1>1. /\ run.pc = "checkout" /\ run' = [run EXCEPT !.pc = "resolve", !.head = head]
      /\ UNCHANGED <<versions, branch, git_tags, images, latest, releases>>
  BY DEF Checkout, At
<1>2. run \in Run /\ head \in Commits /\ head \in Nat
  BY RunFields DEF ReleaseInv, TypeOK, RunInv, Commits
<1>3. Recovery => head = run.tag_commit
  OBVIOUS
<1> HIDE DEF head
<1>4. /\ run' \in Run /\ run'.pc = "resolve" /\ run'.head = head
      /\ run'.existing_tag = run.existing_tag /\ run'.tag_commit = run.tag_commit
  BY <1>1, <1>2 DEF Run, Steps
<1>5. RunInv' /\ RecoveryInv' /\ FreshInv'
  BY <1>1, <1>3, <1>4 DEF ReleaseInv, RunInv, RecoveryInv, FreshInv, Recovery, Commits, Resolved,
                          Built, Tagged, Promoted
<1> QED BY <1>1, <1>2, <1>4, <1>5, GoesKeeps

LEMMA ResolveKeeps ==
    ASSUME ReleaseInv, NEW v \in Resolvable, Resolve(v)
    PROVE  ReleaseInv'
<1>1. /\ run.pc = "resolve" /\ run' = [run EXCEPT !.pc = "policy", !.version = v]
      /\ UNCHANGED <<versions, branch, git_tags, images, latest, releases>>
  BY DEF Resolve, At
<1>2. /\ run \in Run /\ run.head \in Commits /\ v \in Version
      /\ Recovery => v = versions[run.head]
      /\ ~Recovery => Forward(versions[run.head], v)
  BY ResolvableForward DEF ReleaseInv, TypeOK
<1>3. /\ run' \in Run /\ run'.pc = "policy" /\ run'.head = run.head /\ run'.version = v
      /\ run'.existing_tag = run.existing_tag /\ run'.tag_commit = run.tag_commit
  BY <1>1, <1>2 DEF Run, Steps
<1>4. RunInv'
  BY <1>1, <1>2, <1>3 DEF ReleaseInv, RunInv, Recovery, Commits, Resolved, Built, Tagged, Promoted
<1>5. RecoveryInv'
  BY <1>1, <1>2, <1>3 DEF ReleaseInv, RecoveryInv, Recovery, Resolved
<1>6. FreshInv'
  BY <1>1, <1>2, <1>3 DEF ReleaseInv, FreshInv, Recovery
<1> QED BY <1>1, <1>2, <1>3, <1>4, <1>5, <1>6, GoesKeeps

\* Policy, ProveAbsent, Verify and Fail.
LEMMA CheckKeeps ==
    ASSUME ReleaseInv, Policy \/ ProveAbsent \/ Verify \/ Fail
    PROVE  ReleaseInv'
<1>1. /\ UNCHANGED <<versions, branch, git_tags, images, latest, releases>>
      /\ run \in Run /\ run.head \in Commits
      /\ RunInv /\ RecoveryInv /\ FreshInv
  BY DEF Policy, ProveAbsent, Verify, Fail, ReleaseInv, TypeOK
<1>2. CASE Policy
  <2>1. run.pc = "policy" /\ Goes("absent") /\ "absent" \in Steps
    BY <1>2 DEF Policy, At, Steps
  <2>2. /\ run' \in Run /\ run'.pc = "absent" /\ run'.number = run.number
        /\ run'.existing_tag = run.existing_tag /\ run'.push_latest = run.push_latest
        /\ run'.tag_commit = run.tag_commit /\ run'.head = run.head
        /\ run'.version = run.version /\ run'.image = run.image
    BY <1>1, <2>1, GoesFacts
  <2>3. RunInv'
    BY <1>1, <1>2, <2>1, <2>2
       DEF Policy, RunInv, Recovery, Commits, Resolved, Built, Tagged, Promoted, Steps
  <2>4. RecoveryInv'
    BY <1>1, <1>2, <2>1, <2>2 DEF Policy, RunInv, RecoveryInv, Recovery, Resolved, Steps
  <2>5. FreshInv'
    BY <1>1, <1>2, <2>1, <2>2 DEF Policy, FreshInv, Recovery
  <2> QED BY <1>1, <2>1, <2>2, <2>3, <2>4, <2>5, GoesKeeps
<1>3. CASE ProveAbsent
  <2>1. run.pc = "absent" /\ Goes("build") /\ "build" \in Steps
    BY <1>3 DEF ProveAbsent, At, Steps
  <2>2. /\ run' \in Run /\ run'.pc = "build" /\ run'.number = run.number
        /\ run'.existing_tag = run.existing_tag /\ run'.push_latest = run.push_latest
        /\ run'.tag_commit = run.tag_commit /\ run'.head = run.head
        /\ run'.version = run.version /\ run'.image = run.image
    BY <1>1, <2>1, GoesFacts
  <2>3. RunInv'
    BY <1>1, <1>3, <2>1, <2>2
       DEF ProveAbsent, RunInv, Recovery, Commits, Resolved, Built, Tagged, Promoted, Steps
  <2>4. RecoveryInv'
    BY <1>1, <1>3, <2>1, <2>2 DEF ProveAbsent, RecoveryInv, Recovery, Resolved, Steps
  <2>5. FreshInv'
    BY <1>1, <1>3, <2>1, <2>2 DEF ProveAbsent, FreshInv, Recovery
  <2> QED BY <1>1, <2>1, <2>2, <2>3, <2>4, <2>5, GoesKeeps
<1>4. CASE Verify
  <2>1. run.pc = "verify" /\ Goes("release") /\ "release" \in Steps
    BY <1>4 DEF Verify, At, Steps
  <2>2. /\ run' \in Run /\ run'.pc = "release" /\ run'.number = run.number
        /\ run'.existing_tag = run.existing_tag /\ run'.push_latest = run.push_latest
        /\ run'.tag_commit = run.tag_commit /\ run'.head = run.head
        /\ run'.version = run.version /\ run'.image = run.image
    BY <1>1, <2>1, GoesFacts
  <2>3. RunInv'
    BY <1>1, <1>4, <2>1, <2>2
       DEF RunInv, Recovery, Commits, Resolved, Built, Tagged, Promoted, Steps
  <2>4. RecoveryInv'
    BY <1>1, <1>4, <2>1, <2>2 DEF RecoveryInv, Recovery, Resolved, Steps
  <2>5. FreshInv'
    BY <1>1, <1>4, <2>1, <2>2 DEF FreshInv, Recovery
  <2> QED BY <1>1, <2>1, <2>2, <2>3, <2>4, <2>5, GoesKeeps
<1>5. CASE Fail
  <2>1. Goes("ended")
    BY <1>5 DEF Fail
  <2>2. /\ run' \in Run /\ run'.pc = "ended" /\ run'.number = run.number
        /\ run'.existing_tag = run.existing_tag /\ run'.push_latest = run.push_latest
        /\ run'.tag_commit = run.tag_commit /\ run'.head = run.head
        /\ run'.version = run.version /\ run'.image = run.image
    BY <1>1, <2>1, GoesFacts
  <2>3. RunInv'
    BY <1>1, <1>5, <2>1, <2>2
       DEF RunInv, Recovery, Commits, Resolved, Built, Tagged, Promoted, Steps
  <2>4. RecoveryInv'
    BY <1>1, <1>5, <2>1, <2>2 DEF RecoveryInv, Recovery, Resolved, Steps
  <2>5. FreshInv'
    BY <1>1, <1>5, <2>1, <2>2 DEF FreshInv, Recovery
  <2> QED BY <1>1, <2>1, <2>2, <2>3, <2>4, <2>5, GoesKeeps
<1> QED BY <1>2, <1>3, <1>4, <1>5

\* A commit that is added leaves the commits before it, and so the tags, alone.
LEMMA AppendKeepsTags ==
    ASSUME ReleaseInv, NEW v \in Version, versions' = Append(versions, v),
           UNCHANGED <<git_tags, images, releases>>
    PROVE  /\ versions' \in Seq(Version)
           /\ Commits' = Commits \cup {Len(versions) + 1}
           /\ Len(versions) + 1 \in Nat /\ Len(versions) + 1 \notin Commits
           /\ Len(versions') = Len(versions) + 1
           /\ versions'[Len(versions) + 1] = v
           /\ \A i \in Commits : i \in Commits' /\ versions'[i] = versions[i]
           /\ TagsInv' /\ PublishedFromItsTag'
<1>1. versions \in Seq(Version) /\ \A t \in DOMAIN git_tags : git_tags[t] \in Commits
  BY DEF ReleaseInv, TypeOK
<1>2. DOMAIN versions' = Commits \cup {Len(versions) + 1}
  BY <1>1, AppendVersion
<1>3. \A i \in Commits : i \in Commits' /\ versions'[i] = versions[i]
  BY <1>1, <1>2, AppendVersion DEF Commits
<1>4. TagsInv' /\ PublishedFromItsTag'
  BY <1>1, <1>3 DEF ReleaseInv, TagsInv, PublishedFromItsTag
<1> QED BY <1>1, <1>2, <1>3, <1>4, AppendVersion DEF Commits

LEMMA BuildKeeps ==
    ASSUME ReleaseInv, Build
    PROVE  ReleaseInv'
<1> DEFINE head == IF Recovery THEN run.head ELSE Len(versions) + 1
           image == [revision |-> head, version |-> run.version, run |-> run.number]
<1>1. /\ run.pc = "build"
      /\ versions' = (IF Recovery THEN versions ELSE Append(versions, run.version))
      /\ run' = [run EXCEPT !.pc = IF Recovery THEN "promote" ELSE "push",
                            !.head = head, !.tag_commit = run.head, !.image = image]
      /\ UNCHANGED <<branch, git_tags, images, latest, releases>>
  BY DEF Build, At
<1>2. /\ TypeOK /\ RunInv /\ RecoveryInv /\ FreshInv /\ TagsInv /\ PublishedFromItsTag
      /\ LatestInv
      /\ run \in Run /\ run.head \in Commits /\ run.version \in Version
      /\ versions \in Seq(Version)
  BY <1>1 DEF ReleaseInv, TypeOK, RunInv, Resolved, Steps
<1>3. run.head \in Nat /\ run.number \in Nat /\ Len(versions) + 1 \in Nat
  BY <1>2, RunFields
<1>4. head \in Nat /\ image \in Image
  BY <1>2, <1>3 DEF Image
<1> HIDE DEF head
<1>5. /\ run' \in Run
      /\ run'.pc = (IF Recovery THEN "promote" ELSE "push")
      /\ run'.number = run.number /\ run'.existing_tag = run.existing_tag
      /\ run'.push_latest = run.push_latest /\ run'.version = run.version
      /\ run'.head = head /\ run'.tag_commit = run.head /\ run'.image = image
  BY <1>1, <1>2, <1>3, <1>4 DEF Run, Steps
<1>6. /\ run.version \notin DOMAIN images
      /\ run.push_latest => IsStable(run.version) /\ ~Recovery
  BY <1>1, <1>2 DEF RunInv, Resolved, Steps
<1>7. CASE Recovery
  <2>1. /\ run'.pc = "promote" /\ head = run.head /\ run'.existing_tag # None
        /\ UNCHANGED versions
        /\ run.head = run.tag_commit /\ versions[run.head] = run.version
        /\ run.version \in DOMAIN git_tags /\ git_tags[run.version] = run.head
        /\ run.existing_tag \in DOMAIN git_tags /\ ~run.push_latest
    BY <1>1, <1>2, <1>5, <1>6, <1>7 DEF head, RunInv, RecoveryInv, Recovery, Resolved, Steps
  <2>2. TypeOK'
    BY <1>1, <1>2, <1>5, <2>1 DEF TypeOK, Commits
  <2>3. RunInv'
    BY <1>1, <1>2, <1>5, <1>6, <2>1
       DEF RunInv, Recovery, Commits, Resolved, Built, Tagged, Promoted, Steps
  <2>4. RecoveryInv' /\ FreshInv'
    BY <1>1, <1>5, <2>1 DEF RecoveryInv, FreshInv, Recovery, Resolved
  <2>5. TagsInv' /\ PublishedFromItsTag' /\ LatestInv'
    BY <1>1, <1>2, <1>5, <2>1 DEF TagsInv, PublishedFromItsTag, LatestInv
  <2> QED BY <2>2, <2>3, <2>4, <2>5 DEF ReleaseInv
<1>8. CASE ~Recovery
  <2>1. /\ run'.pc = "push" /\ head = Len(versions) + 1 /\ run'.existing_tag = None
        /\ versions' = Append(versions, run.version)
        /\ Forward(versions[run.head], run.version)
    BY <1>1, <1>2, <1>5, <1>8 DEF head, FreshInv, Recovery
  <2>2. /\ versions' \in Seq(Version) /\ Commits' = Commits \cup {head}
        /\ versions'[head] = run.version
        /\ \A i \in Commits : i \in Commits' /\ versions'[i] = versions[i]
        /\ TagsInv' /\ PublishedFromItsTag'
    BY <1>1, <1>2, <2>1, AppendKeepsTags
  <2>3. branch \in Commits /\ branch' = branch
    BY <1>1, <1>2 DEF TypeOK
  <2>4. TypeOK'
    BY <1>1, <1>2, <1>5, <2>2, <2>3 DEF TypeOK
  <2>5. RunInv'
    BY <1>1, <1>2, <1>5, <1>6, <2>1, <2>2
       DEF RunInv, Recovery, Resolved, Built, Tagged, Promoted, Steps
  <2>6. RecoveryInv' /\ FreshInv'
    BY <1>2, <1>5, <2>1, <2>2 DEF RecoveryInv, FreshInv, Recovery
  <2>7. LatestInv'
    BY <1>1, <1>2, <1>5, <2>1, <2>2, <2>3 DEF LatestInv
  <2> QED BY <2>2, <2>4, <2>5, <2>6, <2>7 DEF ReleaseInv
<1> QED BY <1>7, <1>8

LEMMA PushBranchKeeps ==
    ASSUME ReleaseInv, PushBranch
    PROVE  ReleaseInv'
<1>1. /\ run.pc = "push" /\ branch = run.tag_commit /\ branch' = run.head
      /\ Goes("push_tag") /\ "push_tag" \in Steps
      /\ UNCHANGED <<versions, git_tags, images, latest, releases>>
  BY DEF PushBranch, At, Steps
<1>2. /\ TypeOK /\ RunInv /\ RecoveryInv /\ FreshInv /\ TagsInv /\ PublishedFromItsTag
      /\ LatestInv
      /\ run \in Run /\ run.head \in Commits /\ branch \in Commits
      /\ versions \in Seq(Version)
  BY DEF ReleaseInv, TypeOK
<1>3. /\ run' \in Run /\ run'.pc = "push_tag" /\ run'.number = run.number
      /\ run'.existing_tag = run.existing_tag /\ run'.push_latest = run.push_latest
      /\ run'.tag_commit = run.tag_commit /\ run'.head = run.head
      /\ run'.version = run.version /\ run'.image = run.image
  BY <1>1, <1>2, GoesFacts
<1>4. /\ run.version \in Version /\ versions[run.head] = run.version
      /\ run.version \notin DOMAIN images
      /\ run.push_latest => IsStable(run.version)
  BY <1>1, <1>2 DEF RunInv, Resolved, Built, Steps
<1>5. run.existing_tag = None /\ Forward(versions[branch], run.version)
  BY <1>1, <1>2 DEF RecoveryInv, FreshInv, Recovery
<1>6. TypeOK'
  BY <1>1, <1>2, <1>3 DEF TypeOK, Commits
<1>7. RunInv'
  BY <1>1, <1>2, <1>3, <1>4, <1>5
     DEF RunInv, Recovery, Commits, Resolved, Built, Tagged, Promoted, Steps
<1>8. RecoveryInv' /\ FreshInv'
  BY <1>1, <1>3, <1>4, <1>5 DEF RecoveryInv, FreshInv, Recovery
<1>9. TagsInv' /\ PublishedFromItsTag'
  BY <1>1, <1>2 DEF TagsInv, PublishedFromItsTag
<1>10. LatestInv'
  <2>1. CASE latest = None
    BY <1>1, <2>1 DEF LatestInv
  <2>2. CASE latest # None
    <3>1. /\ latest.version \in Version /\ versions[branch] \in Version
          /\ IsStable(latest.version) /\ AtMost(latest.version, versions[branch])
      BY <1>2, <2>2 DEF TypeOK, Image, Commits, LatestInv
    <3>2. /\ AtMost(latest.version, run.version)
          /\ IsStable(run.version) => Before(latest.version, run.version)
      BY <1>4, <1>5, <3>1, ForwardPassesLatest
    <3> QED BY <1>1, <1>3, <1>4, <3>1, <3>2 DEF LatestInv
  <2> QED BY <2>1, <2>2
<1> QED BY <1>6, <1>7, <1>8, <1>9, <1>10 DEF ReleaseInv

LEMMA PushTagKeeps ==
    ASSUME ReleaseInv, PushTag
    PROVE  ReleaseInv'
<1>1. /\ run.pc = "push_tag" /\ run.version \notin DOMAIN git_tags
      /\ git_tags' = Mapped(git_tags, run.version, run.head)
      /\ Goes("promote") /\ "promote" \in Steps
      /\ UNCHANGED <<versions, branch, images, latest, releases>>
  BY DEF PushTag, At, Steps
<1>2. /\ TypeOK /\ RunInv /\ RecoveryInv /\ FreshInv /\ TagsInv /\ PublishedFromItsTag
      /\ LatestInv
      /\ run \in Run /\ run.head \in Commits
  BY DEF ReleaseInv, TypeOK
<1>3. /\ run' \in Run /\ run'.pc = "promote" /\ run'.number = run.number
      /\ run'.existing_tag = run.existing_tag /\ run'.push_latest = run.push_latest
      /\ run'.tag_commit = run.tag_commit /\ run'.head = run.head
      /\ run'.version = run.version /\ run'.image = run.image
  BY <1>1, <1>2, GoesFacts
<1>4. /\ run.version \in Version /\ versions[run.head] = run.version
      /\ run.version \notin DOMAIN images
  BY <1>1, <1>2 DEF RunInv, Resolved, Built, Steps
<1>5. run.existing_tag = None
  BY <1>1, <1>2 DEF RecoveryInv, Recovery
<1>6. /\ DOMAIN git_tags' = DOMAIN git_tags \cup {run.version}
      /\ git_tags'[run.version] = run.head
      /\ \A v \in DOMAIN git_tags : git_tags'[v] = git_tags[v]
  <2>1. git_tags' = [z \in DOMAIN git_tags \cup {run.version} |->
                        IF z = run.version THEN run.head ELSE git_tags[z]]
    BY <1>1 DEF Mapped
  <2> QED BY <1>1, <2>1
<1>7. TypeOK'
  BY <1>1, <1>2, <1>3, <1>4, <1>6 DEF TypeOK, Commits
<1>8. RunInv'
  BY <1>1, <1>2, <1>3, <1>4, <1>5, <1>6
     DEF RunInv, Recovery, Commits, Resolved, Built, Tagged, Promoted, Steps
<1>9. RecoveryInv' /\ FreshInv'
  BY <1>1, <1>2, <1>3, <1>5 DEF RecoveryInv, FreshInv, Recovery
<1>10. TagsInv' /\ PublishedFromItsTag'
  BY <1>1, <1>2, <1>4, <1>6 DEF TagsInv, PublishedFromItsTag
<1>11. LatestInv'
  BY <1>1, <1>2, <1>3 DEF LatestInv
<1> QED BY <1>7, <1>8, <1>9, <1>10, <1>11 DEF ReleaseInv

LEMMA PromoteVersionKeeps ==
    ASSUME ReleaseInv, PromoteVersion
    PROVE  ReleaseInv'
<1> DEFINE next == IF run.push_latest THEN "promote_latest" ELSE "verify"
<1>1. /\ run.pc = "promote" /\ images' = Mapped(images, run.version, run.image)
      /\ Goes(next) /\ next \in Steps
      /\ UNCHANGED <<versions, branch, git_tags, latest, releases>>
  BY DEF PromoteVersion, At, Steps
<1>2. /\ next \in {"promote_latest", "verify"}
      /\ next = "promote_latest" => run.push_latest
  OBVIOUS
<1> HIDE DEF next
<1>3. /\ TypeOK /\ RunInv /\ RecoveryInv /\ FreshInv /\ TagsInv /\ PublishedFromItsTag
      /\ LatestInv
      /\ run \in Run /\ run.head \in Commits
  BY DEF ReleaseInv, TypeOK
<1>4. /\ run' \in Run /\ run'.pc = next /\ run'.number = run.number
      /\ run'.existing_tag = run.existing_tag /\ run'.push_latest = run.push_latest
      /\ run'.tag_commit = run.tag_commit /\ run'.head = run.head
      /\ run'.version = run.version /\ run'.image = run.image
  BY <1>1, <1>3, GoesFacts
<1>5. /\ run.version \in Version
      /\ run.image = [revision |-> run.head, version |-> run.version, run |-> run.number]
      /\ run.version \notin DOMAIN images
      /\ run.version \in DOMAIN git_tags /\ git_tags[run.version] = run.head
  BY <1>1, <1>3 DEF RunInv, Resolved, Built, Tagged, Steps
<1>6. run.image \in Image /\ run.image.revision = run.head
  BY <1>3, <1>5, RunFields DEF Image
<1>7. /\ DOMAIN images' = DOMAIN images \cup {run.version}
      /\ images'[run.version] = run.image
      /\ \A v \in DOMAIN images : images'[v] = images[v]
  <2>1. images' = [z \in DOMAIN images \cup {run.version} |->
                      IF z = run.version THEN run.image ELSE images[z]]
    BY <1>1 DEF Mapped
  <2> QED BY <1>5, <2>1
<1>8. TypeOK'
  BY <1>1, <1>3, <1>4, <1>5, <1>6, <1>7 DEF TypeOK, Commits
<1>9. RunInv'
  BY <1>1, <1>2, <1>3, <1>4, <1>5, <1>7
     DEF RunInv, Recovery, Commits, Resolved, Built, Tagged, Promoted, Steps
<1>10. RecoveryInv'
  BY <1>1, <1>2, <1>3, <1>4 DEF RecoveryInv, Recovery, Resolved, Steps
<1>11. FreshInv'
  BY <1>1, <1>2, <1>3, <1>4 DEF FreshInv, Recovery
<1>12. TagsInv' /\ PublishedFromItsTag'
  <2>1. TagsInv'
    BY <1>1, <1>3 DEF TagsInv
  <2>2. versions[git_tags[run.version]] = run.version
    BY <1>3, <1>5 DEF TagsInv
  <2>3. PublishedFromItsTag'
    BY <1>1, <1>3, <1>5, <1>6, <1>7, <2>2 DEF PublishedFromItsTag
  <2> QED BY <2>1, <2>3
<1>13. LatestInv'
  BY <1>1, <1>2, <1>3, <1>4 DEF LatestInv
<1> QED BY <1>8, <1>9, <1>10, <1>11, <1>12, <1>13 DEF ReleaseInv

\* Latest moves to the version of the branch, which is stable and after the one
\* that was latest.
LEMMA PromoteLatestFacts ==
    ASSUME ReleaseInv, PromoteLatest
    PROVE  /\ run.image \in Image /\ run.image.version = run.version
           /\ IsStable(run.version)
           /\ versions[branch] = run.version
           /\ latest # None => Before(latest.version, run.version)
<1>1. /\ run.pc = "promote_latest"
      /\ TypeOK /\ RunInv /\ FreshInv /\ LatestInv /\ run \in Run
  BY DEF PromoteLatest, At, ReleaseInv, TypeOK
<1>2. /\ run.version \in Version /\ run.push_latest
      /\ run.image = [revision |-> run.head, version |-> run.version, run |-> run.number]
      /\ IsStable(run.version) /\ ~Recovery
  BY <1>1 DEF RunInv, Resolved, Built, Steps
<1>3. run.image \in Image /\ run.image.version = run.version
  BY <1>1, <1>2, RunFields DEF Image
<1>4. /\ versions[branch] = run.version
      /\ latest # None => Before(latest.version, run.version)
  BY <1>1, <1>2 DEF FreshInv, LatestInv
<1> QED BY <1>2, <1>3, <1>4

LEMMA PromoteLatestKeeps ==
    ASSUME ReleaseInv, PromoteLatest
    PROVE  ReleaseInv'
<1>1. /\ run.pc = "promote_latest" /\ latest' = run.image
      /\ Goes("verify") /\ "verify" \in Steps
      /\ UNCHANGED <<versions, branch, git_tags, images, releases>>
  BY DEF PromoteLatest, At, Steps
<1>2. /\ TypeOK /\ RunInv /\ RecoveryInv /\ FreshInv /\ TagsInv /\ PublishedFromItsTag
      /\ run \in Run /\ run.head \in Commits
  BY DEF ReleaseInv, TypeOK
<1>3. /\ run' \in Run /\ run'.pc = "verify" /\ run'.number = run.number
      /\ run'.existing_tag = run.existing_tag /\ run'.push_latest = run.push_latest
      /\ run'.tag_commit = run.tag_commit /\ run'.head = run.head
      /\ run'.version = run.version /\ run'.image = run.image
  BY <1>1, <1>2, GoesFacts
<1>4. TypeOK'
  BY <1>1, <1>2, <1>3, PromoteLatestFacts DEF TypeOK, Commits
<1>5. RunInv'
  BY <1>1, <1>2, <1>3
     DEF RunInv, Recovery, Commits, Resolved, Built, Tagged, Promoted, Steps
<1>6. RecoveryInv' /\ FreshInv'
  BY <1>1, <1>2, <1>3 DEF RecoveryInv, FreshInv, Recovery, Resolved, Steps
<1>7. TagsInv' /\ PublishedFromItsTag'
  BY <1>1, <1>2 DEF TagsInv, PublishedFromItsTag
<1>8. LatestInv'
  BY <1>1, <1>3, PromoteLatestFacts DEF LatestInv, AtMost, SameStable
<1> QED BY <1>4, <1>5, <1>6, <1>7, <1>8 DEF ReleaseInv

LEMMA CreateReleaseKeeps ==
    ASSUME ReleaseInv, CreateRelease
    PROVE  ReleaseInv'
<1>1. /\ run.pc = "release" /\ releases' = releases \cup {run.version} /\ Goes("ended")
      /\ UNCHANGED <<versions, branch, git_tags, images, latest>>
  BY DEF CreateRelease, At
<1>2. /\ TypeOK /\ RunInv /\ RecoveryInv /\ FreshInv /\ TagsInv /\ PublishedFromItsTag
      /\ LatestInv
      /\ run \in Run /\ run.head \in Commits
  BY DEF ReleaseInv, TypeOK
<1>3. /\ run' \in Run /\ run'.pc = "ended" /\ run'.number = run.number
      /\ run'.existing_tag = run.existing_tag /\ run'.push_latest = run.push_latest
      /\ run'.tag_commit = run.tag_commit /\ run'.head = run.head
      /\ run'.version = run.version /\ run'.image = run.image
  BY <1>1, <1>2, GoesFacts
<1>4. run.version \in Version /\ run.version \in DOMAIN images
  BY <1>1, <1>2 DEF RunInv, Resolved, Promoted, Steps
<1>5. TypeOK'
  BY <1>1, <1>2, <1>3, <1>4 DEF TypeOK, Commits
<1>6. RunInv'
  BY <1>1, <1>2, <1>3
     DEF RunInv, Recovery, Commits, Resolved, Built, Tagged, Promoted, Steps
<1>7. RecoveryInv' /\ FreshInv'
  BY <1>3 DEF RecoveryInv, FreshInv, Resolved, Steps
<1>8. TagsInv' /\ PublishedFromItsTag'
  BY <1>1, <1>2, <1>4 DEF TagsInv, PublishedFromItsTag
<1>9. LatestInv'
  BY <1>1, <1>2, <1>3 DEF LatestInv
<1> QED BY <1>5, <1>6, <1>7, <1>8, <1>9 DEF ReleaseInv

LEMMA MergeKeeps ==
    ASSUME ReleaseInv, Merge
    PROVE  ReleaseInv'
<1>1. /\ versions' = Append(versions, versions[branch]) /\ branch' = Len(versions')
      /\ UNCHANGED <<git_tags, images, latest, releases, run>>
  BY DEF Merge
<1>2. /\ TypeOK /\ RunInv /\ RecoveryInv /\ FreshInv /\ LatestInv
      /\ run \in Run /\ run.head \in Commits /\ branch \in Commits
      /\ versions[branch] \in Version
  BY DEF ReleaseInv, TypeOK, Commits
<1>3. /\ versions' \in Seq(Version) /\ branch' \in Commits'
      /\ versions'[branch'] = versions[branch]
      /\ \A i \in Commits : i \in Commits' /\ versions'[i] = versions[i]
      /\ TagsInv' /\ PublishedFromItsTag'
  BY <1>1, <1>2, AppendKeepsTags
<1>4. TypeOK'
  BY <1>1, <1>2, <1>3 DEF TypeOK
<1>5. RunInv'
  BY <1>1, <1>2, <1>3 DEF RunInv, Recovery
<1>6. RecoveryInv' /\ FreshInv'
  BY <1>1, <1>2, <1>3 DEF RecoveryInv, FreshInv, Recovery
<1>7. LatestInv'
  BY <1>1, <1>2, <1>3 DEF LatestInv
<1> QED BY <1>3, <1>4, <1>5, <1>6, <1>7 DEF ReleaseInv

LEMMA ReleaseInvInit ==
    ASSUME Init
    PROVE  ReleaseInv
<1>1. /\ versions \in Seq(Version) /\ Commits = {1} /\ InitialVersion \in Version
  BY VersionAssumption DEF Init, Commits
<1>2. TypeOK
  BY <1>1 DEF Init, TypeOK, Run
<1>3. RunInv /\ RecoveryInv /\ FreshInv
  BY DEF Init, RunInv, RecoveryInv, FreshInv, Recovery, Resolved, Built, Tagged, Promoted, Steps
<1>4. TagsInv /\ PublishedFromItsTag /\ LatestInv
  BY DEF Init, TagsInv, PublishedFromItsTag, LatestInv
<1> QED BY <1>2, <1>3, <1>4 DEF ReleaseInv

LEMMA ReleaseInvStep ==
    ASSUME ReleaseInv, [Next]_vars
    PROVE  ReleaseInv'
<1>1. CASE Next
  BY <1>1, DispatchKeeps, CheckoutKeeps, ResolveKeeps, CheckKeeps, BuildKeeps, PushBranchKeeps,
     PushTagKeeps, PromoteVersionKeeps, PromoteLatestKeeps, CreateReleaseKeeps, MergeKeeps
     DEF Next
<1>2. CASE UNCHANGED vars
  BY <1>2 DEF vars, ReleaseInv, TypeOK, RunInv, RecoveryInv, FreshInv, TagsInv,
              PublishedFromItsTag, LatestInv, Recovery, Commits
<1> QED BY <1>1, <1>2

LEMMA ReleaseInvHolds == Spec => []ReleaseInv
BY ReleaseInvInit, ReleaseInvStep, PTL DEF Spec

-----------------------------------------------------------------------------
(* The theorems *)

\* The state has its type: the branch, the tags and the run name commits that are.
THEOREM ReleaseTypeCorrect == Spec => []TypeOK
<1>1. ReleaseInv => TypeOK
  BY DEF ReleaseInv
<1> QED BY <1>1, ReleaseInvHolds, PTL

\* A GitHub release has an image, and an image was built from the commit its git tag
\* names, which holds its version (release.yml).
THEOREM ReleasesMatchTheirTags == Spec => []PublishedFromItsTag
<1>1. ReleaseInv => PublishedFromItsTag
  BY DEF ReleaseInv
<1> QED BY <1>1, ReleaseInvHolds, PTL

\* No run overwrites or removes a version tag of the registry (release.yml, "Prove
\* immutable version tag is absent").
THEOREM PublishedTagsStay == Spec => VersionTagsImmutable
<1> DEFINE Stay == \A v \in DOMAIN images : v \in DOMAIN images' /\ images'[v] = images[v]
<1>1. ASSUME ReleaseInv, [Next]_vars
      PROVE  Stay
  <2>1. CASE PromoteVersion
    <3>1. run.version \notin DOMAIN images
      BY <1>1, <2>1 DEF PromoteVersion, At, ReleaseInv, RunInv
    <3>2. images' = [z \in DOMAIN images \cup {run.version} |->
                        IF z = run.version THEN run.image ELSE images[z]]
      BY <2>1 DEF PromoteVersion, Mapped
    <3> QED BY <3>1, <3>2
  <2>2. CASE ~PromoteVersion
    <3>1. UNCHANGED images
      BY <1>1, <2>2 DEF Next, vars, Dispatch, Checkout, Resolve, Policy, ProveAbsent, Build,
                        PushBranch, PushTag, PromoteLatest, Verify, CreateRelease, Fail, Merge
    <3> QED BY <3>1
  <2> QED BY <2>1, <2>2
<1>2. ASSUME ReleaseInv, [Next]_vars
      PROVE  [Stay]_vars
  BY <1>1, <1>2
<1> HIDE DEF Stay
<1>3. Spec => [][Stay]_vars
  BY <1>2, ReleaseInvHolds, PTL DEF Spec
<1> QED BY <1>3 DEF Stay, VersionTagsImmutable

\* Latest only moves to a stable version after the one it had, although old tags are
\* recovered and developers merge in the middle of a run (release.yml).
THEOREM LatestNeverGoesBack == Spec => LatestMovesForward
<1> DEFINE Moves == latest' # latest =>
                        /\ IsStable(latest'.version)
                        /\ latest # None => Before(latest.version, latest'.version)
<1>1. ASSUME ReleaseInv, [Next]_vars
      PROVE  Moves
  <2>1. CASE PromoteLatest
    <3>1. latest' = run.image
      BY <2>1 DEF PromoteLatest
    <3> QED BY <2>1, <3>1, <1>1, PromoteLatestFacts
  <2>2. CASE ~PromoteLatest
    <3>1. UNCHANGED latest
      BY <1>1, <2>2 DEF Next, vars, Dispatch, Checkout, Resolve, Policy, ProveAbsent, Build,
                        PushBranch, PushTag, PromoteVersion, Verify, CreateRelease, Fail, Merge
    <3> QED BY <3>1
  <2> QED BY <2>1, <2>2
<1>2. ASSUME ReleaseInv, [Next]_vars
      PROVE  [Moves]_vars
  BY <1>1, <1>2
<1> HIDE DEF Moves
<1>3. Spec => [][Moves]_vars
  BY <1>2, ReleaseInvHolds, PTL DEF Spec
<1> QED BY <1>3 DEF Moves, LatestMovesForward

\* The version of the default branch goes forward, whatever run pushes and whatever
\* was merged meanwhile, unless a prerelease is restarted (bump_prerelease) or an
\* explicit version changes the leading zeros of a number (_compare_identifiers).
THEOREM BranchGoesForward == Spec => ForwardUnlessRestarted
<1> DEFINE old == versions[branch]
           new == versions'[branch']
           Moves == \/ new = old
                    \/ Before(old, new)
                    \/ /\ SameStable(old, new) /\ ~IsStable(old) /\ ~IsStable(new)
                       /\ Head(old.prerelease) # Head(new.prerelease)
                    \/ Ambiguous(old, new)
<1>1. ASSUME ReleaseInv, [Next]_vars
      PROVE  Moves
  <2>1. versions \in Seq(Version) /\ branch \in Commits /\ versions[branch] \in Version
    BY <1>1 DEF ReleaseInv, TypeOK, Commits
  <2>2. CASE PushBranch
    <3>1. /\ run.pc = "push" /\ branch = run.tag_commit /\ branch' = run.head
          /\ UNCHANGED versions
      BY <2>2 DEF PushBranch, At
    <3>2. ~Recovery /\ versions[run.head] = run.version
      BY <1>1, <3>1 DEF ReleaseInv, RecoveryInv, RunInv, Built
    <3>3. Forward(versions[branch], run.version)
      BY <1>1, <3>1, <3>2 DEF ReleaseInv, FreshInv
    <3>4. new = run.version
      BY <3>1, <3>2
    <3> QED BY <3>3, <3>4 DEF Forward, Restarted
  <2>3. CASE Merge
    <3>1. versions' = Append(versions, versions[branch]) /\ branch' = Len(versions')
      BY <2>3 DEF Merge
    <3> QED BY <2>1, <3>1
  <2>4. CASE Build
    <3>1. /\ run.pc = "build" /\ UNCHANGED branch
          /\ versions' = versions \/ versions' = Append(versions, run.version)
      BY <2>4 DEF Build, At
    <3>2. run.version \in Version
      BY <1>1, <3>1 DEF ReleaseInv, RunInv, Resolved, Steps
    <3>3. versions'[branch] = versions[branch]
      BY <2>1, <3>1, <3>2, AppendVersion
    <3> QED BY <3>1, <3>3
  <2>5. CASE ~PushBranch /\ ~Merge /\ ~Build
    <3>1. UNCHANGED <<versions, branch>>
      BY <1>1, <2>5 DEF Next, vars, Dispatch, Checkout, Resolve, Policy, ProveAbsent, PushTag,
                        PromoteVersion, PromoteLatest, Verify, CreateRelease, Fail
    <3> QED BY <3>1
  <2> QED BY <2>2, <2>3, <2>4, <2>5
<1>2. ASSUME ReleaseInv, [Next]_vars
      PROVE  [Moves]_vars
  BY <1>1, <1>2
<1> HIDE DEF Moves
<1>3. Spec => [][Moves]_vars
  BY <1>2, ReleaseInvHolds, PTL DEF Spec
<1> QED BY <1>3 DEF Moves, ForwardUnlessRestarted
=============================================================================
