--------------------------- MODULE ReleaseWorkflow ---------------------------
(***************************************************************************)
(* The release workflow, .github/workflows/release.yml, with the scripts   *)
(* it runs: a run resolves a version, checks that it is new, builds and    *)
(* qualifies an image, publishes the commit and its tag, and promotes the  *)
(* image to its version tag and to latest.  Any step may fail, and leaves  *)
(* behind what the steps before it have done.  A run that names an         *)
(* existing tag publishes the image an earlier run did not get to.         *)
(*                                                                         *)
(* The concurrency group admits one run at a time; developers merge into   *)
(* the default branch meanwhile.                                           *)
(***************************************************************************)
EXTENDS SemVer

CONSTANTS
    InitialVersion,  \* the version of the first commit
    Preids,          \* the words of PREID_CHOICES, by their rank
    CustomVersions,  \* versions that may be given explicitly
    None,
    MaxNumber,       \* bound on the numbers of a version
    MaxIdentifiers,  \* bound on the identifiers of a prerelease
    MaxRuns,         \* bound on the runs
    MaxMerges        \* bound on the commits of developers

ASSUME VersionAssumption ==
    /\ InitialVersion \in Version
    /\ CustomVersions \subseteq Version
    /\ Preids \subseteq Nat

ASSUME NoneAssumption == None \notin Version \cup Nat

VARIABLES
    versions,       \* the version of each commit, in the order of creation
    branch,         \* the commit at the head of the default branch
    git_tags,       \* version tags of the repository: version -> commit
    images,         \* version tags of the registry: version -> image
    latest,         \* the image tagged latest, or None
    releases,       \* versions with a GitHub release
    run             \* the run under way, or the last one

vars == <<versions, branch, git_tags, images, latest, releases, run>>

Steps == {"checkout", "resolve", "policy", "absent", "build", "push", "push_tag",
          "promote", "promote_latest", "verify", "release"}

\* An image is the revision and the version it is labelled with, and the run
\* that built it, on which its digest depends.
Image == [revision: Nat, version: Version, run: Nat]

Run == [pc: Steps \cup {"ended"},
        number: Nat,
        existing_tag: Version \cup {None},
        push_latest: BOOLEAN,
        tag_commit: Nat,                \* of existing_tag, by the preflight job
        head: Nat,                      \* the commit checked out, or created
        version: Version \cup {None},
        image: Image \cup {None}]

\* The function f changed or extended to map x to y.
Mapped(f, x, y) == [z \in DOMAIN f \cup {x} |-> IF z = x THEN y ELSE f[z]]

Commits == DOMAIN versions

TypeOK ==
    /\ versions \in Seq(Version)
    /\ branch \in Commits
    /\ DOMAIN git_tags \subseteq Version
    /\ \A v \in DOMAIN git_tags : git_tags[v] \in Commits
    /\ DOMAIN images \subseteq Version
    /\ \A v \in DOMAIN images : images[v] \in Image
    /\ latest \in Image \cup {None}
    /\ releases \subseteq Version
    /\ run \in Run
    /\ run.head \in Commits

Init ==
    /\ versions = <<InitialVersion>>
    /\ branch = 1
    /\ git_tags = [v \in {} |-> 0]
    /\ images = [v \in {} |-> None]
    /\ latest = None
    /\ releases = {}
    /\ run = [pc |-> "ended", number |-> 0, existing_tag |-> None, push_latest |-> FALSE,
              tag_commit |-> 0, head |-> 1, version |-> None, image |-> None]

-----------------------------------------------------------------------------
(* The steps of a run *)

At(step) == run.pc = step

Goes(step) == run' = [run EXCEPT !.pc = step]

Recovery == run.existing_tag # None

\* The preflight job; only a stable tag without build metadata may be named.
Dispatch(existing_tag, push_latest) ==
    /\ At("ended")
    /\ run.number < MaxRuns
    /\ existing_tag # None =>
          /\ existing_tag \in DOMAIN git_tags
          /\ IsStable(existing_tag) /\ existing_tag.build = 0
    /\ run' = [pc |-> "checkout", number |-> run.number + 1,
               existing_tag |-> existing_tag, push_latest |-> push_latest,
               tag_commit |-> IF existing_tag = None THEN 0 ELSE git_tags[existing_tag],
               head |-> run.head, version |-> None, image |-> None]
    /\ UNCHANGED <<versions, branch, git_tags, images, latest, releases>>

\* Check out repository
Checkout ==
    /\ At("checkout")
    /\ run' = [run EXCEPT !.pc = "resolve",
                          !.head = IF Recovery THEN run.tag_commit ELSE branch]
    /\ UNCHANGED <<versions, branch, git_tags, images, latest, releases>>

\* The versions a run may resolve to: resolve_target_version of release.py.
Resolvable ==
    LET current == versions[run.head]
    IN  IF Recovery THEN {current}
        ELSE (UNION {Bumped(current, preid) : preid \in Preids})
             \cup {v \in CustomVersions : Newer(v, current)}

WithinBound(v) ==
    /\ v.major <= MaxNumber /\ v.minor <= MaxNumber /\ v.patch <= MaxNumber
    /\ Len(v.prerelease) <= MaxIdentifiers
    /\ \A i \in DOMAIN v.prerelease :
          v.prerelease[i].numeric => v.prerelease[i].value <= MaxNumber

\* Resolve release version
Resolve(v) ==
    /\ At("resolve")
    /\ v \in Resolvable
    /\ WithinBound(v)                                    \* bound
    /\ run' = [run EXCEPT !.pc = "policy", !.version = v]
    /\ UNCHANGED <<versions, branch, git_tags, images, latest, releases>>

\* Mutant: a recovery may move latest.
PolicyOfStable ==
    /\ At("policy")
    /\ run.push_latest => IsStable(run.version)
    /\ Recovery =>
          run.existing_tag = run.version /\ git_tags[run.version] = run.tag_commit
    /\ Goes("absent")
    /\ UNCHANGED <<versions, branch, git_tags, images, latest, releases>>

\* Validate release policy.  A version whose tag exists is refused, unless git
\* ls-remote fails: its error is taken for an absent tag, so any version passes.
Policy ==
    /\ At("policy")
    /\ run.push_latest => IsStable(run.version) /\ ~Recovery
    /\ Recovery =>
          /\ run.existing_tag = run.version
          /\ git_tags[run.version] = run.tag_commit
    /\ Goes("absent")
    /\ UNCHANGED <<versions, branch, git_tags, images, latest, releases>>

\* Mutant: the registry is not asked.
ProveAbsentOfNothing ==
    /\ At("absent")
    /\ Goes("build")
    /\ UNCHANGED <<versions, branch, git_tags, images, latest, releases>>

\* Prove immutable version tag is absent
ProveAbsent ==
    /\ At("absent")
    /\ run.version \notin DOMAIN images
    /\ Goes("build")
    /\ UNCHANGED <<versions, branch, git_tags, images, latest, releases>>

\* Mutant: the metadata is not committed, and the revision is made up.
BuildUncommitted ==
    LET head == IF Recovery THEN run.head ELSE Len(versions) + 1
    IN  /\ At("build")
        /\ ~Recovery => run.version \notin DOMAIN git_tags
        /\ run' = [run EXCEPT !.pc = IF Recovery THEN "promote" ELSE "push",
                              !.head = head,
                              !.tag_commit = run.head,
                              !.image = [revision |-> head, version |-> run.version,
                                         run |-> run.number]]
        /\ UNCHANGED <<versions, branch, git_tags, images, latest, releases>>

\* Commit release metadata and tag the commit, which git refuses for a tag that the
\* checkout has fetched; then build, stage and qualify the candidate.
Build ==
    LET head == IF Recovery THEN run.head ELSE Len(versions) + 1
    IN  /\ At("build")
        /\ ~Recovery => run.version \notin DOMAIN git_tags
        /\ versions' = IF Recovery THEN versions ELSE Append(versions, run.version)
        /\ run' = [run EXCEPT !.pc = IF Recovery THEN "promote" ELSE "push",
                              !.head = head,
                              !.tag_commit = run.head,
                              !.image = [revision |-> head, version |-> run.version,
                                         run |-> run.number]]
        /\ UNCHANGED <<branch, git_tags, images, latest, releases>>

\* git push origin HEAD: only if nobody has merged since the checkout.
PushBranch ==
    /\ At("push")
    /\ branch = run.tag_commit
    /\ branch' = run.head
    /\ Goes("push_tag")
    /\ UNCHANGED <<versions, git_tags, images, latest, releases>>

\* Mutant: the image is promoted whether or not the tag could be pushed.
PushTagOrNot ==
    /\ At("push_tag")
    /\ git_tags' \in {git_tags, Mapped(git_tags, run.version, run.head)}
    /\ Goes("promote")
    /\ UNCHANGED <<versions, branch, images, latest, releases>>

PushTag ==
    /\ At("push_tag")
    /\ run.version \notin DOMAIN git_tags
    /\ git_tags' = Mapped(git_tags, run.version, run.head)
    /\ Goes("promote")
    /\ UNCHANGED <<versions, branch, images, latest, releases>>

\* Promote qualified digest without rebuilding: the version tag, then latest.  An
\* image tag holds no "+", so a version with build metadata gets no further.
PromoteVersion ==
    /\ At("promote")
    /\ run.version.build = 0
    /\ images' = Mapped(images, run.version, run.image)
    /\ Goes(IF run.push_latest THEN "promote_latest" ELSE "verify")
    /\ UNCHANGED <<versions, branch, git_tags, latest, releases>>

PromoteLatest ==
    /\ At("promote_latest")
    /\ latest' = run.image
    /\ Goes("verify")
    /\ UNCHANGED <<versions, branch, git_tags, images, releases>>

\* Verify promoted digest and platforms
Verify ==
    /\ At("verify")
    /\ images[run.version] = run.image
    /\ run.push_latest => latest = run.image
    /\ Goes("release")
    /\ UNCHANGED <<versions, branch, git_tags, images, latest, releases>>

\* Create GitHub release
CreateRelease ==
    /\ At("release")
    /\ releases' = releases \cup {run.version}
    /\ Goes("ended")
    /\ UNCHANGED <<versions, branch, git_tags, images, latest>>

\* Any step fails, before or after its effect.
Fail ==
    /\ ~At("ended")
    /\ Goes("ended")
    /\ UNCHANGED <<versions, branch, git_tags, images, latest, releases>>

\* A developer merges a change that leaves the version alone.
Merge ==
    /\ Len(versions) < MaxRuns + MaxMerges               \* bound
    /\ versions' = Append(versions, versions[branch])
    /\ branch' = Len(versions')
    /\ UNCHANGED <<git_tags, images, latest, releases, run>>

Next ==
    \/ \E t \in DOMAIN git_tags \cup {None}, l \in BOOLEAN : Dispatch(t, l)
    \/ Checkout
    \/ \E v \in Resolvable : Resolve(v)
    \/ Policy
    \/ ProveAbsent
    \/ Build
    \/ PushBranch
    \/ PushTag
    \/ PromoteVersion
    \/ PromoteLatest
    \/ Verify
    \/ CreateRelease
    \/ Fail
    \/ Merge

Spec == Init /\ [][Next]_vars

-----------------------------------------------------------------------------
(* Properties *)

\* What is released can be pulled, and what can be pulled was built from the
\* source that its tag names: a GitHub release has an image, an image has a git
\* tag, and the tag's commit holds the version and is the image's revision.
PublishedFromItsTag ==
    /\ releases \subseteq DOMAIN images
    /\ \A v \in DOMAIN images :
          /\ v \in DOMAIN git_tags
          /\ images[v].revision = git_tags[v]
          /\ versions[git_tags[v]] = v

\* A version tag of the registry is written once: no later run, a recovery from
\* an existing tag included, removes it or points it at another digest.
VersionTagsImmutable ==
    [][\A v \in DOMAIN images : v \in DOMAIN images' /\ images'[v] = images[v]]_vars

\* Whoever pulls latest never goes back: latest moves only to a stable version
\* after the one it had, also when the image of an older tag is recovered late.
LatestMovesForward ==
    [][latest' # latest =>
          /\ IsStable(latest'.version)
          /\ latest # None => Before(latest.version, latest'.version)]_vars

\* The version of the default branch goes forward, except that a prerelease may
\* be restarted under another identifier (bump_prerelease), and that an explicit
\* version may differ in the leading zeros of a number (_compare_identifiers).
ForwardUnlessRestarted ==
    [][LET old == versions[branch]
           new == versions'[branch']
       IN  \/ new = old
           \/ Before(old, new)
           \/ /\ SameStable(old, new) /\ ~IsStable(old) /\ ~IsStable(new)
              /\ Head(old.prerelease) # Head(new.prerelease)
           \/ Ambiguous(old, new)]_vars
=============================================================================
