# Verification of the Airthings runtime

TLA+ models of `piphi-network-airthings`, the TLC runs that check them and the
TLAPS proofs about them.  Paths are relative to the repository; `runtime.py`,
`client.py`, `models.py`, `runtime_auth.py` and `lifespan.py` are the files of
that name under `src/piphi_network_airthings/`.

## The system

One Python process serves HTTP requests of PiPhi Core on a single asyncio loop,
polls the Airthings consumer cloud once per configured device and interval, and
delivers what it reads to Core.

| Component | State | Operations | Hard behaviour |
|---|---|---|---|
| Runtime core, `runtime.py` | `registry` (entries, snapshots, events), `poll_tasks`, `poll_status`, marks in each entry dict | `apply_config`, `remove_config`, `_poll_config`, `poll_once`, `_read_and_store`, the refresh command, the `/state` sweep, delivery callbacks | every one of them suspends while the others run; entries, tasks and health are captured before an await and used after it; deliveries complete in any order |
| Cloud client, `client.py` | `_token_cache`, `_account_cache`, the HTTP client | `list_devices`, `latest_sample`, `_request` with retries, `_clear_cached_auth`, `aclose` | concurrent calls share the caches; late tokens and late rejections; bounded retries |
| Payload models, `models.py` | none | parsing of two shapes, range validation, capability lists | boundaries, values and times that are none |
| Mold risk, `runtime.py:241-336` | `mold_history` of an entry | `_compute_mold_risk_level` | readings that come late or again, the edge of the window, ordering by strings, short histories |
| Authentication, `runtime_auth.py` | `runtime.auth` | `authorize_runtime_request` | the first request fixes the credentials, the shutdown drops them |
| Lifespan, `lifespan.py` | none of its own | rehydration, `shutdown_sync`, `reset_runtime_state` | poll tasks and deliveries go on between the awaits of a shutdown; kill and restart |
| HTTP views, `runtime.py:883-1130, 1242-1267` | none | `/entities`, `/events`, `/health`, `/diagnostics`, `/discover`, `/ui` | they show whatever the core has left behind |
| Version bump, `scripts/release.py` | four files | SemVer parsing, ordering, bump | prerelease ordering, partial write |
| Release pipeline, `.github/workflows/release.yml`, `scripts/` | commits and tags, registry tags, GitHub releases | resolve, qualify, publish, promote, verify, release; recovery from a tag | a step fails after others took effect; the workflow is run again; merges meanwhile |
| Image qualification, `scripts/qualify_release_image.py` | a container, a volume, the counts of a fixture | start, wait, configure, command, stop, start again, replay, clean up | every docker command may fail, the container comes up late or never, or dies |
| PiPhi runtime kit | outside the repository | registry, tracked tasks, delivery, config sync, automation ledger | modelled only as `runtime.py` uses it |

What makes each correct is the list of hazards in `PROJECT.json`: each names
the line where it bites and the properties that would notice it.

## Modules

### `AirthingsRuntime`: the core

A step is the code between two suspension points of the event loop, which is
exactly what asyncio makes atomic.  The state corresponds to the code so:

| Variable | Code |
|---|---|
| `registry`, `state_snapshots` | `registry.entries` (by the identity of the entry dict), `registry.state_snapshots` |
| `entry` | every entry dict `apply_config` has created, registered or only referenced by a suspended reader or a callback |
| `poll_tasks`, `poll_status` | the dicts of that name; of `poll_status` only the keys |
| `task` | each run of `_poll_config`: its await, and the locals of the `poll_once` under way |
| `worker` | each request: its await and its locals |
| `sending`, `heartbeats` | delivery tasks whose callback has not run |
| `recent_events` | health events of a configuration since its last `device.deconfigured` |
| `accepted` | history: what Core has accepted |

An element of `Gens` is one registration: the entry dict and the poll task that
one run of `apply_config` creates.  The actions, in the order of the code:

| Code | Actions |
|---|---|
| `apply_config` up to `_ensure_known_device` | `ConfigRequest`, `VerifyFails` |
| `apply_config`, `remove_config` inside it, registration | `VerifySucceeds` (no task to await), `VerifySucceedsPolled` then `ApplyResumes` |
| `apply_config` after its initial read | `InitialReadOk`, `InitialReadFails` |
| `/deconfigure` and the removals of a sync | `Deconfigure`, or `DeconfigurePolled` then `RemoveResumes` |
| `_poll_config`, `poll_once`, `_read_and_store` | `TaskStart`, `PollStart`, `PollSkip`, `PollReadOk`, `PollReadFails`, `TaskStops` |
| `/command` refresh | `CommandRequest`, `CommandReadOk`, `CommandReadFails` |
| `/state?refresh=true`, each configuration of the sweep | `RefreshRequest`, `RefreshReadOk`, `RefreshReadFails` |
| delivery callbacks | `MeasurementDone`, `HeartbeatDone` |

`UpdateStateSnapshot`, `Marked`, `PollOnceOk`, `PollOnceFails`, `PopAndCancel`,
`FinishRemove` and `Register` are the code those actions share, named after it.

Abstractions.  Metrics, names, units, timestamps other than `recorded_at` and
all logging are left out; a sample is its `recorded_at`.  Credentials and
container ids do not influence the control and are left out.  A read returns any
sample or fails at any time.  A sweep over several configurations is one refresh
request per configuration, in any order, which allows more than the code does.
Whether `registry.remove` of the runtime kit drops the snapshot is not visible in
the repository; both are allowed.

### `DeviceHealth`: what the core promises about health

The abstract specification: a configured device is unset until its first read,
then online or offline as the last read ended, and an event announces a read
only when it changes that.  `HealthRefinement` maps the state of
`AirthingsRuntime` to it (the health of the registered entry, the last health
event of the registration), and `ImplementsDeviceHealth` says that every step of
the runtime is a step of `DeviceHealth` or a stutter.

### `RuntimeLifecycle`: the process around the core

It EXTENDS `AirthingsRuntime` and takes every action of it in the phases in which
it can happen.

| Variable | Code |
|---|---|
| `phase` | starting (`startup_sync`), serving, closing (`await cloud_client.aclose()`), resetting (`reset_runtime_state`), down |
| `auth` | `runtime.auth` |
| `presented` | history: the credentials each request under way came with |
| `to_cancel`, `awaited` | the loop of `reset_runtime_state` over `list(poll_tasks.values())` and its `await task` |

`Authorize` is `authorize_runtime_request`: `LRequest` calls it for each request
of the core, `Bootstrap` for a request that is let in and then refused or needs
nothing more.  A request without complete credentials changes nothing and is a
stutter.  `Rehydrate` and `StartupDone` are the startup, `BeginShutdown`,
`ClientClosed`, `ResetCancel`, `ResetAwaited`, `ResetClear` the shutdown;
`Restart` is the end of the process at any moment, with what Core has accepted
as the only thing that stays.  The server waits for the requests under way before it
ends the lifespan; poll tasks and deliveries go on until they are cancelled or the
process ends.  What the runtime kit rehydrates is any sequence of applies and removals,
and the environment may hold both credentials, either one alone, or none.

### `LatestSample` and `SamplePipeline`: from a payload to Core

`LatestSample` is the pure part, `models.py`: `from_api_payload` for the two
shapes of a latest sample, `_coerce_datetime`, `_validated_metric` (with the
coercion before it) and `capabilities_for_device`.  A value is a whole number,
absent, or one that `float` rejects or that is not finite; a time is a number, a
text, a number too large for a date, or a text that is none.  A text has a local
time and a suffix that names its zone (none, `Z`, an offset east or west), and
`TextBefore` orders two of them as the code's `sorted` orders strings: by the local
time, then by the suffix.  Four metrics stand for the eleven: the other seven are
read as the temperature is.  Left out: fractions of a second and other layouts of a
text, units, the discovery record, and the capabilities taken from `known_sensors`,
which `/entities` uses only while there is no snapshot.

`SamplePipeline` is what one entry makes of the samples, read after read:
`Retained` and `RiskLevel` are the two halves of `_compute_mold_risk_level`,
`Store` is what `_update_state_snapshot` shows and sends.  `ReadScored`,
`ReadUnscored`, `ReadRaises` (a recorded time that does not parse) and
`ReadFailed` are the ways a read ends, `ApplyConfig` starts a new entry.  The
scores are exact fractions (300ths) where the code has floats, so a score that
falls on a half may round the other way in the code.  The filter, the stable sort by
texts and the running sum are written out (`InWindow`, `Sorted`, `Total`), in a form
the provers can expand.

### `ImageQualification`: the script that qualifies an image

One action per step of `qualify`, and per way the step can fail.  `pc` is the step,
`verdict` what the script is about to report (`"none"` inside the try block),
`round` the first or the second container.  The image under test is the set of
the nine things it does right, chosen at the start, so that one run of TLC
qualifies all 512.  `Serve` and `Die` are the container's; `troubles` remembers
what went wrong that is not the image's fault.  A request fails when nothing serves
it, and also when a serving container answers after the 5 seconds of `urlopen` or
drops the connection: at the health check a late answer is asked for again until the
deadline, anything `wait_for_health` does not catch ends the wait, as it ends every
later step.

### `CloudClient`: tokens, accounts, retries

A call (`list_devices` or `latest_sample`) is at one of four requests, waiting
for its answer or sleeping between two attempts.  `StartCached`,
`StartUncached`, `TokenOk`, `RenewalOk`, `AccountOk`, `ReadOk` follow the
successful path through `_access_token`, `_account_id` and the call's own
request; `Retry`, `SleepOver`, `Fails` are `_request`; `AuthRejected` is the
handling of 401 and 403 with `_clear_cached_auth`.  `Revoke` and `OutageEnds` are
the cloud's, `Expire` the clock's.  The cloud is assumed to issue a token that
no call and no cache holds (`Fresh`).

### `SemVer` and `ReleaseWorkflow`: the releases

`SemVer` is the pure part of `scripts/release.py`: `Before` is `compare`, `Bumped`
the set of results of `bump_version`.  A word of a prerelease is its rank in the
order of strings, and a number keeps its leading zeros, which `SEMVER_RE` admits.
`Newer` is `compare(...) > 0`: without leading zeros it is the converse of `Before`;
two spellings of one number (`1` and `01`) are `Ambiguous`, newer than each other.

`ReleaseWorkflow` is the release job of `.github/workflows/release.yml`, one action
per step that changes or asks something outside the runner: `Dispatch` is the
preflight job, then `Checkout`, `Resolve`, `Policy`, `ProveAbsent`, `Build` (the
local commit, the candidate and its qualification), `PushBranch` and `PushTag`,
`PromoteVersion` and `PromoteLatest`, `Verify`, `CreateRelease`.  `Fail` ends a run
before any step; with the steps split at each effect, that is also after any.  A
run that names an existing tag takes the same steps without the commit and the
pushes.  `Merge` is a developer's commit, which makes the push of a run that is
under under way a refused one.  Nobody moves or deletes tags by hand, and a merge leaves
the version alone.  The policy step takes a `git ls-remote` that fails for an absent
tag (`! git ls-remote`, release.yml:149), so `Policy` does not require the tag to be
absent; it is `git tag` in the runner's clone, and so `Build`, that refuses an
existing one.  A version with build metadata can be resolved but not published: `+`
is no character of an image tag. or deletes tags by hand, and a merge leaves
the version alone.

### Checking and proof modules

`MCAirthingsRuntime`, `MCRuntimeLifecycle` and `MCCloudClient` add the symmetry
sets, which only runs without liveness use, `MCReleaseWorkflow` the versions and
`MCSamplePipeline` the payloads of the instance; `ImageQualification` needs no such
module.
The modules with names in `_proofs` hold the theorems: one for each of
`AirthingsRuntime`, `RuntimeLifecycle`, `SamplePipeline`, `CloudClient`,
`ImageQualification`, `SemVer` and `ReleaseWorkflow`, and `SerialRuntime_proofs` for
what `AirthingsRuntime` promises while Core sends one configuration request at a
time.  Operators whose comment starts
with "Mutant" are altered forms of the definition that follows them; no action
uses them.  They record which plausible slip each property would catch.

## Runs

| Run | Properties | Instance |
|---|---|---|
| `runtime_concurrent` | `SlotIsLive`, `RegisteredIsPolled` | 1 configuration, 2 registrations, 2 configurers, 1 commander, 1 refresher |
| `runtime_serial` | `TypeOK`, `PendingIsInFlight`, `DeliveredWasAccepted`, `NoOrphanPoller`, `ReplacementHasNoGap` | 1 configuration, 2 serial numbers, 2 samples, 2 registrations, 1 configurer, 2 deliveries of a reading in flight |
| `runtime_live` | `HealthEvents`, `ImplementsDeviceHealth`, `RequestsAnswered`, `PollingNeverStops`, `SnapshotHeals`, `ConnectedHeals` | 1 configuration, 2 serial numbers, 2 registrations, 1 configurer, 1 commander, no symmetry |
| `lifecycle` | `LTypeOK`, `RequestsAreOwners`, `BootstrapsOnce`, `DownIsClean` | 2 configurations, 2 registrations, 1 configurer, 1 commander, 2 container ids, 2 tokens |
| `lifecycle_live` | `ShutdownEnds` | 2 configurations, 2 registrations, 1 configurer, 1 container id, 1 token, no symmetry |
| `samples` | `TypeOK`, `HistoryIsWindow`, `ScoreFollowsTime`, `ScoreNeedsCoverage`, `RereadChangesNothing`, `ShapesAgree`, `SentIsDeclared` | 14 payloads, 4 readings |
| `cloud` | `TypeOK`, `RejectedIsNotCached`, `CallsEnd`, `Recovers` | 2 calls, 1 credential, 3 tokens, 2 attempts |
| `qualification` | `TypeOK`, `PassedMeansGood`, `RejectedForAReason`, `NothingLeftBehind`, `Ends` | all 512 images, 2 health requests before the deadline |
| `release` | `TypeOK`, `PublishedFromItsTag`, `VersionTagsImmutable`, `LatestMovesForward`, `ForwardUnlessRestarted` | 3 runs, 1 merge, 2 prerelease words, 5 custom versions, numbers to 1 |

Bounds.  Configurations interact only through the cloud client, so one is enough
for the hazards of one id; the theorems about health are for any number of them.  Two
registrations of one id give a replacement and everything that a reader, a task
or a callback of the old entry may do to the new one.  The mark of a pending
reading is a single slot, so two samples make it forget a delivery under way, and
two deliveries of one reading (`MaxInFlight = 2` in `runtime_serial`) let the
first of them clear the mark of the second.  Of the other runs none depends on
the number in flight, which is 1.

Two polled configurations are what `reset_runtime_state` needs to wait for one
poll task while the other wakes up; two container ids and two tokens are an owner
and an intruder, by either half.  The payloads of `samples` lie at the edge of the window, one minute beyond it,
and inside it; one comes a second time with other values, some with other
spellings of the time zone (an offset east and one west, `Z`, none); the odd ones have
values out of range, sensors listed twice, and times that are absent, zero, too large
or no timestamp.  The script of
`qualification` is finite; two health requests are one that is repeated.

Three release runs are a failed one, a later release and the recovery of the first,
which is what a late recovery needs to do harm; a merge is enough to refuse a push.
Numbers up to 1 give each bump a result, and the custom versions make
`bump_prerelease` increment a number, extend a word and meet a number in first
place, and give one number with a leading zero and one version with build metadata.  The runs
stop when they have used up the bounds, so deadlock is not checked there.

`NoOrphanPoller`, `ReplacementHasNoGap`, `HealthEvents`, `ImplementsDeviceHealth`
and `DownIsClean` are promises to a Core that sends one configuration request at a
time: their runs have one configurer.  Two overlapping applies may leave a poll
task in no slot, which no later removal or shutdown cancels.  `HealthEvents` and
`ImplementsDeviceHealth` also need that no sweep overlaps the poll task, which
`finding_recovered_twice` shows; `runtime_live`, which checks them, has no sweep.

What the newer runs show.  `lifecycle`: a poll task that is reading while the HTTP
client is closed, or wakes up while another is awaited, is cancelled all the same,
and none outlives the reset; credentials are adopted once per process, and no
request is suspended across a change of them.  `samples`: the history is the last
reading of each recorded time within 48 hours of every later one, in whatever order
readings arrive; the score follows their instants as long as all spell the time
zone in one way (with mixed ones the sort by strings may drop an interval); reading the
same sample again, as every poll does until there is a newer one, changes nothing;
a short history cannot give a high score; the shapes agree but for a battery of
0, which the list shape loses (`models.py:184`).  `qualification`: an image
passes only when it does all nine things right, also when `docker stop` and
`docker rm` of the first container fail unnoticed, because the second `docker
run` then finds its name taken.

Fairness.  Each suspended request and task goes on once its await is over, each
read and delivery ends (the HTTP clients have timeouts and the attempts are
bounded), each sleep ends.  No client is obliged to send anything.  The cloud
client has the same for its requests and sleeps, and nothing about the cloud:
`Recovers` says what follows if its trouble ends.  A `Retry-After` of unbounded length, which
`client.py:156` would sleep, is outside this assumption.  `LFairSpec` asks the same
of the poll tasks and of the shutdown (`aclose` returns or raises), and of nobody
to begin one.  The qualification script goes on (docker commands and requests
return); nothing makes the container come up.

### Disagreements found

Each of these runs violates one property on purpose.

| Run | What the code does | What the repository says |
|---|---|---|
| `finding_recovered_twice` | two overlapping polls that both began offline announce the recovery twice | tests/test_app.py:719: once per transition |
| `finding_reapply_duplicate` | a re-applied configuration forgets the pending mark and sends the reading again | tests/test_app.py:394: re-applying preserves deduplication |
| `finding_zombie_poller` | a deconfigure during the initial read of an apply is followed by a poll task of a configuration that is gone | tests/test_app.py:471-473: poll tasks are those of the active configurations |

Four more need no run to be seen.  `_update_poll_status` (433) creates a missing
key, so a heartbeat or a read that completes after a deconfigure brings the poll
status of the configuration back, which /diagnostics then lists
(tests/test_app.py:471, 474 expect those of the active ones); `HeartbeatDone` has
this behaviour.  `apply_config` accepts two configurations of one
serial number and `/entities` lists both, where README.md:10 of the repository
speaks of one entity per serial number.  A prerelease bump under another identifier
restarts at 1, so that `0.0.1-beta.1` becomes `0.0.1-alpha.1`, which orders before
it.  An explicit version "must be newer than the current version"
(scripts/release.py:181), but `_compare_identifiers` (240) returns 1 for two spellings
of one number whichever comes first, so that `0.0.1-alpha.01` is accepted after
`0.0.1-alpha.1` and the other way round.  `ForwardUnlessRestarted` states these two
exceptions and that there is no other.

## Proofs

`AirthingsRuntime_proofs` proves, for every value of the constants that satisfies
the three assumptions of `AirthingsRuntime` (the kinds of request are disjoint,
`None` is no id, the bound is positive):

| Theorem | Statement |
|---|---|
| `TypeCorrect` | `Spec => []TypeOK` |
| `SlotsStayLive` | `Spec => []SlotIsLive` |
| `PendingMarksAreBacked` | `Spec => []PendingIsInFlight` |
| `DeliveredMarksAreTrue` | `Spec => []DeliveredWasAccepted` |
| `RegisteredStaysPolled` | `Spec => []RegisteredIsPolled` |

`TypeOK` is not inductive: that a slot of `poll_tasks`, a suspended reader or a
delivery in flight refers to an entry which exists is what keeps the fields taken
from that entry in their types.  The inductive invariant is
`TypeInv == TypeOK /\ Refs`, where `Refs` says so of the registry
(`RegistryRefs`), the tasks (`TaskRefs`), the requests (`WorkerRefs`: a request in
its initial read refers to an existing entry of its own configuration id) and the
deliveries (`DeliveryRefs`), and contains `SlotIsLive`.  One lemma
per action shows that the action preserves `TypeInv` (`TypeInvNext` collects
them); the other three invariants are then inductive relative to it.  The key of
`DeliveredMarksAreTrue` is that an entry dict never changes its configuration id
and serial number once it exists (`EntriesKept`), so that the carried-over mark
and the entry it came from speak of one device.

`SerialRuntime_proofs` proves what the core promises to a Core that sends one
configuration request at a time:

| Theorem | Hypotheses | Statement |
|---|---|---|
| `NoOrphanPollers` | `OneConfigurer` | `Spec => []NoOrphanPoller` |
| `ReplacementsHaveNoGap` | `OneConfigurer` | `Spec => []ReplacementHasNoGap` |
| `EventsTellTheHealth` | `OneConfigurer`, `NoSweep` | `Spec => []HealthEvents` |
| `RuntimeImplementsHealth` | `OneConfigurer`, `NoSweep` | `Spec => ImplementsDeviceHealth` |

`OneConfigurer` says that at most one request to `/config`, `/deconfigure` or
`/config/sync` is served at a time, of any number of commands, deliveries and poll
tasks beside it.  `NoSweep` leaves the sweep of `/state?refresh=true` out.  Both are
needed: two overlapping applies leave a poll task in no slot, and two overlapping
polls announce a recovery twice (`finding_recovered_twice`).  The instances of the
runs `runtime_serial` and `runtime_live` satisfy them.

`ReplacementHasNoGap` says that a registered configuration has a slot with a live task
at every moment but between the cancellation of the old task by the request that
replaces or removes it and the start of the new one, after the initial read; and that
a configuration which is being replaced stays registered while the request awaits the
old task.  An apply whose verification is slow or refuses has cancelled nothing, so the
old configuration is polled all through it.  The proof combines `TypeInv`, `SerialInv`
and `RegisteredIsPolled`.

`SerialInv` adds to `TypeInv` that a request keeps what it has taken: the slot of its
configuration stays empty until it fills it, and the entry it will replace stays
registered (`OwnsSlot`).  `HealthInv` relates the last event to the health of the
registered entry (`EventsTellHealth`) and says that what a poll has captured before
its read is still so when the read ends (`CapturedIsCurrent`), which is where a
sweep would break it.  The refinement follows: under these invariants each action is
mapped to a step of `DeviceHealth` or to a stutter, action by action.

`RuntimeLifecycle_proofs`, from the further assumption that `None` is neither a
container id nor a token, proves

| Theorem | Statement |
|---|---|
| `RequestsBelongToTheOwner` | `LSpec => []RequestsAreOwners` |
| `CredentialsAreAdoptedOnce` | `LSpec => BootstrapsOnce` |
| `LifecycleTypeCorrect` | `LSpec => [](TypeOK /\ LTypeOK)` |
| `ShutdownLeavesNothing` | under `OneConfigurer`: `LSpec => []DownIsClean` |

The inductive invariant `OwnersInv` adds that a process which does not serve holds
the credentials of no request, so that a reset may drop its own.  What it needs of
the core is that a step of one request touches no other (`WorkerStepIsLocal`,
`RequestIsLocal`).  The invariants of the core do not survive a shutdown that cancels
tasks one by one, so `RunningInv` keeps only `BaseInv` (types and references) through
it, and `TypeInv` until it lists the tasks.  `ShutdownInv` adds the core's
`SerialInv` up to the same point and, from there on, that every task has ended, is
listed, or is awaited (`ListedInv`).  A task in no slot would be none of these, which
is why one configuration request at a time is assumed.

`ImageQualification_proofs` proves, for every deadline,

| Theorem | Statement |
|---|---|
| `ScriptTypeCorrect` | `Spec => []TypeOK` |
| `OnlyGoodImagesPass` | `Spec => []PassedMeansGood` |
| `NoGoodImageIsRejected` | `Spec => []RejectedForAReason` |
| `NothingStaysBehind` | `Spec => []NothingLeftBehind` |

None of the three promises is inductive: they speak of the end of the script.
`ScriptInv` carries along what has been asserted so far (`Asserted`), how many
containers were started and samples asked for (`Started`, `Counted`), where the
result of the command can be (`Recorded`: the second container starts only when
the first is gone, and its file system with it) and that everything answers while
nothing has gone wrong (`Undisturbed`).  The reasons `NoGoodImageIsRejected` allows are
a fault of the image, a docker command that failed, a container that died, a request
answered late or dropped, and the deadline of the wait.  One lemma for each part, with
a case for each group of actions.

`CloudClient_proofs` proves, for the client, from its assumptions (`None` is
no token and no key, at least one attempt):

| Theorem | Statement |
|---|---|
| `ClientTypeCorrect` | `Spec => []TypeOK` |
| `RejectedStaysOut` | `Spec => []RejectedIsNotCached` |

Here the inductive invariant is `CacheInv`.  A rejection clears the cache of one
key only, so that no other cache may hold the token (`CachedOnce`), and the key it
clears is that of the call, so that a token which is cached and held by a call must
be cached under that call's key (`CachedUnderKey`).  Both stand on the
assumption `Fresh` about the cloud.  `CallRefs` says that a request presents the
tokens it needs and that a call which sleeps has an attempt left, without which
the count would leave its type.

`SemVer_proofs` proves, of all versions, with prereleases of any length:

| Theorem | Statement |
|---|---|
| `CompareOrdersVersions` | `Before` is irreflexive and transitive on `Version`; `Newer` is its converse but for two spellings of one number, which are newer than each other; of two versions neither of which is newer than the other, at most the build metadata differs; without leading zeros nothing is ambiguous, so that the order is total |
| `BumpsGoForward` | every result of `Bumped` is a version after the one it starts from, or a restarted prerelease |

Two prereleases are compared at the first identifier where they differ.  That there
is one, and that it decides transitivity, follows from the least element of a set of
numbers (`LeastElement`).

`ReleaseWorkflow_proofs` proves, for any number of runs and merges and any versions,

| Theorem | Statement |
|---|---|
| `ReleaseTypeCorrect` | `Spec => []TypeOK` |
| `ReleasesMatchTheirTags` | `Spec => []PublishedFromItsTag` |
| `PublishedTagsStay` | `Spec => VersionTagsImmutable` |
| `LatestNeverGoesBack` | `Spec => LatestMovesForward` |
| `BranchGoesForward` | `Spec => ForwardUnlessRestarted` |

All five come from one inductive invariant, `ReleaseInv`.  A run checks the world
once and acts later, so `RunInv` says what each step behind it has established and
why it still holds: the version tag was absent and only this run could have pushed
it, the git tag is at the commit the image was built from.  `RecoveryInv` says that a
recovery works on the commit of its tag and creates neither commit nor tag.
`FreshInv` says that any other run goes forward from the commit it has checked out,
and that the push, which is refused after a merge, makes that commit the head.
`TagsInv` says that every git tag names a commit of its version.  `LatestInv` keeps
latest at or below the version of the branch, from which a later run starts: that is
why no recovery and no late promotion takes it back.  A stable version and a
restarted prerelease are kept apart by `AtMost`, since a restart may go below the
branch but never below a stable version.  TLC checked `ReleaseInv` on the instance of
the run `release` before it was proved.

`SamplePipeline_proofs` proves, for any payloads, clock, poll interval and number of
readings,

| Theorem | Statement |
|---|---|
| `SamplesTypeCorrect` | `Spec => []TypeOK` |
| `HistoryIsTheWindow` | `Spec => []HistoryIsWindow` |
| `ScoresFollowTime` | `Spec => []ScoreFollowsTime` |
| `ScoresNeedCoverage` | `Spec => []ScoreNeedsCoverage` |
| `SentValuesAreDeclared` | `Spec => []SentIsDeclared` |
| `RereadsChangeNothing` | `Spec => RereadChangesNothing` |
| `BothShapesAgree` | `Spec => []ShapesAgree` |

It assumes that times are raw times and the clock has whole numbers
(`TimesAssumption`), and that the poll interval is positive.  The inductive invariant
is `SampleInv`.  `HistoryInv` says that the history is strictly ordered by its texts
and holds the kept readings; the order makes its length the number of them, and a
second insertion of a reading the same list (`OrderedUnique`, `RetainedAgain`).
`SnapshotInv` ties the score that is shown to the history, and the telemetry to the
metrics.  `LastInv` says what storing the last payload left behind, on which
`RereadsChangeNothing` rests.  The lemmas below it are about the operators: a finite
set has an enumeration in the order (`EnumerationExists`), `Total` of a sequence is
the sum its recursive function computes and is monotone (`TotalIsSum`,
`TotalsCompare`), a score stays in 0..10 (`RiskLevelRange`).  Where such a fact calls
for induction, the proof takes the least counterexample instead (`LeastNumber`, from
`WFMin` of the library, which takes no operator).  `ScoresFollowTime` compares the
score of the code, a sum along the history, with one over the set of its readings by
their instants: summing over a finite set, one element chosen after the other, is
`Total` of a list of the set (`SetSum`), and with one suffix the span to the next
later instant is the interval to the next entry (`SpanIsInterval`).

Only model-checked are the properties of `finding_*`, which are false, and all
liveness, which is out of the proof system's reach: `RequestsAnswered`,
`PollingNeverStops`, `SnapshotHeals`, `ConnectedHeals`, `ShutdownEnds`, `CallsEnd`,
`Recovers` and `Ends`.

## Not modelled, and the plan

Next: the type correctness and the owners of `RuntimeLifecycle` hold for overlapping
requests, `ShutdownLeavesNothing` for single ones; what overlapping ones can leave
behind at a shutdown (a poll task in no slot, and nothing else) is worth a property of
its own.

Left out, and why: the loop of a `/config/sync` over several configurations and the
command ledger are the runtime kit's code, which is not in the repository (each apply
and removal of a sync is a request of the model, the ledger appears as the
qualification sees it).  The rewriting of the four files that carry the version
(`release.py`) is file I/O whose interrupted outcome dies with the runner.
`create_github_release.py` is a manual alternative to the last step of the
workflow.  The static views and the UI schema, the manifest and the experience
package are data without behaviour; logging changes no state.
