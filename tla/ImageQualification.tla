-------------------------- MODULE ImageQualification --------------------------
(***************************************************************************)
(* scripts/qualify_release_image.py: before an image is promoted, a script *)
(* drives it in a container against a fixture of the vendor's API, stops   *)
(* and removes the container, starts a second one on the same volume and   *)
(* asks for the same command again: the answer must be a replay, without a *)
(* call to the vendor.                                                     *)
(*                                                                         *)
(* The script is sequential.  Beside it the container comes up in its own  *)
(* time or never, and may die at any moment; every docker command may      *)
(* fail, and every request may be answered too late or dropped.  An image  *)
(* is the set of the things it does right.                                 *)
(***************************************************************************)
EXTENDS Naturals, FiniteSets

CONSTANTS
    MaxProbes    \* the most /health requests that fit before the deadline of 30 seconds

ASSUME ProbesAssumption == MaxProbes \in Nat \ {0}

VARIABLES
    image,       \* the facets the image under test gets right
    pc,          \* the step the script is at
    round,       \* 1 until the first container is removed, then 2
    verdict,     \* of the script: "none" inside the try block
    probes,      \* /health requests made by the wait under way
    samples_before_replay,
    container,   \* the container of this run, as docker knows it
    serving,     \* the runtime in it answers requests
    processes,   \* containers started so far
    configured,  \* the runtime in it holds the configuration
    volume,      \* the ledger volume exists
    ledger,      \* where the result of the command is recorded
    sample_requests,  \* of fixture_state
    troubles     \* history: what went wrong that is not the image's fault

vars == <<image, pc, round, verdict, probes, samples_before_replay, container,
          serving, processes, configured, volume, ledger, sample_requests, troubles>>

script == <<image, round, samples_before_replay>>
runtime == <<configured, ledger, sample_requests>>
docker == <<container, serving, processes, volume>>

\* metadata        user, volume and the four labels
\* health          /health answers with status 200 and a JSON object
\* authentication  /state without credentials is a 401
\* version         /health and /contract name the version
\* state           /config names the configuration it has applied, which reads the
\*                 fixture, and /state shows the sample
\* fresh           the first command is not reported as a replay
\* durable         the automation ledger is kept on the volume
\* once            a replayed command does not call the vendor
\* requests        the fixture sees no invalid request
Facets == {"metadata", "health", "authentication", "version", "state", "fresh",
           "durable", "once", "requests"}

Steps == {"validate", "create_volume", "start", "health", "contract", "config",
          "state", "command", "stop", "rm", "rm_volume", "done"}

\* docker     a docker command or the setup of the script failed
\* container  the container died
\* deadline   no /health request was answered in time
\* answer     a request was not answered within 5 seconds, or its connection dropped
\* cleanup    a docker command of the finally block failed
Troubles == {"docker", "container", "deadline", "answer", "cleanup"}

TypeOK ==
    /\ image \subseteq Facets
    /\ pc \in Steps
    /\ round \in 1..2
    /\ verdict \in {"none", "passed", "failed"}
    /\ probes \in 0..MaxProbes
    /\ samples_before_replay \in 0..4
    /\ container \in {"absent", "running", "exited"}
    /\ serving \in BOOLEAN
    /\ processes \in 0..2
    /\ configured \in BOOLEAN
    /\ volume \in BOOLEAN
    /\ ledger \subseteq {"volume", "container"}
    /\ sample_requests \in 0..4
    /\ troubles \subseteq Troubles

Init ==
    /\ image \in SUBSET Facets
    /\ pc = "validate"
    /\ round = 1
    /\ verdict = "none"
    /\ probes = 0
    /\ samples_before_replay = 0
    /\ container = "absent"
    /\ serving = FALSE
    /\ processes = 0
    /\ configured = FALSE
    /\ volume = FALSE
    /\ ledger = {}
    /\ sample_requests = 0
    /\ troubles = {}

-----------------------------------------------------------------------------
(* Outcomes of a step *)

Trouble(kind) == troubles' = troubles \cup {kind}

Go(step) == pc' = step /\ UNCHANGED <<verdict, troubles>>

\* An assertion or a checked docker command raises inside the try block.
Raise == pc' = "stop" /\ verdict' = "failed"

\* The assertion holds, or it raises.
Assert(holds, step) == IF holds THEN Go(step) ELSE Raise /\ UNCHANGED troubles

\* Before the try block there is nothing to clean up.
Exit == pc' = "done" /\ verdict' = "failed"

-----------------------------------------------------------------------------
(* Before the try block *)

Validate ==
    /\ pc = "validate"
    /\ IF "metadata" \in image THEN Go("create_volume") ELSE Exit /\ UNCHANGED troubles
    /\ UNCHANGED <<script, runtime, docker, probes>>

CreateVolume ==
    /\ pc = "create_volume"
    /\ volume' = TRUE
    /\ Go("start")
    /\ UNCHANGED <<script, runtime, container, serving, processes, probes>>

\* docker image inspect, the probe of the port or docker volume create fails.
SetupFails ==
    /\ pc \in {"validate", "create_volume"}
    /\ Exit
    /\ Trouble("docker")
    /\ UNCHANGED <<script, runtime, docker, probes>>

-----------------------------------------------------------------------------
(* start_container and wait_for_health *)

\* docker run --name: the name must be free.
Start ==
    /\ pc = "start"
    /\ container = "absent"
    /\ container' = "running"
    /\ processes' = processes + 1
    /\ configured' = FALSE
    /\ probes' = 0
    /\ Go("health")
    /\ UNCHANGED <<script, serving, volume, ledger, sample_requests>>

\* Mutants: a failed docker run is not noticed; it is started before the try block.
StartFailsUnchecked ==
    /\ pc = "start"
    /\ Trouble("docker")
    /\ container' \in IF container = "absent" THEN {"absent", "exited"} ELSE {container}
    /\ pc' = "health"
    /\ probes' = 0
    /\ UNCHANGED <<script, runtime, serving, processes, volume, verdict>>

StartFailsOutsideTry ==
    /\ pc = "start"
    /\ Exit
    /\ Trouble("docker")
    /\ container' \in IF container = "absent" THEN {"absent", "exited"} ELSE {container}
    /\ UNCHANGED <<script, runtime, serving, processes, volume, probes>>

\* docker run fails: the container of the first round is still there, or the
\* new one cannot be started; it may have been created all the same.
StartFails ==
    /\ pc = "start"
    /\ Raise
    /\ Trouble("docker")
    /\ container' \in IF container = "absent" THEN {"absent", "exited"} ELSE {container}
    /\ UNCHANGED <<script, runtime, serving, processes, volume, probes>>

\* /health is answered in time.
Healthy ==
    /\ pc = "health"
    /\ probes < MaxProbes
    /\ serving
    /\ "health" \in image
    /\ Go(IF round = 1 THEN "contract" ELSE "config")
    /\ UNCHANGED <<script, runtime, docker, probes>>

\* Mutant: the deadline is looked at after one more request.
RetryPastDeadline ==
    /\ pc = "health"
    /\ probes <= MaxProbes
    /\ probes' = probes + 1
    /\ UNCHANGED <<script, runtime, docker, pc, verdict, troubles>>

\* The request was refused, answered too late or answered with another status.
HealthRetry ==
    /\ pc = "health"
    /\ probes < MaxProbes
    /\ probes' = probes + 1
    /\ UNCHANGED <<script, runtime, docker, pc, verdict, troubles>>

\* What wait_for_health does not catch: the connection is dropped before the answer
\* is complete, or the answer is no JSON.
HealthBreaks ==
    /\ pc = "health"
    /\ probes < MaxProbes
    /\ Raise
    /\ \/ Trouble("answer")
       \/ serving /\ "health" \notin image /\ UNCHANGED troubles
    /\ UNCHANGED <<script, runtime, docker, probes>>

\* Mutant: the wait goes on for ever.
NeverTimesOut == FALSE /\ UNCHANGED vars

\* The deadline is over; late answers let fewer requests fit before it.
HealthTimeout ==
    /\ pc = "health"
    /\ probes > 0
    /\ Raise
    /\ Trouble("deadline")
    /\ UNCHANGED <<script, runtime, docker, probes>>

-----------------------------------------------------------------------------
(* The requests, answered in time *)

\* The versions are compared after the three requests.
Contract ==
    /\ pc = "contract"
    /\ serving
    /\ Assert({"authentication", "version"} \subseteq image, "config")
    /\ UNCHANGED <<script, runtime, docker, probes>>

\* POST /config: applies the configuration, which reads one sample; its answer must
\* name it.  With a poll interval of a day the poll task reads none while the script
\* runs.
Configure ==
    /\ pc = "config"
    /\ serving
    /\ configured' = TRUE
    /\ sample_requests' = sample_requests + 1
    /\ \/ Go("state")
       \/ "state" \notin image /\ Raise /\ UNCHANGED troubles
    /\ UNCHANGED <<script, docker, probes, ledger>>

\* Mutant: the samples are counted before the second configuration.
AssertStateCountingEarly ==
    /\ pc = "state"
    /\ serving
    /\ Assert("state" \in image, "command")
    /\ samples_before_replay' = IF round = 2 THEN sample_requests - 1 ELSE 0
    /\ UNCHANGED <<image, round, runtime, docker, probes>>

\* GET /state shows the sample of the fixture; in the second round the samples are
\* counted next.
AssertState ==
    /\ pc = "state"
    /\ serving
    /\ Assert("state" \in image, "command")
    /\ samples_before_replay' = IF round = 2 THEN sample_requests ELSE 0
    /\ UNCHANGED <<image, round, runtime, docker, probes>>

\* The runtime's answer to POST /command (refresh) with the idempotency key:
\* whether it is a replay.
Replays == ledger # {} \/ "fresh" \notin image

\* What the command does: it reads a sample and records its result, unless the
\* result is recorded already.
RunCommand ==
    IF ledger = {}
    THEN /\ sample_requests' = sample_requests + 1
         /\ ledger' = {IF "durable" \in image THEN "volume" ELSE "container"}
    ELSE /\ sample_requests' = sample_requests + (IF "once" \in image THEN 0 ELSE 1)
         /\ UNCHANGED ledger

FirstCommand ==
    /\ pc = "command"
    /\ round = 1
    /\ serving
    /\ RunCommand
    /\ Assert(~Replays, "stop")
    /\ UNCHANGED <<script, docker, probes, configured>>

ReplayCommand ==
    /\ pc = "command"
    /\ round = 2
    /\ serving
    /\ RunCommand
    /\ pc' = "stop"
    /\ verdict' = IF /\ Replays
                     /\ sample_requests' = samples_before_replay
                     /\ "requests" \in image
                  THEN "passed" ELSE "failed"
    /\ UNCHANGED <<script, docker, probes, configured, troubles>>

\* The request is refused, because the runtime is not there, or not answered within 5
\* seconds, or its connection is dropped.  What the runtime may still do with it is
\* left out: only the finally block follows.
Unanswered ==
    /\ pc \in {"contract", "config", "state", "command"}
    /\ Raise
    /\ \/ ~serving /\ UNCHANGED troubles
       \/ Trouble("answer")
    /\ UNCHANGED <<script, runtime, docker, probes>>

-----------------------------------------------------------------------------
(* stop_container and the finally block: the exit codes are not looked at *)

InFinally == verdict # "none"

Ignored == Trouble(IF InFinally THEN "cleanup" ELSE "docker")

Stop ==
    /\ pc = "stop"
    /\ pc' = "rm"
    /\ \/ /\ container' = IF container = "running" THEN "exited" ELSE container
          /\ serving' = FALSE
          /\ UNCHANGED troubles
       \/ Ignored /\ UNCHANGED <<container, serving>>
    /\ UNCHANGED <<script, runtime, probes, verdict, processes, volume>>

AfterRemove ==
    IF InFinally THEN pc' = "rm_volume" /\ UNCHANGED round
    ELSE pc' = "start" /\ round' = 2

\* docker rm --force also removes a container that would not stop.
Remove ==
    /\ pc = "rm"
    /\ AfterRemove
    /\ container' = "absent"
    /\ serving' = FALSE
    /\ ledger' = ledger \ {"container"}
    /\ UNCHANGED <<image, samples_before_replay, configured, sample_requests, probes,
                   verdict, processes, volume, troubles>>

RemoveFails ==
    /\ pc = "rm"
    /\ AfterRemove
    /\ Ignored
    /\ UNCHANGED <<image, samples_before_replay, runtime, probes, verdict, docker>>

\* docker volume rm --force refuses while a container uses the volume.
RemoveVolume ==
    /\ pc = "rm_volume"
    /\ pc' = "done"
    /\ \/ volume' = (container # "absent") /\ UNCHANGED troubles
       \/ Ignored /\ UNCHANGED volume
    /\ UNCHANGED <<script, runtime, probes, verdict, container, serving, processes>>

-----------------------------------------------------------------------------
(* The container *)

Serve ==
    /\ container = "running"
    /\ ~serving
    /\ serving' = TRUE
    /\ UNCHANGED <<script, runtime, container, processes, volume, pc, verdict, probes, troubles>>

Die ==
    /\ container = "running"
    /\ container' = "exited"
    /\ serving' = FALSE
    /\ Trouble("container")
    /\ UNCHANGED <<script, runtime, processes, volume, pc, verdict, probes>>

-----------------------------------------------------------------------------
(* The program *)

Script ==
    \/ Validate \/ CreateVolume \/ SetupFails
    \/ Start \/ StartFails
    \/ Healthy \/ HealthRetry \/ HealthBreaks \/ HealthTimeout
    \/ Contract \/ Configure \/ AssertState \/ FirstCommand \/ ReplayCommand \/ Unanswered
    \/ Stop \/ Remove \/ RemoveFails \/ RemoveVolume

Next == Script \/ Serve \/ Die

Spec == Init /\ [][Next]_vars

\* The script goes on; each docker command and each request returns.  Nothing
\* makes the container come up.
FairSpec == Spec /\ WF_vars(Script)

-----------------------------------------------------------------------------
(* Properties *)

\* A passed qualification proves every facet (qualify, 281-374): no failure of
\* docker, no death of a container and no order of them lets an image through
\* that does one thing wrong, and a second process answered the replay.
PassedMeansGood == verdict = "passed" => image = Facets /\ processes = 2

\* A good image is not turned away but for docker, the deadline, the death of its
\* container or an answer that is late or dropped, and never for what fails in the
\* finally block: the reads of the second configuration are not taken for calls of the
\* replayed command (samples_before_replay, 347).
RejectedForAReason ==
    verdict = "failed" => image # Facets \/ troubles \ {"cleanup"} # {}

\* Whatever failed before, the finally block (369-374) leaves neither container
\* nor volume behind, unless one of its own commands fails.
NothingLeftBehind ==
    pc = "done" /\ "cleanup" \notin troubles => container = "absent" /\ ~volume

\* The script ends, also when the container never answers (wait_for_health has
\* a deadline, 183-192).
Ends == <>(pc = "done")
=============================================================================
