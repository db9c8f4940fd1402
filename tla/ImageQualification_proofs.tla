----------------------- MODULE ImageQualification_proofs -----------------------
(***************************************************************************)
(* Theorems about ImageQualification, for every number of health requests  *)
(* that fit before the deadline.                                           *)
(***************************************************************************)
EXTENDS ImageQualification, TLAPS

-----------------------------------------------------------------------------
(* The inductive invariant *)

\* Where the script is, and whether it is inside the try block.
Position ==
    /\ pc \in {"validate", "create_volume"} => verdict = "none" /\ round = 1
    /\ pc \in {"start", "health", "contract", "config", "state", "command"}
          => verdict = "none"
    /\ pc \in {"rm_volume", "done"} => verdict # "none"
    /\ pc = "contract" => round = 1
    /\ verdict = "none" /\ pc \in {"stop", "rm"} => round = 1
    /\ verdict = "none" => "cleanup" \notin troubles

\* The containers that were started when the script is at a step.
Started ==
    /\ round = 1 => processes <= 1
    /\ round = 1 /\ pc \in {"validate", "create_volume", "start"} => processes = 0
    /\ round = 1 /\ pc \notin {"validate", "create_volume", "start"} /\ verdict = "none"
          => processes = 1
    /\ round = 2 /\ pc = "start" => processes = 1
    /\ round = 2 /\ pc \in {"health", "config", "state", "command"} => processes = 2

\* The samples the fixture was asked for, and those counted before the replay.
Counted ==
    /\ round = 1 => sample_requests <= 2
    /\ round = 1 /\ pc \in {"validate", "create_volume", "start", "health", "contract", "config"}
          => sample_requests = 0
    /\ round = 1 /\ pc \in {"state", "command"} => sample_requests <= 1
    /\ round = 2 /\ pc \in {"start", "health", "config"} => sample_requests <= 2
    /\ round = 2 /\ pc \in {"state", "command"} => sample_requests <= 3
    /\ round = 2 /\ pc = "command" => samples_before_replay = sample_requests

\* The result of the command: on the volume only for an image that keeps it there,
\* in the container only while there is one, and not in the second container.
Recorded ==
    /\ "volume" \in ledger => "durable" \in image
    /\ container = "absent" => "container" \notin ledger
    /\ round = 1 /\ pc \notin {"stop", "rm", "rm_volume", "done"} => ledger = {}
    /\ round = 2 /\ pc \in {"health", "config", "state", "command"} => "container" \notin ledger

\* What has been asserted when the script is past a step and inside the try block.
Asserted ==
    verdict = "none" =>
        /\ pc # "validate" => "metadata" \in image
        /\ round = 2 \/ pc \in {"contract", "config", "state", "command", "stop", "rm"}
              => "health" \in image
        /\ round = 2 \/ pc \in {"config", "state", "command", "stop", "rm"}
              => {"authentication", "version"} \subseteq image
        /\ round = 2 \/ pc \in {"command", "stop", "rm"} => "state" \in image
        /\ round = 2 \/ pc \in {"stop", "rm"} => "fresh" \in image

\* The container and the volume when nothing goes wrong.
Undisturbed ==
    /\ pc \in {"validate", "create_volume"} => container = "absent" /\ ~volume
    /\ serving => container = "running"
    /\ pc = "rm_volume" /\ "cleanup" \notin troubles => container = "absent"
    /\ troubles = {} =>
          /\ pc \in {"contract", "config", "state", "command"} => serving
          /\ image = Facets /\ verdict = "none" /\ (round = 2 \/ pc \in {"stop", "rm"})
                => "volume" \in ledger

ScriptInv ==
    /\ TypeOK
    /\ Position
    /\ Started
    /\ Counted
    /\ Recorded
    /\ Asserted
    /\ Undisturbed
    /\ PassedMeansGood
    /\ RejectedForAReason
    /\ NothingLeftBehind
-----------------------------------------------------------------------------
(* Each step preserves each part *)

\* The counts stay in their bounds: each round takes a step once.
LEMMA TypeStep ==
    ASSUME TypeOK, Position, Started, Counted, [Next]_vars
    PROVE  TypeOK'
<1> USE ProbesAssumption DEF TypeOK, Position, Started, Counted, Steps, Troubles,
    script, runtime, docker
<1>1. CASE Validate
  BY <1>1 DEF Validate, Go, Exit
<1>2. CASE CreateVolume
  BY <1>2 DEF CreateVolume, Go
<1>3. CASE SetupFails
  BY <1>3 DEF SetupFails, Exit, Trouble
<1>4. CASE Start
  <2>1. processes' \in 0..2
    BY <1>4 DEF Start
  <2>2. probes' \in 0..MaxProbes
    BY <1>4 DEF Start
  <2>3. QED
    BY <1>4, <2>1, <2>2 DEF Start, Go
<1>5. CASE StartFails
  BY <1>5 DEF StartFails, Raise, Trouble
<1>6. CASE Healthy
  BY <1>6 DEF Healthy, Go
<1>7. CASE HealthRetry
  BY <1>7 DEF HealthRetry
<1>8. CASE HealthBreaks \/ HealthTimeout
  BY <1>8 DEF HealthBreaks, HealthTimeout, Raise, Trouble
<1>9. CASE Contract
  BY <1>9 DEF Contract, Assert, Go, Raise
<1>10. CASE Configure
  <2>1. pc' \in Steps /\ verdict' \in {"none", "failed"} /\ troubles' = troubles
    BY <1>10 DEF Configure, Go, Raise
  <2>2. sample_requests' \in 0..4
    BY <1>10 DEF Configure
  <2>3. QED
    BY <1>10, <2>1, <2>2 DEF Configure
<1>11. CASE AssertState
  <2>1. samples_before_replay' \in 0..4
    BY <1>11 DEF AssertState
  <2>2. QED
    BY <1>11, <2>1 DEF AssertState, Assert, Go, Raise
<1>12. CASE FirstCommand
  <2>1. sample_requests' \in 0..4
    BY <1>12 DEF FirstCommand, RunCommand
  <2>2. ledger' \subseteq {"volume", "container"}
    BY <1>12 DEF FirstCommand, RunCommand
  <2>3. QED
    BY <1>12, <2>1, <2>2 DEF FirstCommand, Assert, Go, Raise
<1>13. CASE ReplayCommand
  <2>1. sample_requests' \in 0..4
    BY <1>13 DEF ReplayCommand, RunCommand
  <2>2. ledger' \subseteq {"volume", "container"}
    BY <1>13 DEF ReplayCommand, RunCommand
  <2>3. QED
    BY <1>13, <2>1, <2>2 DEF ReplayCommand
<1>14. CASE Unanswered
  BY <1>14 DEF Unanswered, Raise, Trouble
<1>15. CASE Stop
  BY <1>15 DEF Stop, Ignored, InFinally, Trouble
<1>16. CASE Remove
  <2>1. ledger' \subseteq {"volume", "container"}
    BY <1>16 DEF Remove
  <2>2. round' \in 1..2 /\ pc' \in Steps
    BY <1>16 DEF Remove, AfterRemove
  <2>3. QED
    BY <1>16, <2>1, <2>2 DEF Remove
<1>17. CASE RemoveFails
  BY <1>17 DEF RemoveFails, AfterRemove, InFinally, Ignored, Trouble
<1>18. CASE RemoveVolume
  BY <1>18 DEF RemoveVolume, Ignored, InFinally, Trouble
<1>19. CASE Serve
  BY <1>19 DEF Serve
<1>20. CASE Die
  BY <1>20 DEF Die, Trouble
<1>21. CASE UNCHANGED vars
  BY <1>21 DEF vars
<1>22. QED
  BY <1>1, <1>2, <1>3, <1>4, <1>5, <1>6, <1>7, <1>8, <1>9, <1>10, <1>11, <1>12, <1>13,
     <1>14, <1>15, <1>16, <1>17, <1>18, <1>19, <1>20, <1>21 DEF Next, Script

\* Only a step out of the try block sets the verdict.
LEMMA PositionStep ==
    ASSUME TypeOK, Position, [Next]_vars
    PROVE  Position'
<1> USE ProbesAssumption DEF TypeOK, Position,
    script, runtime, docker
<1>1. CASE Validate \/ CreateVolume \/ SetupFails
  BY <1>1 DEF Validate, CreateVolume, SetupFails, Go, Exit, Trouble
<1>2. CASE Start \/ StartFails
  BY <1>2 DEF Start, StartFails, Go, Raise, Trouble
<1>3. CASE Healthy \/ HealthRetry \/ HealthBreaks \/ HealthTimeout
  BY <1>3 DEF Healthy, HealthRetry, HealthBreaks, HealthTimeout, Go, Raise, Trouble
<1>4. CASE Contract \/ Configure \/ AssertState \/ Unanswered
  BY <1>4 DEF Contract, Configure, AssertState, Unanswered, Assert, Go, Raise, Trouble
<1>5. CASE FirstCommand
  BY <1>5 DEF FirstCommand, RunCommand, Replays, Assert, Go, Raise
<1>6. CASE ReplayCommand
  BY <1>6 DEF ReplayCommand, RunCommand, Replays
<1>7. CASE Stop \/ Remove \/ RemoveFails \/ RemoveVolume
  BY <1>7 DEF Stop, Remove, RemoveFails, RemoveVolume, Ignored, InFinally, Trouble,
     AfterRemove
<1>8. CASE Serve \/ Die
  BY <1>8 DEF Serve, Die, Trouble
<1>9. CASE UNCHANGED vars
  BY <1>9 DEF vars
<1>10. QED
  BY <1>1, <1>2, <1>3, <1>4, <1>5, <1>6, <1>7, <1>8, <1>9 DEF Next, Script

\* A container is started once in each round.
LEMMA StartedStep ==
    ASSUME TypeOK, Position, Started, [Next]_vars
    PROVE  Started'
<1> USE ProbesAssumption DEF TypeOK, Position, Started,
    script, runtime, docker
<1>1. CASE Validate \/ CreateVolume \/ SetupFails
  BY <1>1 DEF Validate, CreateVolume, SetupFails, Go, Exit, Trouble
<1>2. CASE Start \/ StartFails
  BY <1>2 DEF Start, StartFails, Go, Raise, Trouble
<1>3. CASE Healthy \/ HealthRetry \/ HealthBreaks \/ HealthTimeout
  BY <1>3 DEF Healthy, HealthRetry, HealthBreaks, HealthTimeout, Go, Raise, Trouble
<1>4. CASE Contract \/ Configure \/ AssertState \/ Unanswered
  BY <1>4 DEF Contract, Configure, AssertState, Unanswered, Assert, Go, Raise, Trouble
<1>5. CASE FirstCommand
  BY <1>5 DEF FirstCommand, RunCommand, Replays, Assert, Go, Raise
<1>6. CASE ReplayCommand
  BY <1>6 DEF ReplayCommand, RunCommand, Replays
<1>7. CASE Stop \/ Remove \/ RemoveFails \/ RemoveVolume
  BY <1>7 DEF Stop, Remove, RemoveFails, RemoveVolume, Ignored, InFinally, Trouble,
     AfterRemove
<1>8. CASE Serve \/ Die
  BY <1>8 DEF Serve, Die, Trouble
<1>9. CASE UNCHANGED vars
  BY <1>9 DEF vars
<1>10. QED
  BY <1>1, <1>2, <1>3, <1>4, <1>5, <1>6, <1>7, <1>8, <1>9 DEF Next, Script

\* A round asks for two samples at most, and none between the count and the replay.
LEMMA CountedStep ==
    ASSUME TypeOK, Position, Counted, [Next]_vars
    PROVE  Counted'
<1> USE ProbesAssumption DEF TypeOK, Position, Counted,
    script, runtime, docker
<1>1. CASE Validate \/ CreateVolume \/ SetupFails
  BY <1>1 DEF Validate, CreateVolume, SetupFails, Go, Exit, Trouble
<1>2. CASE Start \/ StartFails
  BY <1>2 DEF Start, StartFails, Go, Raise, Trouble
<1>3. CASE Healthy \/ HealthRetry \/ HealthBreaks \/ HealthTimeout
  BY <1>3 DEF Healthy, HealthRetry, HealthBreaks, HealthTimeout, Go, Raise, Trouble
<1>4. CASE Contract \/ Configure \/ AssertState \/ Unanswered
  BY <1>4 DEF Contract, Configure, AssertState, Unanswered, Assert, Go, Raise, Trouble
<1>5. CASE FirstCommand
  BY <1>5 DEF FirstCommand, RunCommand, Replays, Assert, Go, Raise
<1>6. CASE ReplayCommand
  BY <1>6 DEF ReplayCommand, RunCommand, Replays
<1>7. CASE Stop \/ Remove \/ RemoveFails \/ RemoveVolume
  BY <1>7 DEF Stop, Remove, RemoveFails, RemoveVolume, Ignored, InFinally, Trouble,
     AfterRemove
<1>8. CASE Serve \/ Die
  BY <1>8 DEF Serve, Die, Trouble
<1>9. CASE UNCHANGED vars
  BY <1>9 DEF vars
<1>10. QED
  BY <1>1, <1>2, <1>3, <1>4, <1>5, <1>6, <1>7, <1>8, <1>9 DEF Next, Script

\* The second container starts only when the first is gone, and its file system with it.
LEMMA RecordedStep ==
    ASSUME TypeOK, Position, Recorded, Undisturbed, [Next]_vars
    PROVE  Recorded'
<1> USE ProbesAssumption DEF TypeOK, Position, Recorded, Undisturbed,
    script, runtime, docker
<1>1. CASE Validate \/ CreateVolume \/ SetupFails
  BY <1>1 DEF Validate, CreateVolume, SetupFails, Go, Exit, Trouble
<1>2. CASE Start \/ StartFails
  BY <1>2 DEF Start, StartFails, Go, Raise, Trouble
<1>3. CASE Healthy \/ HealthRetry \/ HealthBreaks \/ HealthTimeout
  BY <1>3 DEF Healthy, HealthRetry, HealthBreaks, HealthTimeout, Go, Raise, Trouble
<1>4. CASE Contract \/ Configure \/ AssertState \/ Unanswered
  BY <1>4 DEF Contract, Configure, AssertState, Unanswered, Assert, Go, Raise, Trouble
<1>5. CASE FirstCommand
  <2>1. \/ ledger' = ledger
        \/ "durable" \in image /\ ledger' = {"volume"}
        \/ ledger' = {"container"}
    BY <1>5 DEF FirstCommand, RunCommand
  <2>2. QED
    BY <1>5, <2>1 DEF FirstCommand, Assert, Go, Raise
<1>6. CASE ReplayCommand
  <2>1. \/ ledger' = ledger
        \/ "durable" \in image /\ ledger' = {"volume"}
        \/ ledger' = {"container"}
    BY <1>6 DEF ReplayCommand, RunCommand
  <2>2. QED
    BY <1>6, <2>1 DEF ReplayCommand
<1>7. CASE Stop \/ Remove \/ RemoveFails \/ RemoveVolume
  BY <1>7 DEF Stop, Remove, RemoveFails, RemoveVolume, Ignored, InFinally, Trouble,
     AfterRemove
<1>8. CASE Serve \/ Die
  BY <1>8 DEF Serve, Die, Trouble
<1>9. CASE UNCHANGED vars
  BY <1>9 DEF vars
<1>10. QED
  BY <1>1, <1>2, <1>3, <1>4, <1>5, <1>6, <1>7, <1>8, <1>9 DEF Next, Script

\* A step is left for the next one only when its assertion holds.
LEMMA AssertedStep ==
    ASSUME TypeOK, Position, Asserted, [Next]_vars
    PROVE  Asserted'
<1> USE ProbesAssumption DEF TypeOK, Position, Asserted,
    script, runtime, docker
<1>1. CASE Validate \/ CreateVolume \/ SetupFails
  BY <1>1 DEF Validate, CreateVolume, SetupFails, Go, Exit, Trouble
<1>2. CASE Start \/ StartFails
  BY <1>2 DEF Start, StartFails, Go, Raise, Trouble
<1>3. CASE Healthy \/ HealthRetry \/ HealthBreaks \/ HealthTimeout
  BY <1>3 DEF Healthy, HealthRetry, HealthBreaks, HealthTimeout, Go, Raise, Trouble
<1>4. CASE Contract \/ Configure \/ AssertState \/ Unanswered
  BY <1>4 DEF Contract, Configure, AssertState, Unanswered, Assert, Go, Raise, Trouble
<1>5. CASE FirstCommand
  BY <1>5 DEF FirstCommand, RunCommand, Replays, Assert, Go, Raise
<1>6. CASE ReplayCommand
  BY <1>6 DEF ReplayCommand, RunCommand, Replays
<1>7. CASE Stop \/ Remove \/ RemoveFails \/ RemoveVolume
  BY <1>7 DEF Stop, Remove, RemoveFails, RemoveVolume, Ignored, InFinally, Trouble,
     AfterRemove
<1>8. CASE Serve \/ Die
  BY <1>8 DEF Serve, Die, Trouble
<1>9. CASE UNCHANGED vars
  BY <1>9 DEF vars
<1>10. QED
  BY <1>1, <1>2, <1>3, <1>4, <1>5, <1>6, <1>7, <1>8, <1>9 DEF Next, Script

\* While nothing has gone wrong the container answers, and what it records stays.
LEMMA UndisturbedStep ==
    ASSUME TypeOK, Position, Recorded, Asserted, Undisturbed, [Next]_vars
    PROVE  Undisturbed'
<1> USE ProbesAssumption DEF TypeOK, Position, Recorded, Asserted, Undisturbed, Facets,
    script, runtime, docker
<1>1. CASE Validate \/ CreateVolume \/ SetupFails
  BY <1>1 DEF Validate, CreateVolume, SetupFails, Go, Exit, Trouble
<1>2. CASE Start \/ StartFails
  BY <1>2 DEF Start, StartFails, Go, Raise, Trouble
<1>3. CASE Healthy \/ HealthRetry \/ HealthBreaks \/ HealthTimeout
  BY <1>3 DEF Healthy, HealthRetry, HealthBreaks, HealthTimeout, Go, Raise, Trouble
<1>4. CASE Contract \/ Configure \/ AssertState \/ Unanswered
  BY <1>4 DEF Contract, Configure, AssertState, Unanswered, Assert, Go, Raise, Trouble
<1>5. CASE FirstCommand
  BY <1>5 DEF FirstCommand, RunCommand, Replays, Assert, Go, Raise
<1>6. CASE ReplayCommand
  BY <1>6 DEF ReplayCommand, RunCommand, Replays
<1>7. CASE Stop \/ Remove \/ RemoveFails \/ RemoveVolume
  BY <1>7 DEF Stop, Remove, RemoveFails, RemoveVolume, Ignored, InFinally, Trouble,
     AfterRemove
<1>8. CASE Serve \/ Die
  BY <1>8 DEF Serve, Die, Trouble
<1>9. CASE UNCHANGED vars
  BY <1>9 DEF vars
<1>10. QED
  BY <1>1, <1>2, <1>3, <1>4, <1>5, <1>6, <1>7, <1>8, <1>9 DEF Next, Script

\* The verdict is "passed" only at the end of the replay.
LEMMA PassedStep ==
    ASSUME TypeOK, Position, Started, Counted, Recorded, Asserted, PassedMeansGood,
           [Next]_vars
    PROVE  PassedMeansGood'
<1> USE ProbesAssumption DEF TypeOK, Position, Started, Counted, Recorded, Asserted,
    PassedMeansGood, Facets,
    script, runtime, docker
<1>1. CASE Validate \/ CreateVolume \/ SetupFails
  BY <1>1 DEF Validate, CreateVolume, SetupFails, Go, Exit, Trouble
<1>2. CASE Start \/ StartFails
  BY <1>2 DEF Start, StartFails, Go, Raise, Trouble
<1>3. CASE Healthy \/ HealthRetry \/ HealthBreaks \/ HealthTimeout
  BY <1>3 DEF Healthy, HealthRetry, HealthBreaks, HealthTimeout, Go, Raise, Trouble
<1>4. CASE Contract \/ Configure \/ AssertState \/ Unanswered
  BY <1>4 DEF Contract, Configure, AssertState, Unanswered, Assert, Go, Raise, Trouble
<1>5. CASE FirstCommand
  BY <1>5 DEF FirstCommand, RunCommand, Replays, Assert, Go, Raise
<1>6. CASE ReplayCommand
  <2>1. ASSUME verdict' = "passed" PROVE image = Facets /\ processes = 2
    <3>1. Replays /\ sample_requests' = samples_before_replay /\ "requests" \in image
      BY <1>6, <2>1 DEF ReplayCommand
    <3>2. ledger # {}
      BY <1>6, <3>1 DEF ReplayCommand, Replays
    <3>3. "durable" \in image
      BY <1>6, <3>2 DEF ReplayCommand
    <3>4. "once" \in image
      BY <1>6, <3>1, <3>2 DEF ReplayCommand, RunCommand
    <3>5. QED
      BY <1>6, <3>1, <3>3, <3>4 DEF ReplayCommand
  <2>2. QED
    BY <1>6, <2>1 DEF ReplayCommand
<1>7. CASE Stop \/ Remove \/ RemoveFails \/ RemoveVolume
  BY <1>7 DEF Stop, Remove, RemoveFails, RemoveVolume, Ignored, InFinally, Trouble,
     AfterRemove
<1>8. CASE Serve \/ Die
  BY <1>8 DEF Serve, Die, Trouble
<1>9. CASE UNCHANGED vars
  BY <1>9 DEF vars
<1>10. QED
  BY <1>1, <1>2, <1>3, <1>4, <1>5, <1>6, <1>7, <1>8, <1>9 DEF Next, Script

\* Each way to fail is a fault of the image or a trouble.
LEMMA RejectedStep ==
    ASSUME TypeOK, Position, Counted, Recorded, Asserted, Undisturbed, RejectedForAReason,
           [Next]_vars
    PROVE  RejectedForAReason'
<1> USE ProbesAssumption DEF TypeOK, Position, Counted, Recorded, Asserted, Undisturbed,
    RejectedForAReason, Facets,
    script, runtime, docker
<1>1. CASE Validate \/ CreateVolume \/ SetupFails
  BY <1>1 DEF Validate, CreateVolume, SetupFails, Go, Exit, Trouble
<1>2. CASE Start \/ StartFails
  BY <1>2 DEF Start, StartFails, Go, Raise, Trouble
<1>3. CASE Healthy \/ HealthRetry \/ HealthBreaks \/ HealthTimeout
  BY <1>3 DEF Healthy, HealthRetry, HealthBreaks, HealthTimeout, Go, Raise, Trouble
<1>4. CASE Contract \/ Configure \/ AssertState \/ Unanswered
  BY <1>4 DEF Contract, Configure, AssertState, Unanswered, Assert, Go, Raise, Trouble
<1>5. CASE FirstCommand
  BY <1>5 DEF FirstCommand, RunCommand, Replays, Assert, Go, Raise
<1>6. CASE ReplayCommand
  BY <1>6 DEF ReplayCommand, RunCommand, Replays
<1>7. CASE Stop \/ Remove \/ RemoveFails \/ RemoveVolume
  BY <1>7 DEF Stop, Remove, RemoveFails, RemoveVolume, Ignored, InFinally, Trouble,
     AfterRemove
<1>8. CASE Serve \/ Die
  BY <1>8 DEF Serve, Die, Trouble
<1>9. CASE UNCHANGED vars
  BY <1>9 DEF vars
<1>10. QED
  BY <1>1, <1>2, <1>3, <1>4, <1>5, <1>6, <1>7, <1>8, <1>9 DEF Next, Script

\* The script ends before it has created anything, or through the finally block.
LEMMA CleanStep ==
    ASSUME TypeOK, Position, Undisturbed, NothingLeftBehind, [Next]_vars
    PROVE  NothingLeftBehind'
<1> USE ProbesAssumption DEF TypeOK, Position, Undisturbed, NothingLeftBehind,
    script, runtime, docker
<1>1. CASE Validate \/ CreateVolume \/ SetupFails
  BY <1>1 DEF Validate, CreateVolume, SetupFails, Go, Exit, Trouble
<1>2. CASE Start \/ StartFails
  BY <1>2 DEF Start, StartFails, Go, Raise, Trouble
<1>3. CASE Healthy \/ HealthRetry \/ HealthBreaks \/ HealthTimeout
  BY <1>3 DEF Healthy, HealthRetry, HealthBreaks, HealthTimeout, Go, Raise, Trouble
<1>4. CASE Contract \/ Configure \/ AssertState \/ Unanswered
  BY <1>4 DEF Contract, Configure, AssertState, Unanswered, Assert, Go, Raise, Trouble
<1>5. CASE FirstCommand
  BY <1>5 DEF FirstCommand, RunCommand, Replays, Assert, Go, Raise
<1>6. CASE ReplayCommand
  BY <1>6 DEF ReplayCommand, RunCommand, Replays
<1>7. CASE Stop \/ Remove \/ RemoveFails \/ RemoveVolume
  BY <1>7 DEF Stop, Remove, RemoveFails, RemoveVolume, Ignored, InFinally, Trouble,
     AfterRemove
<1>8. CASE Serve \/ Die
  BY <1>8 DEF Serve, Die, Trouble
<1>9. CASE UNCHANGED vars
  BY <1>9 DEF vars
<1>10. QED
  BY <1>1, <1>2, <1>3, <1>4, <1>5, <1>6, <1>7, <1>8, <1>9 DEF Next, Script

-----------------------------------------------------------------------------
(* The theorems *)

\* Nothing has been started yet.
LEMMA ScriptInvInit == Init => ScriptInv
<1> SUFFICES ASSUME Init PROVE ScriptInv
  OBVIOUS
<1> USE ProbesAssumption DEF Init
<1>1. TypeOK
  <2>1. 0 \in 0..MaxProbes /\ 0 \in 0..4 /\ 0 \in 0..2 /\ 1 \in 1..2
    OBVIOUS
  <2>2. QED
    BY <2>1 DEF TypeOK, Steps
<1>2. Position /\ Started /\ Counted /\ Recorded
  BY DEF Position, Started, Counted, Recorded
<1>3. Asserted /\ Undisturbed
  BY DEF Asserted, Undisturbed
<1>4. PassedMeansGood /\ RejectedForAReason /\ NothingLeftBehind
  BY DEF PassedMeansGood, RejectedForAReason, NothingLeftBehind
<1>5. QED
  BY <1>1, <1>2, <1>3, <1>4 DEF ScriptInv

\* Every step preserves the invariant.
LEMMA ScriptInvNext == ScriptInv /\ [Next]_vars => ScriptInv'
  BY TypeStep, PositionStep, StartedStep, CountedStep, RecordedStep, AssertedStep,
     UndisturbedStep, PassedStep, RejectedStep, CleanStep DEF ScriptInv

\* The invariant holds in every reachable state.
THEOREM ScriptInvariant == Spec => []ScriptInv
  BY ScriptInvInit, ScriptInvNext, PTL DEF Spec

\* The script's state stays well typed, and its wait within the deadline, whatever
\* the deadline is.
THEOREM ScriptTypeCorrect == Spec => []TypeOK
  BY ScriptInvariant, PTL DEF ScriptInv

\* A passed qualification proves every facet of the image, and that a second process
\* answered the replay, whatever failed on the way (qualify).
THEOREM OnlyGoodImagesPass == Spec => []PassedMeansGood
  BY ScriptInvariant, PTL DEF ScriptInv

\* A rejected image has a fault, or something else went wrong before the finally block:
\* docker, the death of a container, the deadline, a late or dropped answer (qualify).
THEOREM NoGoodImageIsRejected == Spec => []RejectedForAReason
  BY ScriptInvariant, PTL DEF ScriptInv

\* Container and volume are gone at the end unless the finally block itself failed
\* (qualify, stop_container).
THEOREM NothingStaysBehind == Spec => []NothingLeftBehind
  BY ScriptInvariant, PTL DEF ScriptInv
=============================================================================
