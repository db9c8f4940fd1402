------------------------ MODULE RuntimeLifecycle_proofs ------------------------
(***************************************************************************)
(* Theorems about RuntimeLifecycle: who a request belongs to, and what a   *)
(* shutdown leaves behind, for any number of requests, configurations,     *)
(* container ids and tokens.                                               *)
(***************************************************************************)
EXTENDS RuntimeLifecycle, SerialRuntime_proofs

-----------------------------------------------------------------------------
(* Which requests a step of AirthingsRuntime touches *)

\* A request that goes on touches no other.
LEMMA WorkerStepIsLocal ==
    ASSUME DOMAIN worker = Workers, NEW w \in Workers, WorkerStep(w)
    PROVE  /\ DOMAIN worker' = Workers
           /\ \A v \in Workers \ {w} : worker'[v] = worker[v]
<1>1. PICK x : worker' = [worker EXCEPT ![w] = x]
  <2>1. CASE VerifyFails(w)
    BY <2>1 DEF VerifyFails, Answered
  <2>2. ASSUME NEW g \in Gens, VerifySucceeds(w, g) \/ ApplyResumes(w, g)
        PROVE  \E x : worker' = [worker EXCEPT ![w] = x]
    BY <2>2 DEF VerifySucceeds, ApplyResumes, Register
  <2>3. CASE VerifySucceedsPolled(w)
    BY <2>3 DEF VerifySucceedsPolled
  <2>4. ASSUME NEW t \in Samples,
               InitialReadOk(w, t) \/ CommandReadOk(w, t) \/ RefreshReadOk(w, t)
        PROVE  \E x : worker' = [worker EXCEPT ![w] = x]
    BY <2>4 DEF InitialReadOk, CommandReadOk, RefreshReadOk, Answered
  <2>5. CASE InitialReadFails(w) \/ RemoveResumes(w)
    BY <2>5 DEF InitialReadFails, RemoveResumes, Answered
  <2>6. CASE CommandReadFails(w) \/ RefreshReadFails(w)
    BY <2>6 DEF CommandReadFails, RefreshReadFails, Answered
  <2>7. QED
    BY <2>1, <2>2, <2>3, <2>4, <2>5, <2>6 DEF WorkerStep
<1>2. QED
  BY <1>1

\* A new request touches no request under way.
LEMMA RequestIsLocal ==
    ASSUME DOMAIN worker = Workers, Request
    PROVE  /\ DOMAIN worker' = Workers
           /\ \A v \in Workers : worker'[v] = worker[v] \/ v \in Begun
<1> DEFINE Opens(w, x) == worker[w].pc = "idle" /\ x.pc # "idle"
                            /\ worker' = [worker EXCEPT ![w] = x]
<1>1. worker' = worker \/ \E w \in Workers : \E x : Opens(w, x)
  <2>1. ASSUME NEW w \in Configurers, NEW c \in Configs, NEW s \in Serials,
               ConfigRequest(w, c, s)
        PROVE  \E v \in Workers : \E x : Opens(v, x)
    <3> DEFINE x == [Idle EXCEPT !.pc = "verify", !.config_id = c, !.serial_number = s]
    <3>1. x.pc # "idle"
      BY DEF Idle
    <3>2. worker[w].pc = "idle" /\ worker' = [worker EXCEPT ![w] = x]
      BY <2>1 DEF ConfigRequest
    <3>3. QED
      BY <3>1, <3>2 DEF Workers
  <2>2. ASSUME NEW w \in Configurers, NEW c \in Configs, DeconfigurePolled(w, c)
        PROVE  \E v \in Workers : \E x : Opens(v, x)
    <3> DEFINE x == [Idle EXCEPT !.pc = "remove_cancel", !.config_id = c,
                              !.awaited = poll_tasks[c]]
    <3>1. x.pc # "idle"
      BY DEF Idle
    <3>2. worker[w].pc = "idle" /\ worker' = [worker EXCEPT ![w] = x]
      BY <2>2 DEF DeconfigurePolled
    <3>3. QED
      BY <3>1, <3>2 DEF Workers
  <2>3. ASSUME NEW w \in Commanders, NEW c \in Configs, CommandRequest(w, c)
        PROVE  \E v \in Workers : \E x : Opens(v, x)
    <3> DEFINE x == [Idle EXCEPT !.pc = "command_read", !.config_id = c, !.entry = registry[c]]
    <3>1. x.pc # "idle"
      BY DEF Idle
    <3>2. worker[w].pc = "idle" /\ worker' = [worker EXCEPT ![w] = x]
      BY <2>3 DEF CommandRequest
    <3>3. QED
      BY <3>1, <3>2 DEF Workers
  <2>4. ASSUME NEW w \in Refreshers, NEW c \in Configs, RefreshRequest(w, c)
        PROVE  \E v \in Workers : \E x : Opens(v, x)
    <3> DEFINE x == [Idle EXCEPT !.pc = "refresh_read", !.config_id = c,
                              !.entry = registry[c], !.was_offline = Offline(c)]
    <3>1. x.pc # "idle"
      BY DEF Idle
    <3>2. worker[w].pc = "idle" /\ worker' = [worker EXCEPT ![w] = x]
      BY <2>4 DEF RefreshRequest
    <3>3. QED
      BY <3>1, <3>2 DEF Workers
  <2>5. ASSUME NEW w \in Configurers, NEW c \in Configs, Deconfigure(w, c)
        PROVE  worker' = worker
    BY <2>5 DEF Deconfigure
  <2>6. QED
    BY <2>1, <2>2, <2>3, <2>4, <2>5 DEF Request
<1>2. CASE worker' = worker
  BY <1>2
<1>3. ASSUME NEW w \in Workers, NEW x, Opens(w, x)
      PROVE  /\ DOMAIN worker' = Workers
             /\ \A v \in Workers : worker'[v] = worker[v] \/ v \in Begun
  BY <1>3 DEF Begun
<1>4. QED
  BY <1>1, <1>2, <1>3

-----------------------------------------------------------------------------
(* The inductive invariant *)

\* Credentials are remembered for the requests under way, and only while the process
\* serves requests: that is why a shutdown or a restart takes them from nobody.
OwnersInv ==
    /\ DOMAIN worker = Workers
    /\ presented \in [Workers -> Credentials \cup {None}]
    /\ \A w \in Workers : worker[w].pc = "idle" => presented[w] = None
    /\ phase # "serving" => \A w \in Workers : presented[w] = None
    /\ RequestsAreOwners

\* A new process serves nobody.
LEMMA OwnersInvInit == LInit => OwnersInv
  BY DEF LInit, Init, LifecycleInit, OwnersInv, RequestsAreOwners

\* Complete credentials are never the empty ones.
LEMMA UnsetIsNoCredentials == Unset \notin Credentials
  BY CredentialsAssumption DEF Unset, Credentials

\* A request that is let in leaves every request under way its owner.
LEMMA AuthorizeKeepsOwners ==
    ASSUME OwnersInv, NEW received \in Credentials, NEW allow_bootstrap,
           Authorize(received, allow_bootstrap)
    PROVE  /\ auth' = received
           /\ \A w \in Workers : presented[w] # None => presented[w] = auth'
<1>1. CASE auth = received /\ UNCHANGED auth
  BY <1>1 DEF OwnersInv, RequestsAreOwners
<1>2. CASE auth = Unset /\ auth' = received
  BY <1>2, UnsetIsNoCredentials DEF OwnersInv, RequestsAreOwners
<1>3. QED
  BY <1>1, <1>2 DEF Authorize

\* A request that is let in has the credentials of the process, adopted or not.
LEMMA RequestKeepsOwners == OwnersInv /\ LRequest => OwnersInv'
<1> SUFFICES ASSUME OwnersInv, LRequest PROVE OwnersInv'
  OBVIOUS
<1>1. PICK received \in Credentials :
         /\ Authorize(received, \E w \in Begun : worker'[w].pc = "verify")
         /\ presented' = [w \in Workers |-> IF w \in Begun THEN received ELSE presented[w]]
  BY DEF LRequest
<1>2. /\ DOMAIN worker' = Workers
      /\ \A v \in Workers : worker'[v] = worker[v] \/ v \in Begun
  BY RequestIsLocal DEF LRequest, OwnersInv
<1>3. /\ auth' = received
      /\ \A w \in Workers : presented[w] # None => presented[w] = auth'
  BY <1>1, AuthorizeKeepsOwners
<1>4. phase' = "serving"
  BY DEF LRequest
<1>5. presented' \in [Workers -> Credentials \cup {None}]
  BY <1>1 DEF OwnersInv
<1>6. \A w \in Workers : worker'[w].pc = "idle" => presented'[w] = None
  BY <1>1, <1>2 DEF OwnersInv, Begun
<1>7. RequestsAreOwners'
  BY <1>1, <1>3 DEF RequestsAreOwners
<1>8. QED
  BY <1>2, <1>4, <1>5, <1>6, <1>7 DEF OwnersInv

\* A request that goes on keeps its owner until it is answered.
LEMMA WorkerStepKeepsOwners ==
    ASSUME OwnersInv, NEW w \in Workers, LWorkerStep(w)
    PROVE  OwnersInv'
<1>1. /\ DOMAIN worker' = Workers
      /\ \A v \in Workers \ {w} : worker'[v] = worker[v]
  BY WorkerStepIsLocal DEF LWorkerStep, OwnersInv
<1>2. CASE worker'[w].pc = "idle" /\ presented' = [presented EXCEPT ![w] = None]
  BY <1>1, <1>2 DEF LWorkerStep, OwnersInv, RequestsAreOwners
<1>3. CASE worker'[w].pc # "idle" /\ presented' = presented
  BY <1>1, <1>3 DEF LWorkerStep, OwnersInv, RequestsAreOwners
<1>4. QED
  BY <1>2, <1>3 DEF LWorkerStep

\* Every step preserves the invariant.
LEMMA OwnersInvNext == OwnersInv /\ [LNext]_lvars => OwnersInv'
<1> SUFFICES ASSUME OwnersInv, [LNext]_lvars PROVE OwnersInv'
  OBVIOUS
<1>1. CASE Rehydrate
  <2>1. Request /\ UNCHANGED lifecycle /\ phase # "serving"
    BY <1>1 DEF Rehydrate, Request
  <2>2. DOMAIN worker' = Workers
    BY <2>1, RequestIsLocal DEF OwnersInv
  <2> QED
    BY <2>1, <2>2 DEF lifecycle, OwnersInv, RequestsAreOwners
<1>2. CASE StartupDone \/ BeginShutdown
  BY <1>2 DEF StartupDone, BeginShutdown, AllIdle, vars, OwnersInv, RequestsAreOwners
<1>3. CASE Bootstrap
  BY <1>3, AuthorizeKeepsOwners DEF Bootstrap, vars, OwnersInv, RequestsAreOwners
<1>4. CASE LRequest
  BY <1>4, RequestKeepsOwners
<1>5. ASSUME NEW w \in Workers, LWorkerStep(w) PROVE OwnersInv'
  BY <1>5, WorkerStepKeepsOwners
<1>6. ASSUME NEW g \in Gens, LTaskStep(g) PROVE OwnersInv'
  <2>1. UNCHANGED <<worker, lifecycle>>
    BY <1>6 DEF LTaskStep, TaskStep, TaskStart, PollStart, PollSkip, PollReadOk,
                PollReadFails, TaskStops
  <2>2. QED
    BY <2>1 DEF lifecycle, OwnersInv, RequestsAreOwners
<1>7. CASE LDelivery
  <2>1. UNCHANGED <<worker, lifecycle>>
    BY <1>7 DEF LDelivery, Delivery, MeasurementDone, HeartbeatDone
  <2>2. QED
    BY <2>1 DEF lifecycle, OwnersInv, RequestsAreOwners
<1>8. CASE Shutdown
  <2>1. UNCHANGED <<worker, presented>> /\ phase # "serving"
    BY <1>8 DEF Shutdown, ClientClosed, ResetCancel, ResetAwaited, ResetClear, vars
  <2>2. QED
    BY <2>1 DEF OwnersInv, RequestsAreOwners
<1>9. CASE Restart
  BY <1>9 DEF Restart, OwnersInv, RequestsAreOwners
<1>10. CASE UNCHANGED lvars
  BY <1>10 DEF lvars, vars, lifecycle, OwnersInv, RequestsAreOwners
<1>11. QED
  BY <1>1, <1>2, <1>3, <1>4, <1>5, <1>6, <1>7, <1>8, <1>9, <1>10 DEF LNext

-----------------------------------------------------------------------------
(* The theorems *)

\* The invariant holds in every reachable state.
THEOREM OwnersInvariant == LSpec => []OwnersInv
  BY OwnersInvInit, OwnersInvNext, PTL DEF LSpec

\* Every request under way came with the credentials the process has now, across
\* bootstraps, shutdowns and restarts (authorize_runtime_request).
THEOREM RequestsBelongToTheOwner == LSpec => []RequestsAreOwners
  BY OwnersInvariant, PTL DEF OwnersInv

\* Credentials change at most once before the process ends
\* (authorize_runtime_request, reset_runtime_state).
THEOREM CredentialsAreAdoptedOnce == LSpec => BootstrapsOnce
<1>1. [LNext]_lvars =>
        [auth # Unset /\ auth' # auth => phase' \in {"down", "starting"}]_lvars
  <2> SUFFICES ASSUME [LNext]_lvars, auth # Unset, auth' # auth
               PROVE  phase' \in {"down", "starting"}
    OBVIOUS
  <2>1. CASE Restart \/ ResetClear
    BY <2>1 DEF Restart, ResetClear
  <2>2. CASE Bootstrap \/ LRequest
    BY <2>2 DEF Bootstrap, LRequest, Authorize
  <2>3. CASE Rehydrate \/ StartupDone \/ BeginShutdown \/ LDelivery
    BY <2>3 DEF Rehydrate, StartupDone, BeginShutdown, LDelivery, lifecycle
  <2>4. ASSUME NEW w \in Workers, LWorkerStep(w) PROVE FALSE
    BY <2>4 DEF LWorkerStep
  <2>5. ASSUME NEW g \in Gens, LTaskStep(g) \/ ResetCancel(g) PROVE FALSE
    BY <2>5 DEF LTaskStep, ResetCancel, lifecycle
  <2>6. CASE ClientClosed \/ ResetAwaited \/ UNCHANGED lvars
    BY <2>6 DEF ClientClosed, ResetAwaited, lvars, lifecycle
  <2>7. QED
    BY <2>1, <2>2, <2>3, <2>4, <2>5, <2>6 DEF LNext, Shutdown
<1>2. QED
  BY <1>1, PTL DEF LSpec, BootstrapsOnce

-----------------------------------------------------------------------------
(* A cancelled poll task is awaited by the request that cancelled it *)

Awaiting(w) == worker[w].pc \in {"apply_cancel", "remove_cancel"}

CancelledIsAwaited ==
    \A g \in Gens : task[g].pc = "cancelled" =>
        \E w \in Workers : Awaiting(w) /\ worker[w].awaited = g

\* A step that cancels no task, and in which a request stops waiting only for a task
\* that has stopped.
LEMMA CancelledKept ==
    ASSUME CancelledIsAwaited,
           \A g \in Gens : task'[g].pc = "cancelled" => task[g].pc = "cancelled",
           \A w \in Workers : Awaiting(w) => worker'[w] = worker[w] \/ TaskEnded(w)
    PROVE  CancelledIsAwaited'
<1> SUFFICES ASSUME NEW g \in Gens, task[g].pc = "cancelled"
             PROVE  \E w \in Workers : Awaiting(w)' /\ worker'[w].awaited = g
  BY DEF CancelledIsAwaited
<1>1. PICK w \in Workers : Awaiting(w) /\ worker[w].awaited = g
  BY DEF CancelledIsAwaited
<1> QED BY <1>1 DEF TaskEnded, Awaiting

\* The request that pops a task out of its slot waits for it.
LEMMA CancelledPopped ==
    ASSUME TypeInv, CancelledIsAwaited, NEW w \in Workers, NEW c \in Configs, PopAndCancel(c),
           ~Awaiting(w), Awaiting(w)', worker'[w].awaited = poll_tasks[c],
           \A v \in Workers : v # w => worker'[v] = worker[v]
    PROVE  CancelledIsAwaited'
<1> SUFFICES ASSUME NEW g \in Gens, task'[g].pc = "cancelled"
             PROVE  \E v \in Workers : Awaiting(v)' /\ worker'[v].awaited = g
  BY DEF CancelledIsAwaited
<1>1. CASE g = poll_tasks[c]
  BY <1>1
<1>2. CASE g # poll_tasks[c]
  <2>1. PICK v \in Workers : Awaiting(v) /\ worker[v].awaited = g
    BY <1>2, PopAndCancelFacts DEF TypeInv, CancelledIsAwaited
  <2> QED BY <2>1 DEF Awaiting
<1> QED BY <1>1, <1>2

LEMMA CancelledWorkerStep ==
    ASSUME TypeInv, CancelledIsAwaited, NEW w \in Workers, WorkerStep(w)
    PROVE  CancelledIsAwaited'
<1>1. \A v \in Workers \ {w} : worker'[v] = worker[v]
  BY WorkerStepIsLocal DEF TypeInv, TypeOK
<1>2. CASE VerifySucceedsPolled(w)
  <2> DEFINE c == worker[w].config_id
             new == [worker[w] EXCEPT !.pc = "apply_cancel", !.awaited = poll_tasks[c],
                        !.previous_sample_at = PreviousSampleAt(c, worker[w].serial_number)]
  <2>1. /\ c \in Configs /\ PopAndCancel(c) /\ ~Awaiting(w)
        /\ worker' = [worker EXCEPT ![w] = new]
    BY <1>2 DEF VerifySucceedsPolled, Awaiting, TypeInv, Refs, WorkerRefs
  <2>2. new.pc = "apply_cancel" /\ new.awaited = poll_tasks[c]
    BY DEF TypeInv, TypeOK, Worker
  <2> HIDE DEF new
  <2>3. Awaiting(w)' /\ worker'[w].awaited = poll_tasks[c]
    BY <2>1, <2>2 DEF Awaiting, TypeInv, TypeOK
  <2> QED BY <1>1, <2>1, <2>3, CancelledPopped
<1>3. CASE InitialReadFails(w) \/ \E t \in Samples : InitialReadOk(w, t)
  <2>1. /\ worker[w].pc = "initial_read" /\ worker[w].config_id \in Configs
        /\ worker[w].entry \in Gens /\ StartPolling(worker[w].config_id, worker[w].entry)
    BY <1>3 DEF InitialReadFails, InitialReadOk, TypeInv, Refs, WorkerRefs
  <2>2. \A g \in Gens : task'[g].pc = "cancelled" => task[g].pc = "cancelled"
    BY <2>1, StartPollingFacts DEF TypeInv
  <2> QED BY <1>1, <2>1, <2>2, CancelledKept DEF Awaiting
<1>4. CASE \/ VerifyFails(w) \/ CommandReadFails(w) \/ RefreshReadFails(w)
           \/ \E t \in Samples : CommandReadOk(w, t) \/ RefreshReadOk(w, t)
           \/ \E g \in Gens : VerifySucceeds(w, g)
  <2>1. task' = task /\ ~Awaiting(w)
    BY <1>4 DEF VerifyFails, CommandReadFails, RefreshReadFails, CommandReadOk, RefreshReadOk,
                VerifySucceeds, Awaiting
  <2> QED BY <1>1, <2>1, CancelledKept
<1>5. CASE RemoveResumes(w) \/ \E g \in Gens : ApplyResumes(w, g)
  <2>1. task' = task /\ TaskEnded(w)
    BY <1>5 DEF RemoveResumes, ApplyResumes
  <2> QED BY <1>1, <2>1, CancelledKept
<1> QED BY <1>2, <1>3, <1>4, <1>5 DEF WorkerStep

LEMMA CancelledRequest ==
    ASSUME TypeInv, CancelledIsAwaited, Request
    PROVE  CancelledIsAwaited'
<1>1. \A v \in Workers : worker'[v] = worker[v] \/ v \in Begun
  BY RequestIsLocal DEF TypeInv, TypeOK
<1>2. \A v \in Workers : Awaiting(v) => worker'[v] = worker[v]
  BY <1>1 DEF Awaiting, Begun
<1>3. ASSUME NEW w \in Configurers, NEW c \in Configs, DeconfigurePolled(w, c)
      PROVE  CancelledIsAwaited'
  <2> DEFINE new == [Idle EXCEPT !.pc = "remove_cancel", !.config_id = c,
                                 !.awaited = poll_tasks[c]]
  <2>1. PopAndCancel(c) /\ ~Awaiting(w) /\ worker' = [worker EXCEPT ![w] = new] /\ w \in Workers
    BY <1>3 DEF DeconfigurePolled, Awaiting, Workers
  <2>2. new.pc = "remove_cancel" /\ new.awaited = poll_tasks[c]
    BY DEF Idle
  <2> HIDE DEF new
  <2>3. /\ Awaiting(w)' /\ worker'[w].awaited = poll_tasks[c]
        /\ \A v \in Workers : v # w => worker'[v] = worker[v]
    BY <2>1, <2>2 DEF Awaiting, TypeInv, TypeOK
  <2> QED BY <2>1, <2>3, CancelledPopped
<1>4. CASE ~ \E w \in Configurers, c \in Configs : DeconfigurePolled(w, c)
  <2>1. task' = task
    BY <1>4 DEF Request, ConfigRequest, Deconfigure, CommandRequest, RefreshRequest
  <2> QED BY <1>2, <2>1, CancelledKept
<1> QED BY <1>3, <1>4

\* The step of a poll task moves that task only, and cancels nothing.
LEMMA TaskStepIsLocal ==
    ASSUME DOMAIN task = Gens, NEW g \in Gens, TaskStep(g)
    PROVE  /\ DOMAIN task' = Gens
           /\ task[g].pc \notin {"unborn", "stopped"}
           /\ task'[g].pc # "cancelled"
           /\ \A h \in Gens : h # g => task'[h] = task[h]
           /\ UNCHANGED <<registry, poll_tasks, worker>>
<1>1. AtPc("stopped").pc = "stopped" /\ AtPc("sleep").pc = "sleep"
  BY DEF AtPc
<1>2. CASE TaskStart(g)
  BY <1>2 DEF TaskStart
<1>3. CASE PollStart(g) \/ PollSkip(g)
  BY <1>3 DEF PollStart, PollSkip
<1>4. CASE PollReadFails(g) \/ TaskStops(g) \/ \E t \in Samples : PollReadOk(g, t)
  BY <1>1, <1>4 DEF PollReadFails, TaskStops, PollReadOk
<1> QED BY <1>2, <1>3, <1>4 DEF TaskStep

LEMMA CancelledNext ==
    ASSUME TypeInv, CancelledIsAwaited, [Next]_vars
    PROVE  CancelledIsAwaited'
<1>1. CASE Request
  BY <1>1, CancelledRequest
<1>2. CASE \E w \in Workers : WorkerStep(w)
  BY <1>2, CancelledWorkerStep
<1>3. CASE \E g \in Gens : TaskStep(g)
  BY <1>3, TaskStepIsLocal, CancelledKept DEF TypeInv, TypeOK
<1>4. CASE Delivery \/ UNCHANGED vars
  <2>1. UNCHANGED <<worker, task>>
    BY <1>4 DEF Delivery, MeasurementDone, HeartbeatDone, vars
  <2> QED BY <2>1, CancelledKept
<1> QED BY <1>1, <1>2, <1>3, <1>4 DEF Next

-----------------------------------------------------------------------------
(* The life of the process *)

\* What holds of the references in every phase: once the poll tasks are listed the
\* slots may hold cancelled tasks, and SlotIsLive holds no more.
BaseInv == TypeOK /\ RegistryRefs /\ TaskRefs /\ DeliveryRefs

\* Until it lists the poll tasks a process keeps the invariants of AirthingsRuntime.
RunningInv ==
    /\ BaseInv
    /\ phase \notin {"resetting", "down"} => TypeInv /\ CancelledIsAwaited
    /\ phase \notin {"starting", "serving"} => AllIdle
    /\ phase = "resetting" => \A g \in to_cancel \cap Gens : Born(g)

\* A step that keeps the entry dicts and the registry, and sends for dicts that exist.
LEMMA BaseKept ==
    ASSUME BaseInv, Kept, registry' = registry
    PROVE  /\ RegistryRefs'
           /\ task' = task => TaskRefs'
           /\ sending' = sending => DeliveryRefs'
<1> USE KeptBorn DEF BaseInv
<1>1. RegistryRefs'
  BY DEF TypeOK, RegistryRefs, Kept, Born
<1>2. task' = task => TaskRefs'
  BY DEF TypeOK, TaskRefs, Kept, Born
<1>3. sending' = sending => DeliveryRefs'
  BY DEF TypeOK, DeliveryRefs, Kept, Born
<1> QED BY <1>1, <1>2, <1>3

LEMMA BaseTaskMoves ==
    ASSUME BaseInv, Kept, NEW g \in Gens, NEW new \in Task, Born(g),
           task' = [task EXCEPT ![g] = new],
           new.pc = "read" => new.entry \in Gens /\ Born(new.entry)
    PROVE  task' \in [Gens -> Task] /\ TaskRefs'
<1>1. /\ task' \in [Gens -> Task] /\ task'[g] = new
      /\ \A h \in Gens : h # g => task'[h] = task[h]
  BY DEF BaseInv, TypeOK
<1>2. Born(g)' /\ (new.pc = "read" => Born(new.entry)')
  BY KeptBorn DEF BaseInv
<1>3. ASSUME NEW h \in Gens
      PROVE  /\ task'[h].pc # "unborn" => Born(h)'
             /\ task'[h].pc = "read" => task'[h].entry \in Gens /\ Born(task[h].entry)'
  <2>1. CASE h = g
    BY <1>1, <1>2, <2>1 DEF Born
  <2>2. CASE h # g
    <3>1. task'[h] = task[h]
      BY <1>1, <2>2
    <3>2. /\ task[h].pc # "unborn" => Born(h)
          /\ task[h].pc = "read" => task[h].entry \in Gens /\ Born(task[h].entry)
      BY DEF BaseInv, TaskRefs
    <3> QED BY <3>1, <3>2, KeptBorn DEF BaseInv
  <2> QED BY <2>1, <2>2
<1> QED BY <1>1, <1>3 DEF TaskRefs

LEMMA BaseTaskStep ==
    ASSUME BaseInv, NEW g \in Gens, TaskStep(g)
    PROVE  BaseInv' /\ Kept
<1> DEFINE c == entry[g].config_id
<1>1. task[g].pc # "unborn" /\ Born(g) /\ c \in Configs
  BY TaskStepIsLocal DEF BaseInv, TypeOK, TaskRefs, Born
<1>2. poll_status' \subseteq Configs
  BY <1>1 DEF BaseInv, TypeOK, TaskStep, TaskStart, PollStart, PollSkip, PollReadOk,
              PollReadFails, TaskStops
<1>3. AtPc("sleep") \in Task /\ AtPc("stopped") \in Task
      /\ AtPc("sleep").pc = "sleep" /\ AtPc("stopped").pc = "stopped"
  BY DEF AtPc, Task
<1>4. CASE UNCHANGED <<entry, sending, state_snapshots, heartbeats, recent_events>>
  <2>1. Kept
    BY <1>4 DEF Kept
  <2>2. CASE TaskStart(g)
    <3> DEFINE new == [task[g] EXCEPT !.pc = "sleep"]
    <3>1. task' = [task EXCEPT ![g] = new] /\ UNCHANGED <<registry, poll_tasks, worker, accepted>>
      BY <2>2 DEF TaskStart
    <3>2. new \in Task /\ new.pc = "sleep"
      BY DEF BaseInv, TypeOK, Task
    <3> HIDE DEF new
    <3>3. task' \in [Gens -> Task] /\ TaskRefs'
      BY <1>1, <2>1, <3>1, <3>2, BaseTaskMoves
    <3> QED BY <1>2, <1>4, <2>1, <3>1, <3>3, BaseKept DEF BaseInv, TypeOK
  <2>3. CASE PollStart(g)
    <3> DEFINE new == [pc |-> "read", entry |-> registry[c], was_offline |-> Offline(c)]
    <3>1. task' = [task EXCEPT ![g] = new] /\ UNCHANGED <<registry, poll_tasks, worker, accepted>>
      BY <2>3 DEF PollStart
    <3>2. registry[c] \in Gens /\ Born(registry[c])
      BY <1>1, <2>3 DEF PollStart, Registered, BaseInv, TypeOK, RegistryRefs
    <3>3. new \in Task /\ new.entry = registry[c]
      BY <3>2 DEF Task, Offline
    <3> HIDE DEF new
    <3>4. task' \in [Gens -> Task] /\ TaskRefs'
      BY <1>1, <2>1, <3>1, <3>2, <3>3, BaseTaskMoves
    <3> QED BY <1>2, <1>4, <2>1, <3>1, <3>4, BaseKept DEF BaseInv, TypeOK
  <2>4. CASE PollSkip(g)
    BY <1>2, <1>4, <2>1, <2>4, BaseKept DEF PollSkip, BaseInv, TypeOK
  <2>5. CASE task' = [task EXCEPT ![g] = AtPc("stopped")] \/ task' = [task EXCEPT ![g] = AtPc("sleep")]
    <3>1. task' \in [Gens -> Task] /\ TaskRefs'
      BY <1>1, <1>3, <2>1, <2>5, BaseTaskMoves
    <3>2. UNCHANGED <<registry, poll_tasks, worker, accepted>>
      BY DEF TaskStep, TaskStart, PollStart, PollSkip, PollReadOk, PollReadFails, TaskStops
    <3> QED BY <1>2, <1>4, <2>1, <3>1, <3>2, BaseKept DEF BaseInv, TypeOK
  <2> QED BY <2>1, <2>2, <2>3, <2>4, <2>5 DEF TaskStep, PollReadOk, PollReadFails, TaskStops
<1>5. CASE PollReadFails(g)
  <2>1. /\ PollOnceFails(c) /\ task' = [task EXCEPT ![g] = AtPc("sleep")]
        /\ UNCHANGED <<registry, poll_tasks, worker, accepted>>
    BY <1>5 DEF PollReadFails
  <2> HIDE DEF c
  <2>2. ReadTypes /\ EntriesKept /\ sending' = sending
    BY <1>1, <2>1, PollOnceFailsFacts DEF BaseInv
  <2>3. Kept
    BY <2>2, EntriesKeptKept
  <2>4. task' \in [Gens -> Task] /\ TaskRefs'
    BY <1>1, <1>3, <2>1, <2>3, BaseTaskMoves
  <2> QED BY <1>2, <2>1, <2>2, <2>3, <2>4, BaseKept DEF BaseInv, TypeOK, ReadTypes
<1>6. ASSUME NEW t \in Samples, PollReadOk(g, t)
      PROVE  BaseInv' /\ Kept
  <2> DEFINE e == task[g].entry
  <2>1. /\ PollOnceOk(c, e, task[g].was_offline, t) /\ task' = [task EXCEPT ![g] = AtPc("sleep")]
        /\ UNCHANGED <<registry, poll_tasks, worker, accepted>>
    BY <1>6 DEF PollReadOk
  <2>2. e \in Gens /\ Born(e)
    BY <1>6 DEF PollReadOk, BaseInv, TaskRefs
  <2> HIDE DEF c, e
  <2>3. ReadTypes /\ Stores(e, t)
    BY <1>1, <2>1, <2>2, PollOnceOkFacts DEF BaseInv
  <2>4. Kept
    BY <2>2, <2>3, EntriesKeptKept
  <2>5. task' \in [Gens -> Task] /\ TaskRefs'
    BY <1>1, <1>3, <2>1, <2>4, BaseTaskMoves
  <2>6. DeliveryRefs'
    BY <2>2, <2>3, <2>4, KeptBorn DEF BaseInv, TypeOK, DeliveryRefs, Stores
  <2> QED BY <1>2, <2>1, <2>3, <2>4, <2>5, <2>6, BaseKept DEF BaseInv, TypeOK, ReadTypes
<1> QED BY <1>4, <1>5, <1>6 DEF TaskStep, TaskStart, PollStart, PollSkip, TaskStops

LEMMA BaseDelivery ==
    ASSUME BaseInv, Delivery
    PROVE  BaseInv' /\ Kept
<1>1. ASSUME NEW g \in Gens, NEW t \in Samples, NEW outcome \in DeliveryOutcomes,
             MeasurementDone(g, t, outcome)
      PROVE  BaseInv' /\ Kept
  <2> DEFINE delivered == outcome = "acknowledged"
  <2>1. /\ sending[g][t] > 0 /\ Born(g)
        /\ sending' = [sending EXCEPT ![g][t] = @ - 1]
        /\ entry' = Recorded(g, t, delivered) /\ delivered \in BOOLEAN
    BY <1>1 DEF BaseInv, DeliveryRefs, MeasurementDone
  <2> HIDE DEF delivered
  <2>2. entry' \in [Gens -> Entry] /\ Kept
    BY <2>1, RecordedFacts DEF BaseInv, Kept
  <2>3. /\ sending' \in [Gens -> [Samples -> 0..MaxInFlight]]
        /\ \A h \in Gens, u \in Samples : sending'[h][u] > 0 => sending[h][u] > 0
    BY <2>1, BoundAssumption DEF BaseInv, TypeOK
  <2>4. accepted' \subseteq Configs \X Serials \X Samples
    BY <1>1, <2>1 DEF BaseInv, TypeOK, MeasurementDone, Born
  <2>5. TypeOK'
    BY <1>1, <2>2, <2>3, <2>4 DEF BaseInv, TypeOK, MeasurementDone
  <2>6. DeliveryRefs'
    BY <2>2, <2>3, KeptBorn DEF BaseInv, DeliveryRefs
  <2> QED BY <1>1, <2>2, <2>5, <2>6, BaseKept DEF BaseInv, MeasurementDone
<1>2. ASSUME NEW c \in Configs, HeartbeatDone(c)
      PROVE  BaseInv' /\ Kept
  <2>1. heartbeats' \in [Configs -> 0..MaxInFlight]
    BY <1>2, BoundAssumption DEF BaseInv, TypeOK, HeartbeatDone
  <2>2. Kept
    BY <1>2 DEF HeartbeatDone, Kept
  <2> QED BY <1>2, <2>1, <2>2, BaseKept DEF BaseInv, TypeOK, HeartbeatDone
<1> QED BY <1>1, <1>2 DEF Delivery

\* A step of AirthingsRuntime that is allowed in this phase leaves idle workers idle
\* unless the process serves or starts.
LEMMA IdleStaysIdle ==
    ASSUME AllIdle, [LNext]_lvars, phase \notin {"starting", "serving"}
    PROVE  AllIdle'
<1>1. worker' = worker \/ Restart
  <2>1. ASSUME NEW w \in Workers, LWorkerStep(w) PROVE FALSE
    BY <2>1 DEF LWorkerStep, AllIdle, WorkerStep, VerifyFails, VerifySucceeds, ApplyResumes,
                VerifySucceedsPolled, InitialReadOk, CommandReadOk, RefreshReadOk,
                InitialReadFails, RemoveResumes, CommandReadFails, RefreshReadFails
  <2>2. CASE LDelivery \/ \E g \in Gens : LTaskStep(g)
    BY <2>2 DEF LDelivery, Delivery, MeasurementDone, HeartbeatDone, LTaskStep, TaskStep,
                TaskStart, PollStart, PollSkip, PollReadOk, PollReadFails, TaskStops
  <2>3. CASE Shutdown \/ UNCHANGED lvars
    BY <2>3 DEF Shutdown, ClientClosed, ResetCancel, ResetAwaited, ResetClear, lvars, vars
  <2> QED BY <2>1, <2>2, <2>3 DEF LNext, Rehydrate, StartupDone, Bootstrap, LRequest,
                                   BeginShutdown
<1>2. CASE Restart
  BY <1>2 DEF Restart, AllIdle, Idle
<1> QED BY <1>1, <1>2 DEF AllIdle

\* A new process knows nothing; what Core has accepted is still well typed.
LEMMA RestartIsGood == BaseInv /\ Restart => TypeInv' /\ CancelledIsAwaited' /\ SerialInv'
<1> SUFFICES ASSUME BaseInv, Restart PROVE TypeInv' /\ CancelledIsAwaited' /\ SerialInv'
  OBVIOUS
<1>1. /\ AtPc("unborn") \in Task /\ NoEntry \in Entry /\ Idle \in Worker
      /\ NoEvents \in [latest: Event, repeated: BOOLEAN]
      /\ AtPc("unborn").pc = "unborn" /\ Idle.pc = "idle"
  BY DEF AtPc, Task, NoEntry, Entry, Health, Idle, Worker, NoEvents, Event
<1>2. TypeOK'
  BY <1>1, BoundAssumption DEF Restart, BaseInv, TypeOK
<1>3. Refs'
  BY <1>1, NoneAssumption DEF Restart, Refs, RegistryRefs, TaskRefs, WorkerRefs, DeliveryRefs,
                              SlotIsLive
<1>4. CancelledIsAwaited'
  BY <1>1 DEF Restart, CancelledIsAwaited
<1>5. SerialInv'
  BY <1>1 DEF Restart, SerialInv, Kinds, OwnsSlot, Owning, PollTasksAreActive, NoOrphanPoller,
              Live, Workers
<1> QED BY <1>2, <1>3, <1>4, <1>5 DEF TypeInv

LEMMA RunningInvNext == RunningInv /\ [LNext]_lvars => RunningInv'
<1> SUFFICES ASSUME RunningInv, [LNext]_lvars PROVE RunningInv'
  OBVIOUS
<1>0. TypeInv' => BaseInv'
  BY DEF TypeInv, Refs, BaseInv
<1>1. ASSUME phase' = phase, [Next]_vars, phase \notin {"resetting", "down"}
      PROVE  RunningInv'
  BY <1>0, <1>1, TypeInvNext, CancelledNext, IdleStaysIdle DEF RunningInv
<1>2. CASE UNCHANGED vars /\ (StartupDone \/ BeginShutdown \/ ClientClosed)
  <2>1. TypeInv' /\ CancelledIsAwaited'
    BY <1>2, TypeInvNext, CancelledNext
       DEF RunningInv, StartupDone, BeginShutdown, ClientClosed
  <2>2. AllIdle => AllIdle'
    BY <1>2 DEF vars, AllIdle
  <2>3. ASSUME ClientClosed, NEW g \in to_cancel' PROVE g \in Gens => Born(g)'
    <3>1. PICK c \in Configs : g = poll_tasks[c] /\ poll_tasks[c] # None
      BY <2>3 DEF ClientClosed
    <3> QED BY <1>2, <2>3, <3>1, SlotBorn DEF RunningInv, ClientClosed, vars, Born
  <2> QED BY <1>0, <1>2, <2>1, <2>2, <2>3 DEF RunningInv, StartupDone, BeginShutdown, ClientClosed
<1>3. ASSUME NEW w \in Workers, LWorkerStep(w) PROVE RunningInv'
  <2>1. phase' = phase /\ [Next]_vars
    BY <1>3 DEF LWorkerStep, Next
  <2>2. worker[w].pc # "idle"
    BY <1>3 DEF LWorkerStep, WorkerStep, VerifyFails, VerifySucceeds, ApplyResumes,
                VerifySucceedsPolled, InitialReadOk, CommandReadOk, RefreshReadOk,
                InitialReadFails, RemoveResumes, CommandReadFails, RefreshReadFails
  <2> QED BY <1>1, <2>1, <2>2 DEF RunningInv, AllIdle
<1>4. CASE Rehydrate \/ Bootstrap \/ LRequest
  <2>1. phase' = phase /\ [Next]_vars /\ phase \notin {"resetting", "down"}
    BY <1>4 DEF Rehydrate, Bootstrap, LRequest, lifecycle, Next, Request
  <2> QED BY <1>1, <2>1
<1>5. CASE LDelivery \/ UNCHANGED lvars \/ \E g \in Gens : LTaskStep(g)
  <2>1. UNCHANGED <<phase, to_cancel>> /\ [Next]_vars
    BY <1>5 DEF LDelivery, LTaskStep, lvars, lifecycle, Next
  <2>2. BaseInv' /\ Kept
    BY <1>5, BaseTaskStep, BaseDelivery
       DEF LDelivery, LTaskStep, lvars, RunningInv, BaseInv, vars, Kept, TypeOK, RegistryRefs,
           TaskRefs, DeliveryRefs, Born
  <2>3. \A g \in Gens : Born(g) => Born(g)'
    BY <2>2, KeptBorn DEF RunningInv, BaseInv
  <2>4. phase \notin {"starting", "serving"} => AllIdle'
    BY IdleStaysIdle DEF RunningInv
  <2> QED BY <1>1, <2>1, <2>2, <2>3, <2>4 DEF RunningInv
<1>6. ASSUME NEW g \in Gens, ResetCancel(g) PROVE RunningInv'
  <2>1. AtPc("cancelled") \in Task /\ AtPc("cancelled").pc = "cancelled"
    BY DEF AtPc, Task
  <2>2. Kept /\ Born(g)
    BY <1>6 DEF ResetCancel, RunningInv, Kept
  <2>3. task' \in [Gens -> Task] /\ TaskRefs'
    BY <1>6, <2>1, <2>2, BaseTaskMoves DEF RunningInv, ResetCancel
  <2>4. BaseInv'
    BY <1>6, <2>2, <2>3, BaseKept DEF RunningInv, BaseInv, ResetCancel, TypeOK
  <2> QED BY <1>6, <2>4, IdleStaysIdle DEF RunningInv, ResetCancel, Born
<1>7. CASE ResetAwaited
  <2>1. UNCHANGED <<vars, phase, to_cancel>> /\ phase = "resetting"
    BY <1>7 DEF ResetAwaited
  <2>2. BaseInv'
    BY <2>1 DEF RunningInv, BaseInv, vars, TypeOK, RegistryRefs, TaskRefs, DeliveryRefs, Born
  <2> QED BY <2>1, <2>2, IdleStaysIdle DEF RunningInv, Born, vars
<1>8. CASE ResetClear
  <2>1. NoEvents \in [latest: Event, repeated: BOOLEAN]
    BY DEF NoEvents, Event
  <2>2. TypeOK'
    BY <1>8, <2>1 DEF ResetClear, RunningInv, BaseInv, TypeOK
  <2>3. RegistryRefs' /\ TaskRefs' /\ DeliveryRefs'
    BY <1>8 DEF ResetClear, RunningInv, BaseInv, RegistryRefs, TaskRefs, DeliveryRefs, Born
  <2> QED BY <1>8, <2>2, <2>3, IdleStaysIdle DEF RunningInv, BaseInv, ResetClear
<1>9. CASE Restart
  BY <1>0, <1>9, RestartIsGood DEF RunningInv, Restart
<1>10. StartupDone \/ BeginShutdown \/ ClientClosed => UNCHANGED vars
  BY DEF StartupDone, BeginShutdown, ClientClosed
<1> QED BY <1>2, <1>3, <1>4, <1>5, <1>6, <1>7, <1>8, <1>9, <1>10 DEF LNext, Shutdown

LEMMA RunningInvAlways == LSpec => []RunningInv
<1>1. LInit => RunningInv
  BY TypeInvInit
     DEF LInit, LifecycleInit, Init, RunningInv, BaseInv, TypeInv, Refs, CancelledIsAwaited, AtPc
<1> QED BY <1>1, RunningInvNext, PTL DEF LSpec

-----------------------------------------------------------------------------
(* Types *)

LEMMA AuthorizeType ==
    ASSUME auth \in InitialAuth, NEW received \in Credentials, NEW allow_bootstrap,
           Authorize(received, allow_bootstrap)
    PROVE  auth' \in InitialAuth
<1>1. received \in InitialAuth
  BY DEF Credentials, InitialAuth
<1> QED BY <1>1 DEF Authorize

LEMMA LTypeOKNext == RunningInv /\ LTypeOK /\ [LNext]_lvars => LTypeOK'
<1> SUFFICES ASSUME RunningInv, LTypeOK, [LNext]_lvars PROVE LTypeOK'
  OBVIOUS
<1>1. CASE Bootstrap
  BY <1>1, AuthorizeType DEF Bootstrap, LTypeOK
<1>2. CASE LRequest
  <2>1. auth' \in InitialAuth /\ presented' \in [Workers -> Credentials \cup {None}]
    BY <1>2, AuthorizeType DEF LRequest, LTypeOK
  <2> QED BY <1>2, <2>1 DEF LRequest, LTypeOK
<1>3. ASSUME NEW w \in Workers, LWorkerStep(w) PROVE LTypeOK'
  BY <1>3 DEF LWorkerStep, LTypeOK
<1>4. CASE ClientClosed
  <2>1. poll_tasks \in [Configs -> Gens \cup {None}]
    BY <1>4 DEF ClientClosed, RunningInv, TypeInv, TypeOK
  <2>2. to_cancel' \subseteq Gens
    BY <1>4, <2>1 DEF ClientClosed
  <2> QED BY <1>4, <2>2 DEF ClientClosed, LTypeOK
<1>5. CASE ResetAwaited \/ ResetClear \/ \E g \in Gens : ResetCancel(g)
  BY <1>5 DEF ResetAwaited, ResetClear, ResetCancel, LTypeOK, InitialAuth, Unset
<1>6. CASE Restart
  BY <1>6 DEF Restart, LTypeOK
<1>7. CASE \/ Rehydrate \/ LDelivery \/ UNCHANGED lvars \/ StartupDone \/ BeginShutdown
           \/ \E g \in Gens : LTaskStep(g)
  BY <1>7 DEF Rehydrate, LDelivery, lvars, StartupDone, BeginShutdown, LTaskStep, lifecycle,
              LTypeOK
<1> QED BY <1>1, <1>2, <1>3, <1>4, <1>5, <1>6, <1>7 DEF LNext, Shutdown

\* The state of the process and of the runtime in it is well typed in every phase,
\* across shutdowns and restarts (lifespan.py,
\* runtime_auth.py, reset_runtime_state).
THEOREM LifecycleTypeCorrect == LSpec => [](TypeOK /\ LTypeOK)
<1>1. LInit => LTypeOK
  BY DEF LInit, LifecycleInit, LTypeOK
<1>2. RunningInv => TypeOK
  BY DEF RunningInv, BaseInv
<1> QED BY <1>1, <1>2, LTypeOKNext, RunningInvAlways, PTL DEF LSpec

-----------------------------------------------------------------------------
(* Shutdown, when Core sends one configuration request at a time *)

\* The poll tasks that have not ended yet are those reset_runtime_state has listed
\* and not reached, and the one it waits for.
ListedInv ==
    phase = "resetting" =>
        /\ DOMAIN task = Gens
        /\ \A g \in Gens : task[g].pc \in {"unborn", "stopped"} \/ g \in to_cancel \/ g = awaited

ShutdownInv ==
    /\ phase \notin {"resetting", "down"} => SerialInv
    /\ ListedInv
    /\ DownIsClean

LEMMA ShutdownInvNext ==
    ASSUME OneConfigurer, RunningInv, LTypeOK, ShutdownInv, [LNext]_lvars
    PROVE  ShutdownInv'
<1>1. ASSUME phase' = phase, [Next]_vars, phase \notin {"resetting", "down"}
      PROVE  ShutdownInv'
  BY <1>1, SerialInvNext DEF RunningInv, ShutdownInv, ListedInv, DownIsClean
<1>2. CASE UNCHANGED vars /\ (StartupDone \/ BeginShutdown)
  <2>1. SerialInv => SerialInv'
    BY <1>2, SerialInvNext DEF RunningInv, StartupDone, BeginShutdown
  <2> QED BY <1>2, <2>1 DEF StartupDone, BeginShutdown, ShutdownInv, ListedInv, DownIsClean
<1>3. CASE ClientClosed
  <2>1. TypeInv /\ CancelledIsAwaited /\ SerialInv /\ AllIdle /\ UNCHANGED task
    BY <1>3 DEF ClientClosed, RunningInv, ShutdownInv, vars
  <2>2. ASSUME NEW g \in Gens, task[g].pc \notin {"unborn", "stopped"}
        PROVE  g \in {poll_tasks[c] : c \in Configs} \ {None}
    <3>1. task[g].pc # "cancelled"
      BY <2>1 DEF CancelledIsAwaited, Awaiting, AllIdle
    <3>2. Live(g)
      BY <2>1, <2>2, <3>1 DEF TypeInv, TypeOK, Task, Live
    <3>3. poll_tasks[entry[g].config_id] = g /\ entry[g].config_id \in Configs
      BY <2>1, <3>2 DEF SerialInv, NoOrphanPoller, TypeInv, Refs, TaskRefs, Born, Live
    <3> QED BY <3>3, NoneAssumption
  <2>3. DOMAIN task = Gens
    BY <2>1 DEF TypeInv, TypeOK
  <2> QED BY <1>3, <2>1, <2>2, <2>3 DEF ClientClosed, ShutdownInv, ListedInv, DownIsClean
<1>4. ASSUME phase = "resetting", NEW g \in Gens, LTaskStep(g)
      PROVE  ShutdownInv'
  <2>1. UNCHANGED <<phase, to_cancel, awaited>> /\ TaskStep(g)
    BY <1>4 DEF LTaskStep, lifecycle
  <2> QED BY <1>4, <2>1, TaskStepIsLocal DEF ShutdownInv, ListedInv, DownIsClean
<1>5. ASSUME phase = "down", NEW g \in Gens, LTaskStep(g)
      PROVE  FALSE
  BY <1>5 DEF LTaskStep, TaskStep, TaskStart, PollStart, PollSkip, PollReadOk, PollReadFails,
              TaskStops, ShutdownInv, DownIsClean
<1>6. CASE phase \in {"resetting", "down"} /\ (LDelivery \/ UNCHANGED lvars)
  <2>1. UNCHANGED <<registry, poll_tasks, task, lifecycle>>
    BY <1>6 DEF LDelivery, Delivery, MeasurementDone, HeartbeatDone, lvars, vars
  <2> QED BY <1>6, <2>1 DEF lifecycle, ShutdownInv, ListedInv, DownIsClean
<1>7. ASSUME NEW g \in Gens, ResetCancel(g) PROVE ShutdownInv'
  <2>1. /\ task'[g] = AtPc("cancelled") /\ DOMAIN task' = Gens
        /\ \A h \in Gens : h # g => task'[h] = task[h]
    BY <1>7 DEF ResetCancel, ShutdownInv, ListedInv
  <2>2. \A h \in Gens : task'[h].pc \in {"unborn", "stopped"} \/ h \in to_cancel' \/ h = awaited'
    BY <1>7, <2>1, NoneAssumption DEF ResetCancel, ShutdownInv, ListedInv
  <2> QED BY <1>7, <2>1, <2>2 DEF ResetCancel, ShutdownInv, ListedInv, DownIsClean
<1>8. CASE ResetAwaited
  BY <1>8 DEF ResetAwaited, vars, ShutdownInv, ListedInv, DownIsClean
<1>9. CASE ResetClear
  BY <1>9, NoneAssumption DEF ResetClear, ShutdownInv, ListedInv, DownIsClean
<1>10. CASE Restart
  <2>1. SerialInv'
    BY <1>10, RestartIsGood DEF RunningInv
  <2> QED BY <1>10, <2>1 DEF Restart, ShutdownInv, ListedInv, DownIsClean
<1>11. ASSUME NEW w \in Workers, LWorkerStep(w) PROVE ShutdownInv'
  <2>1. phase' = phase /\ [Next]_vars
    BY <1>11 DEF LWorkerStep, Next
  <2>2. phase \notin {"resetting", "down"}
    BY <1>11 DEF RunningInv, AllIdle, LWorkerStep, WorkerStep, VerifyFails, VerifySucceeds,
                 ApplyResumes, VerifySucceedsPolled, InitialReadOk, CommandReadOk,
                 RefreshReadOk, InitialReadFails, RemoveResumes, CommandReadFails,
                 RefreshReadFails
  <2> QED BY <1>1, <2>1, <2>2
<1>12. CASE Rehydrate \/ Bootstrap \/ LRequest
  <2>1. phase' = phase /\ [Next]_vars /\ phase \notin {"resetting", "down"}
    BY <1>12 DEF Rehydrate, Bootstrap, LRequest, lifecycle, Next, Request
  <2> QED BY <1>1, <2>1
<1>13. CASE /\ phase \notin {"resetting", "down"}
            /\ LDelivery \/ UNCHANGED lvars \/ \E g \in Gens : LTaskStep(g)
  <2>1. phase' = phase /\ [Next]_vars
    BY <1>13 DEF LDelivery, LTaskStep, lvars, lifecycle, Next
  <2> QED BY <1>1, <1>13, <2>1
<1>14. StartupDone \/ BeginShutdown => UNCHANGED vars
  BY DEF StartupDone, BeginShutdown
<1> QED BY <1>2, <1>3, <1>4, <1>5, <1>6, <1>7, <1>8, <1>9, <1>10, <1>11, <1>12, <1>13, <1>14
        DEF LNext, Shutdown

\* A shut down runtime holds no configuration, and none of its poll tasks is left to
\* read the cloud or to touch the state of the next start, whatever the tasks were at
\* while they were cancelled one by one (reset_runtime_state, shutdown_sync).
THEOREM ShutdownLeavesNothing == ASSUME OneConfigurer PROVE LSpec => []DownIsClean
<1>1. LInit => ShutdownInv
  BY SerialInvInit DEF LInit, LifecycleInit, ShutdownInv, ListedInv, DownIsClean
<1>2. RunningInv /\ LTypeOK /\ ShutdownInv /\ [LNext]_lvars => ShutdownInv'
  BY ShutdownInvNext
<1>3. ShutdownInv => DownIsClean
  BY DEF ShutdownInv
<1> QED BY <1>1, <1>2, <1>3, RunningInvAlways, LifecycleTypeCorrect, PTL DEF LSpec
=============================================================================
