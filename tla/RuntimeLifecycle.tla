---------------------------- MODULE RuntimeLifecycle ----------------------------
(***************************************************************************)
(* The life of one runtime process around AirthingsRuntime: it rehydrates  *)
(* configurations at startup, lets each request in by its credentials,     *)
(* shuts down in two awaited steps while the poll tasks and the deliveries *)
(* go on (lifespan.py, reset_runtime_state, runtime_auth.py), may die at   *)
(* any moment, and is started again.                                       *)
(*                                                                         *)
(* Every action of AirthingsRuntime is taken as it is, in the phases of    *)
(* the process in which it can happen.                                     *)
(***************************************************************************)
EXTENDS AirthingsRuntime

CONSTANTS
    ContainerIds,   \* container ids a request may present
    Tokens          \* internal tokens a request may present

ASSUME CredentialsAssumption == None \notin ContainerIds \cup Tokens

VARIABLES
    phase,          \* of the process
    auth,           \* runtime.auth; None: the field is empty
    presented,      \* history: the credentials each request under way came with
    to_cancel,      \* reset_runtime_state: the poll tasks left in its list
    awaited         \* reset_runtime_state: the poll task whose end is awaited

lifecycle == <<phase, auth, presented, to_cancel, awaited>>

lvars == <<vars, lifecycle>>

Credentials == [container_id: ContainerIds, internal_token: Tokens]

Unset == [container_id |-> None, internal_token |-> None]

\* What the environment of a new process may hold: nothing, both, or either half.
InitialAuth == [container_id: ContainerIds \cup {None}, internal_token: Tokens \cup {None}]

LTypeOK ==
    /\ phase \in {"starting", "serving", "closing", "resetting", "down"}
    /\ auth \in InitialAuth
    /\ presented \in [Workers -> Credentials \cup {None}]
    /\ to_cancel \subseteq Gens
    /\ awaited \in Gens \cup {None}

LifecycleInit ==
    /\ phase = "starting"
    /\ auth \in InitialAuth
    /\ presented = [w \in Workers |-> None]
    /\ to_cancel = {}
    /\ awaited = None

LInit == Init /\ LifecycleInit

-----------------------------------------------------------------------------
(* authorize_runtime_request *)

\* Mutants: only the token is compared; a bootstrap endpoint rebinds.
AuthorizeByToken(received, allow_bootstrap) ==
    \/ auth.internal_token = received.internal_token /\ UNCHANGED auth
    \/ auth = Unset /\ allow_bootstrap /\ auth' = received

AuthorizeRebinding(received, allow_bootstrap) ==
    \/ auth = received /\ UNCHANGED auth
    \/ allow_bootstrap /\ auth' = received

\* A request with complete credentials is let in when they are the ones of the
\* process; on a process without any, a bootstrap endpoint adopts them.  All
\* others, and all on a process with only one half, are refused unchanged.
Authorize(received, allow_bootstrap) ==
    \/ auth = received /\ UNCHANGED auth
    \/ auth = Unset /\ allow_bootstrap /\ auth' = received

\* /discover, /config and /config/sync bootstrap: they adopt the credentials before
\* the rest of the request is looked at, so also when it is then refused.
Bootstrap ==
    /\ phase = "serving"
    /\ \E received \in Credentials : Authorize(received, TRUE)
    /\ UNCHANGED <<vars, phase, presented, to_cancel, awaited>>

\* The workers that begin to serve a request in this step.
Begun == {w \in Workers : worker[w].pc = "idle" /\ worker'[w].pc # "idle"}

\* A request of AirthingsRuntime that is let in: /config and /config/sync as
\* bootstrap requests, /deconfigure, /command and /state not.
LRequest ==
    /\ phase = "serving"
    /\ Request
    /\ \E received \in Credentials :
          /\ Authorize(received, \E w \in Begun : worker'[w].pc = "verify")
          /\ presented' = [w \in Workers |-> IF w \in Begun THEN received ELSE presented[w]]
    /\ UNCHANGED <<phase, to_cancel, awaited>>

-----------------------------------------------------------------------------
(* Startup *)

\* startup_sync syncs with the snapshot, or with the configurations Core answers
\* with: what they name is applied, what they no longer name is removed.  No request
\* is served yet.
Rehydrate ==
    /\ phase = "starting"
    /\ \E w \in Configurers, c \in Configs :
          \/ \E s \in Serials : ConfigRequest(w, c, s)
          \/ Deconfigure(w, c)
          \/ DeconfigurePolled(w, c)
    /\ UNCHANGED lifecycle

AllIdle == \A w \in Workers : worker[w].pc = "idle"

StartupDone ==
    /\ phase = "starting"
    /\ AllIdle
    /\ phase' = "serving"
    /\ UNCHANGED <<vars, auth, presented, to_cancel, awaited>>

-----------------------------------------------------------------------------
(* Shutdown *)

\* The server waits for the requests under way before it ends the lifespan;
\* then shutdown_sync awaits cloud_client.aclose().
BeginShutdown ==
    /\ phase = "serving"
    /\ AllIdle
    /\ phase' = "closing"
    /\ UNCHANGED <<vars, auth, presented, to_cancel, awaited>>

\* Mutant: the list keeps an empty place for each configuration that is not polled.
ClientClosedWithEmptySlots ==
    /\ phase = "closing"
    /\ phase' = "resetting"
    /\ to_cancel' = {poll_tasks[c] : c \in Configs}
    /\ UNCHANGED <<vars, auth, presented, awaited>>

\* aclose has returned, or raised: reset_runtime_state lists the poll tasks.
ClientClosed ==
    /\ phase = "closing"
    /\ phase' = "resetting"
    /\ to_cancel' = {poll_tasks[c] : c \in Configs} \ {None}
    /\ UNCHANGED <<vars, auth, presented, awaited>>

\* Mutant: the task is awaited without being cancelled.
ResetAwait(g) ==
    /\ phase = "resetting"
    /\ awaited = None
    /\ g \in to_cancel
    /\ to_cancel' = to_cancel \ {g}
    /\ awaited' = g
    /\ UNCHANGED <<vars, phase, auth, presented>>

\* Mutant: the task is cancelled and not awaited.
ResetCancelOnly(g) ==
    /\ phase = "resetting"
    /\ g \in to_cancel
    /\ to_cancel' = to_cancel \ {g}
    /\ task' = [task EXCEPT ![g] = AtPc("cancelled")]
    /\ UNCHANGED <<registry, poll_tasks, poll_status, state_snapshots, entry, worker, sending,
                   heartbeats, recent_events, accepted, phase, auth, presented, awaited>>

\* task.cancel(); await task.  The others go on meanwhile.
ResetCancel(g) ==
    /\ phase = "resetting"
    /\ awaited = None
    /\ g \in to_cancel
    /\ to_cancel' = to_cancel \ {g}
    /\ awaited' = g
    /\ task' = [task EXCEPT ![g] = AtPc("cancelled")]
    /\ UNCHANGED <<registry, poll_tasks, poll_status, state_snapshots, entry, worker, sending,
                   heartbeats, recent_events, accepted, phase, auth, presented>>

ResetAwaited ==
    /\ phase = "resetting"
    /\ awaited # None
    /\ task[awaited].pc = "stopped"
    /\ awaited' = None
    /\ UNCHANGED <<vars, phase, auth, presented, to_cancel>>

\* The tail of reset_runtime_state, without a suspension.  The deliveries go on.
ResetClear ==
    /\ phase = "resetting"
    /\ awaited = None
    /\ to_cancel = {}
    /\ phase' = "down"
    /\ poll_tasks' = [c \in Configs |-> None]
    /\ poll_status' = {}
    /\ registry' = [c \in Configs |-> None]
    /\ state_snapshots' = [c \in Configs |-> None]
    /\ recent_events' = [c \in Configs |-> NoEvents]
    /\ auth' = Unset
    /\ UNCHANGED <<entry, task, worker, sending, heartbeats, accepted, presented,
                   to_cancel, awaited>>

-----------------------------------------------------------------------------
(* The process *)

\* It exits or is killed, at any moment, and a new one starts.  All it knew was
\* in memory; what Core accepted stays accepted.
Restart ==
    /\ registry' = [c \in Configs |-> None]
    /\ poll_tasks' = [c \in Configs |-> None]
    /\ poll_status' = {}
    /\ state_snapshots' = [c \in Configs |-> None]
    /\ entry' = [g \in Gens |-> NoEntry]
    /\ task' = [g \in Gens |-> AtPc("unborn")]
    /\ worker' = [w \in Workers |-> Idle]
    /\ sending' = [g \in Gens |-> [t \in Samples |-> 0]]
    /\ heartbeats' = [c \in Configs |-> 0]
    /\ recent_events' = [c \in Configs |-> NoEvents]
    /\ phase' = "starting"
    /\ auth' \in InitialAuth
    /\ presented' = [w \in Workers |-> None]
    /\ to_cancel' = {}
    /\ awaited' = None
    /\ UNCHANGED accepted

\* A request goes on; its credentials are of no more interest once it is answered.
LWorkerStep(w) ==
    /\ WorkerStep(w)
    /\ presented' = IF worker'[w].pc = "idle" THEN [presented EXCEPT ![w] = None] ELSE presented
    /\ UNCHANGED <<phase, auth, to_cancel, awaited>>

LTaskStep(g) == TaskStep(g) /\ UNCHANGED lifecycle

LDelivery == Delivery /\ UNCHANGED lifecycle

Shutdown ==
    \/ ClientClosed
    \/ \E g \in Gens : ResetCancel(g)
    \/ ResetAwaited
    \/ ResetClear

LNext ==
    \/ Rehydrate
    \/ StartupDone
    \/ Bootstrap
    \/ LRequest
    \/ \E w \in Workers : LWorkerStep(w)
    \/ \E g \in Gens : LTaskStep(g)
    \/ LDelivery
    \/ BeginShutdown
    \/ Shutdown
    \/ Restart

LSpec == LInit /\ [][LNext]_lvars

\* aclose returns, and the event loop goes on.  Nobody has to ask for a shutdown.
LFairSpec ==
    /\ LSpec
    /\ WF_lvars(Shutdown)
    /\ \A g \in Gens : WF_lvars(LTaskStep(g))

-----------------------------------------------------------------------------
(* Properties *)

\* Every request under way came with the credentials the process has now: none
\* goes on across an await under credentials that have been replaced, dropped
\* by a shutdown, or never matched (runtime_auth.py:35-58, runtime.py:173-174).
RequestsAreOwners == \A w \in Workers : presented[w] # None => presented[w] = auth

\* "test_runtime_auth_bootstraps_once_and_rejects_takeover" (tests/test_app.py:45):
\* a process adopts credentials once; they change again only when it ends.
BootstrapsOnce == [][auth # Unset /\ auth' # auth => phase' \in {"down", "starting"}]_lvars

\* If Core sends one configuration request at a time (an orphan of overlapping ones
\* is in no slot), a shut down runtime holds no configuration, and no poll task of it is left to
\* read the cloud or to touch the state of the next start: neither one that was
\* reading while the client was closed, nor one that woke up while another was
\* being awaited (lifespan.py:50-54, runtime.py:163-177).
DownIsClean ==
    phase = "down" =>
        /\ \A c \in Configs : registry[c] = None /\ poll_tasks[c] = None
        /\ \A g \in Gens : task[g].pc \in {"unborn", "stopped"}
        /\ auth = Unset

\* A shutdown that has begun ends, whatever the poll tasks are at: none of the
\* awaits of reset_runtime_state waits for ever.
ShutdownEnds == phase = "closing" ~> phase \in {"down", "starting"}
=============================================================================
