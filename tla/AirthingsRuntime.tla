--------------------------- MODULE AirthingsRuntime ---------------------------
(***************************************************************************)
(* The asyncio core of the Airthings runtime, runtime.py: configurations   *)
(* are applied and removed, each registered one is polled by a task of its *)
(* own, commands and /state refreshes read the cloud beside that task, and *)
(* every stored sample schedules a measurement and a heartbeat delivery to *)
(* Core.                                                                   *)
(*                                                                         *)
(* The program is one event loop, so a step of the model is the code run   *)
(* from one suspension point to the next.  The suspension points are:      *)
(*                                                                         *)
(*   "verify"        await _ensure_known_device(config), in apply_config   *)
(*   "apply_cancel"  await task, in the remove_config that apply_config    *)
(*                   calls first                                           *)
(*   "remove_cancel" await task, in the remove_config of a deconfigure     *)
(*   "initial_read"  await _read_and_store(config_id), in apply_config     *)
(*   "command_read"  await _read_and_store(config_id), for a command       *)
(*   "refresh_read"  await poll_once(config_id), in _refresh_all_state     *)
(*   "sleep", "read" the two awaits of the loop of _poll_config            *)
(***************************************************************************)
EXTENDS Naturals, FiniteSets

CONSTANTS
    Configs,      \* configuration ids
    Serials,      \* Airthings serial numbers
    Samples,      \* recorded_at of the samples the cloud may return
    Gens,         \* one per apply_config that registers: it names the entry
                  \* dict and the poll task which that call creates, so the
                  \* size of Gens bounds the number of registrations
    Configurers,  \* requests to /config, /deconfigure, /config/sync and the
                  \* startup rehydration, each a run of applies and removes
    Commanders,   \* requests to /command (refresh)
    Refreshers,   \* sweeps of /state?refresh=true
    None,         \* Python's None, an absent key
    MaxInFlight   \* bound: deliveries of one reading, or heartbeats of one
                  \* configuration, in flight at a time

Workers == Configurers \cup Commanders \cup Refreshers

ASSUME WorkersAssumption ==
    /\ Configurers \cap Commanders = {}
    /\ Configurers \cap Refreshers = {}
    /\ Commanders \cap Refreshers = {}

ASSUME NoneAssumption == None \notin Configs \cup Serials \cup Samples \cup Gens

ASSUME BoundAssumption == MaxInFlight \in Nat \ {0}

VARIABLES
    registry,         \* registry.entries: configuration id -> entry dict
    poll_tasks,       \* configuration id -> poll task
    poll_status,      \* the keys of the dict poll_status
    state_snapshots,  \* registry.state_snapshots: serial number and connected
    entry,            \* the entry dicts, registered or still referenced
    task,             \* the poll tasks, the value of _poll_config's locals
    worker,           \* the requests being served
    sending,          \* measurement deliveries in flight, per entry and reading
    heartbeats,       \* heartbeat deliveries in flight, per configuration
    recent_events,    \* health events appended about each configuration since
                      \* its last device.deconfigured: the latest, and whether
                      \* one was of the same kind as the one before it
    accepted          \* history: the readings Core has accepted

vars == <<registry, poll_tasks, poll_status, state_snapshots, entry, task,
          worker, sending, heartbeats, recent_events, accepted>>

-----------------------------------------------------------------------------
(* Types and initial state *)

Health == {"unset", "online", "offline"}

Event == {"none", "initial_failed", "failed", "recovered"}

Entry == [config_id: Configs \cup {None},   \* None: the dict does not exist yet
          serial_number: Serials \cup {None},
          poll_health: Health,
          pending_sample_at: Samples \cup {None},
          last_delivered_sample_at: Samples \cup {None}]

Task == [pc: {"unborn", "start", "sleep", "read", "cancelled", "stopped"},
         entry: Gens \cup {None},           \* entry captured before the read
         was_offline: BOOLEAN]              \* its health at that point

Worker == [pc: {"idle", "verify", "apply_cancel", "remove_cancel",
                "initial_read", "command_read", "refresh_read"},
           config_id: Configs \cup {None},
           serial_number: Serials \cup {None},
           entry: Gens \cup {None},           \* entry captured before the read
           awaited: Gens \cup {None},         \* poll task whose end is awaited
           previous_sample_at: Samples \cup {None},
           was_offline: BOOLEAN]

Snapshot == [serial_number: Serials, connected: BOOLEAN]

TypeOK ==
    /\ registry \in [Configs -> Gens \cup {None}]
    /\ poll_tasks \in [Configs -> Gens \cup {None}]
    /\ poll_status \subseteq Configs
    /\ state_snapshots \in [Configs -> Snapshot \cup {None}]
    /\ entry \in [Gens -> Entry]
    /\ task \in [Gens -> Task]
    /\ worker \in [Workers -> Worker]
    /\ sending \in [Gens -> [Samples -> 0..MaxInFlight]]
    /\ heartbeats \in [Configs -> 0..MaxInFlight]
    /\ recent_events \in [Configs -> [latest: Event, repeated: BOOLEAN]]
    /\ accepted \subseteq Configs \X Serials \X Samples

NoEntry == [config_id |-> None, serial_number |-> None, poll_health |-> "unset",
            pending_sample_at |-> None, last_delivered_sample_at |-> None]

Idle == [pc |-> "idle", config_id |-> None, serial_number |-> None,
         entry |-> None, awaited |-> None, previous_sample_at |-> None, was_offline |-> FALSE]

NoEvents == [latest |-> "none", repeated |-> FALSE]

AtPc(pc) == [pc |-> pc, entry |-> None, was_offline |-> FALSE]

Init ==
    /\ registry = [c \in Configs |-> None]
    /\ poll_tasks = [c \in Configs |-> None]
    /\ poll_status = {}
    /\ state_snapshots = [c \in Configs |-> None]
    /\ entry = [g \in Gens |-> NoEntry]
    /\ task = [g \in Gens |-> AtPc("unborn")]
    /\ worker = [w \in Workers |-> Idle]
    /\ sending = [g \in Gens |-> [t \in Samples |-> 0]]
    /\ heartbeats = [c \in Configs |-> 0]
    /\ recent_events = [c \in Configs |-> NoEvents]
    /\ accepted = {}

-----------------------------------------------------------------------------
(* Helpers *)

Registered(c) == registry[c] # None

\* entry.get("poll_health") == "offline" for the registered entry, if any.
Offline(c) == Registered(c) /\ entry[registry[c]].poll_health = "offline"

Live(g) == task[g].pc \in {"start", "sleep", "read"}

\* _append_runtime_event, for the health events of poll_once and apply_config.
AppendEvent(c, event) ==
    recent_events' = [recent_events EXCEPT ![c] =
        [latest |-> event, repeated |-> @.repeated \/ @.latest = event]]

\* The device.deconfigured event that ends remove_config, if it removes an entry.
EndEvents(c) ==
    recent_events' = IF Registered(c) THEN [recent_events EXCEPT ![c] = NoEvents]
                     ELSE recent_events

\* registry.update_state(config_id, {"connected": ..., "serial_number": ...})
Shown(c, s, connected) ==
    [state_snapshots EXCEPT ![c] = [serial_number |-> s, connected |-> connected]]

Answered(w) == worker' = [worker EXCEPT ![w] = Idle]

-----------------------------------------------------------------------------
(* _update_state_snapshot: what a stored sample changes.  The entry e is   *)
(* the dict the reader captured before its request, registered or not by   *)
(* the time the sample arrives.                                            *)

\* Neither delivered nor pending: the measurement has to be sent.
NeedsSend(e, t) ==
    /\ entry[e].last_delivered_sample_at # t
    /\ entry[e].pending_sample_at # t

\* The entry dicts once the reading t of entry e is marked pending.
Marked(e, t) ==
    IF NeedsSend(e, t) THEN [entry EXCEPT ![e].pending_sample_at = t] ELSE entry

\* The entry dicts es once the poll health of the dict e is set.
WithHealth(es, e, health) == [es EXCEPT ![e].poll_health = health]

\* Mutant: the snapshot is refreshed only when there is something to send.
UpdateStateSnapshotIfNew(c, e, t) ==
    /\ IF NeedsSend(e, t)
       THEN /\ state_snapshots' = Shown(c, entry[e].serial_number, TRUE)
            /\ sending[e][t] < MaxInFlight
            /\ sending' = [sending EXCEPT ![e][t] = @ + 1]
       ELSE UNCHANGED <<state_snapshots, sending>>
    /\ heartbeats[c] < MaxInFlight
    /\ heartbeats' = [heartbeats EXCEPT ![c] = @ + 1]

UpdateStateSnapshot(c, e, t) ==
    /\ state_snapshots' = Shown(c, entry[e].serial_number, TRUE)
    /\ IF NeedsSend(e, t)
       THEN /\ sending[e][t] < MaxInFlight
            /\ sending' = [sending EXCEPT ![e][t] = @ + 1]
       ELSE UNCHANGED sending
    /\ heartbeats[c] < MaxInFlight
    /\ heartbeats' = [heartbeats EXCEPT ![c] = @ + 1]

-----------------------------------------------------------------------------
(* apply_config and remove_config *)

\* Each apply that is before its registration will need an entry of its own.
Applying == {w \in Configurers : worker[w].pc \in {"verify", "apply_cancel"}}

Unborn == {g \in Gens : entry[g].config_id = None}

\* apply_config up to its first await: no shared state is touched.
ConfigRequest(w, c, s) ==
    /\ worker[w].pc = "idle"
    /\ Cardinality(Applying) < Cardinality(Unborn)      \* bound
    /\ worker' = [worker EXCEPT ![w] =
                    [Idle EXCEPT !.pc = "verify", !.config_id = c, !.serial_number = s]]
    /\ UNCHANGED <<registry, poll_tasks, poll_status, state_snapshots, entry,
                   task, sending, heartbeats, recent_events, accepted>>

\* _ensure_known_device raises: the old configuration stays as it was.
VerifyFails(w) ==
    /\ worker[w].pc = "verify"
    /\ Answered(w)
    /\ UNCHANGED <<registry, poll_tasks, poll_status, state_snapshots, entry,
                   task, sending, heartbeats, recent_events, accepted>>

\* Mutant: the serial number is not compared.
PreviousSampleAtOfAnyDevice(c, s) ==
    IF Registered(c) THEN entry[registry[c]].last_delivered_sample_at ELSE None

\* last_delivered_sample_at of the entry being replaced, for the same device.
PreviousSampleAt(c, s) ==
    IF Registered(c) /\ entry[registry[c]].serial_number = s
    THEN entry[registry[c]].last_delivered_sample_at
    ELSE None

\* The synchronous tail of apply_config: the end of remove_config, then the
\* new entry, its snapshot and status, and the start of the initial read.
Register(w, c, s, previous, g) ==
    /\ entry[g] = NoEntry
    /\ entry' = [entry EXCEPT ![g] = [NoEntry EXCEPT !.config_id = c,
                                          !.serial_number = s,
                                          !.last_delivered_sample_at = previous]]
    /\ registry' = [registry EXCEPT ![c] = g]
    /\ state_snapshots' = Shown(c, s, FALSE)
    /\ poll_status' = poll_status \cup {c}
    /\ EndEvents(c)
    /\ worker' = [worker EXCEPT ![w] =
                    [Idle EXCEPT !.pc = "initial_read", !.config_id = c, !.entry = g]]

\* The mutants below leave the slot filled, or forget to cancel.
PopAndCancelKeepingSlot(c) ==
    /\ poll_tasks[c] # None
    /\ task' = [task EXCEPT ![poll_tasks[c]] = AtPc("cancelled")]
    /\ UNCHANGED poll_tasks

PopAndCancelNothing(c) ==
    /\ poll_tasks[c] # None
    /\ poll_tasks' = [poll_tasks EXCEPT ![c] = None]
    /\ UNCHANGED task

\* poll_tasks.pop(config_id) and task.cancel(): whichever await the task is at,
\* all it still does is to raise CancelledError out of its loop.
PopAndCancel(c) ==
    /\ poll_tasks[c] # None
    /\ poll_tasks' = [poll_tasks EXCEPT ![c] = None]
    /\ task' = [task EXCEPT ![poll_tasks[c]] = AtPc("cancelled")]

\* await task, in remove_config: over once the poll task has ended.
TaskEnded(w) == task[worker[w].awaited].pc = "stopped"

\* The device is known and no poll task has to be awaited.
VerifySucceeds(w, g) ==
    LET c == worker[w].config_id
        s == worker[w].serial_number
    IN  /\ worker[w].pc = "verify"
        /\ poll_tasks[c] = None
        /\ Register(w, c, s, PreviousSampleAt(c, s), g)
        /\ UNCHANGED <<poll_tasks, task, sending, heartbeats, accepted>>

\* Mutant: the old entry leaves the registry before its task is awaited.
VerifySucceedsUnregistering(w) ==
    LET c == worker[w].config_id
        s == worker[w].serial_number
    IN  /\ worker[w].pc = "verify"
        /\ PopAndCancel(c)
        /\ worker' = [worker EXCEPT ![w] =
                        [@ EXCEPT !.pc = "apply_cancel", !.awaited = poll_tasks[c],
                                  !.previous_sample_at = PreviousSampleAt(c, s)]]
        /\ registry' = [registry EXCEPT ![c] = None]
        /\ UNCHANGED <<poll_status, state_snapshots, entry, sending, heartbeats,
                       recent_events, accepted>>

\* The device is known; remove_config suspends until the poll task is gone.
VerifySucceedsPolled(w) ==
    LET c == worker[w].config_id
        s == worker[w].serial_number
    IN  /\ worker[w].pc = "verify"
        /\ PopAndCancel(c)
        /\ worker' = [worker EXCEPT ![w] =
                        [@ EXCEPT !.pc = "apply_cancel", !.awaited = poll_tasks[c],
                                  !.previous_sample_at = PreviousSampleAt(c, s)]]
        /\ UNCHANGED <<registry, poll_status, state_snapshots, entry, sending,
                       heartbeats, recent_events, accepted>>

ApplyResumes(w, g) ==
    /\ worker[w].pc = "apply_cancel"
    /\ TaskEnded(w)
    /\ Register(w, worker[w].config_id, worker[w].serial_number,
                worker[w].previous_sample_at, g)
    /\ UNCHANGED <<poll_tasks, task, sending, heartbeats, accepted>>

\* poll_tasks[config_id] = create_tracked_task(_poll_config(...)): the slot is
\* overwritten whatever it holds.
StartPolling(c, g) ==
    /\ poll_tasks' = [poll_tasks EXCEPT ![c] = g]
    /\ task' = [task EXCEPT ![g] = AtPc("start")]

\* The initial read of apply_config returns the sample t.
InitialReadOk(w, t) ==
    LET c == worker[w].config_id
        e == worker[w].entry
    IN  /\ worker[w].pc = "initial_read"
        /\ UpdateStateSnapshot(c, e, t)
        /\ entry' = WithHealth(Marked(e, t), e, "online")
        /\ poll_status' = poll_status \cup {c}
        /\ StartPolling(c, e)
        /\ Answered(w)
        /\ UNCHANGED <<registry, recent_events, accepted>>

\* Mutant: a failed initial read is answered without starting the poll task.
InitialReadFailsUnpolled(w) ==
    LET c == worker[w].config_id
        e == worker[w].entry
    IN  /\ worker[w].pc = "initial_read"
        /\ state_snapshots' = Shown(c, entry[e].serial_number, FALSE)
        /\ entry' = WithHealth(entry, e, "offline")
        /\ poll_status' \in {poll_status, poll_status \cup {c}}
        /\ AppendEvent(c, "initial_failed")
        /\ Answered(w)
        /\ UNCHANGED <<registry, poll_tasks, task, sending, heartbeats, accepted>>

\* The initial read raises; only a cloud error is recorded in poll_status.
InitialReadFails(w) ==
    LET c == worker[w].config_id
        e == worker[w].entry
    IN  /\ worker[w].pc = "initial_read"
        /\ state_snapshots' = Shown(c, entry[e].serial_number, FALSE)
        /\ entry' = WithHealth(entry, e, "offline")
        /\ poll_status' \in {poll_status, poll_status \cup {c}}
        /\ AppendEvent(c, "initial_failed")
        /\ StartPolling(c, e)
        /\ Answered(w)
        /\ UNCHANGED <<registry, sending, heartbeats, accepted>>

\* The synchronous tail of remove_config.  Whether registry.remove drops the
\* snapshot is the runtime kit's affair: both outcomes are allowed.
FinishRemove(c) ==
    /\ registry' = [registry EXCEPT ![c] = None]
    /\ poll_status' = poll_status \ {c}
    /\ EndEvents(c)
    /\ state_snapshots' \in {state_snapshots, [state_snapshots EXCEPT ![c] = None]}

\* remove_config for a configuration without a poll task: no suspension.
Deconfigure(w, c) ==
    /\ worker[w].pc = "idle"
    /\ poll_tasks[c] = None
    /\ FinishRemove(c)
    /\ UNCHANGED <<poll_tasks, entry, task, worker, sending, heartbeats, accepted>>

DeconfigurePolled(w, c) ==
    /\ worker[w].pc = "idle"
    /\ PopAndCancel(c)
    /\ worker' = [worker EXCEPT ![w] = [Idle EXCEPT !.pc = "remove_cancel",
                                            !.config_id = c, !.awaited = poll_tasks[c]]]
    /\ UNCHANGED <<registry, poll_status, state_snapshots, entry, sending,
                   heartbeats, recent_events, accepted>>

RemoveResumes(w) ==
    /\ worker[w].pc = "remove_cancel"
    /\ TaskEnded(w)
    /\ FinishRemove(worker[w].config_id)
    /\ Answered(w)
    /\ UNCHANGED <<poll_tasks, entry, task, sending, heartbeats, accepted>>

-----------------------------------------------------------------------------
(* poll_once, shared by the poll task and by /state?refresh=true *)

\* Mutant: a recovery is not announced.
PollOnceOkSilently(c, e, was_offline, t) ==
    /\ UpdateStateSnapshot(c, e, t)
    /\ entry' = IF Registered(c) THEN WithHealth(Marked(e, t), registry[c], "online")
                ELSE Marked(e, t)
    /\ UNCHANGED recent_events

\* The read returned: the entry registered NOW is marked online, and recovers
\* if the entry registered when the poll began was offline.
PollOnceOk(c, e, was_offline, t) ==
    /\ UpdateStateSnapshot(c, e, t)
    /\ IF Registered(c)
       THEN /\ entry' = WithHealth(Marked(e, t), registry[c], "online")
            /\ IF was_offline
               THEN AppendEvent(c, "recovered")
               ELSE UNCHANGED recent_events
       ELSE /\ entry' = Marked(e, t)
            /\ UNCHANGED recent_events

\* Mutant: every failure is announced, not only the first.
PollOnceFailsLoudly(c) ==
    /\ IF Registered(c)
       THEN /\ entry' = WithHealth(entry, registry[c], "offline")
            /\ state_snapshots' = Shown(c, entry[registry[c]].serial_number, FALSE)
            /\ AppendEvent(c, "failed")
       ELSE UNCHANGED <<entry, state_snapshots, recent_events>>
    /\ UNCHANGED <<sending, heartbeats>>

\* The read raised: the entry registered NOW goes offline.
PollOnceFails(c) ==
    /\ IF Registered(c)
       THEN /\ entry' = WithHealth(entry, registry[c], "offline")
            /\ state_snapshots' = Shown(c, entry[registry[c]].serial_number, FALSE)
            /\ IF Offline(c)
               THEN UNCHANGED recent_events
               ELSE AppendEvent(c, "failed")
       ELSE UNCHANGED <<entry, state_snapshots, recent_events>>
    /\ UNCHANGED <<sending, heartbeats>>

-----------------------------------------------------------------------------
(* _poll_config *)

\* The first iteration announces its first poll and sleeps.
TaskStart(g) ==
    /\ task[g].pc = "start"
    /\ task' = [task EXCEPT ![g].pc = "sleep"]
    /\ poll_status' = poll_status \cup {entry[g].config_id}
    /\ UNCHANGED <<registry, poll_tasks, state_snapshots, entry, worker, sending,
                   heartbeats, recent_events, accepted>>

\* The interval is over: _read_and_store captures the entry and calls the cloud.
PollStart(g) ==
    LET c == entry[g].config_id
    IN  /\ task[g].pc = "sleep"
        /\ Registered(c)
        /\ task' = [task EXCEPT ![g] = [pc |-> "read", entry |-> registry[c],
                                        was_offline |-> Offline(c)]]
        /\ poll_status' = poll_status \cup {c}
        /\ UNCHANGED <<registry, poll_tasks, state_snapshots, entry, worker,
                       sending, heartbeats, recent_events, accepted>>

\* The configuration is gone: poll_once swallows the 404, the loop goes on.
PollSkip(g) ==
    LET c == entry[g].config_id
    IN  /\ task[g].pc = "sleep"
        /\ ~Registered(c)
        /\ poll_status' = poll_status \cup {c}
        /\ UNCHANGED <<registry, poll_tasks, state_snapshots, entry, task, worker,
                       sending, heartbeats, recent_events, accepted>>

PollReadOk(g, t) ==
    LET c == entry[g].config_id
    IN  /\ task[g].pc = "read"
        /\ PollOnceOk(c, task[g].entry, task[g].was_offline, t)
        /\ task' = [task EXCEPT ![g] = AtPc("sleep")]
        /\ poll_status' = poll_status \cup {c}
        /\ UNCHANGED <<registry, poll_tasks, worker, accepted>>

\* Mutant: the failure escapes poll_once and ends the task.
PollReadFailsForGood(g) ==
    LET c == entry[g].config_id
    IN  /\ task[g].pc = "read"
        /\ PollOnceFails(c)
        /\ task' = [task EXCEPT ![g] = AtPc("stopped")]
        /\ UNCHANGED <<registry, poll_tasks, poll_status, worker, accepted>>

PollReadFails(g) ==
    LET c == entry[g].config_id
    IN  /\ task[g].pc = "read"
        /\ PollOnceFails(c)
        /\ task' = [task EXCEPT ![g] = AtPc("sleep")]
        /\ poll_status' = poll_status \cup {c}
        /\ UNCHANGED <<registry, poll_tasks, worker, accepted>>

\* CancelledError ends the loop: it is re-raised by poll_once and _poll_config.
TaskStops(g) ==
    /\ task[g].pc = "cancelled"
    /\ task' = [task EXCEPT ![g] = AtPc("stopped")]
    /\ UNCHANGED <<registry, poll_tasks, poll_status, state_snapshots, entry, worker,
                   sending, heartbeats, recent_events, accepted>>

-----------------------------------------------------------------------------
(* /command: _refresh_registered_device reads without touching the health *)

CommandRequest(w, c) ==
    /\ worker[w].pc = "idle"
    /\ Registered(c)
    /\ worker' = [worker EXCEPT ![w] = [Idle EXCEPT !.pc = "command_read",
                                            !.config_id = c, !.entry = registry[c]]]
    /\ poll_status' = poll_status \cup {c}
    /\ UNCHANGED <<registry, poll_tasks, state_snapshots, entry, task, sending,
                   heartbeats, recent_events, accepted>>

CommandReadOk(w, t) ==
    LET c == worker[w].config_id
        e == worker[w].entry
    IN  /\ worker[w].pc = "command_read"
        /\ UpdateStateSnapshot(c, e, t)
        /\ entry' = Marked(e, t)
        /\ poll_status' = poll_status \cup {c}
        /\ Answered(w)
        /\ UNCHANGED <<registry, poll_tasks, task, recent_events, accepted>>

CommandReadFails(w) ==
    /\ worker[w].pc = "command_read"
    /\ poll_status' \in {poll_status, poll_status \cup {worker[w].config_id}}
    /\ Answered(w)
    /\ UNCHANGED <<registry, poll_tasks, state_snapshots, entry, task, sending,
                   heartbeats, recent_events, accepted>>

-----------------------------------------------------------------------------
(* /state?refresh=true: one poll_once of the sweep of _refresh_all_state *)

RefreshRequest(w, c) ==
    /\ worker[w].pc = "idle"
    /\ Registered(c)
    /\ worker' = [worker EXCEPT ![w] =
                    [Idle EXCEPT !.pc = "refresh_read", !.config_id = c,
                                 !.entry = registry[c], !.was_offline = Offline(c)]]
    /\ poll_status' = poll_status \cup {c}
    /\ UNCHANGED <<registry, poll_tasks, state_snapshots, entry, task, sending,
                   heartbeats, recent_events, accepted>>

RefreshReadOk(w, t) ==
    LET c == worker[w].config_id
    IN  /\ worker[w].pc = "refresh_read"
        /\ PollOnceOk(c, worker[w].entry, worker[w].was_offline, t)
        /\ poll_status' = poll_status \cup {c}
        /\ Answered(w)
        /\ UNCHANGED <<registry, poll_tasks, task, accepted>>

RefreshReadFails(w) ==
    LET c == worker[w].config_id
    IN  /\ worker[w].pc = "refresh_read"
        /\ PollOnceFails(c)
        /\ poll_status' \in {poll_status, poll_status \cup {c}}
        /\ Answered(w)
        /\ UNCHANGED <<registry, poll_tasks, task, accepted>>

-----------------------------------------------------------------------------
(* Completion of the deliveries to Core, in any order *)

\* entry.pop("pending_sample_at") if it still is the reading t.
Cleared(g, t) ==
    [entry EXCEPT ![g].pending_sample_at = IF @ = t THEN None ELSE @]

\* Mutants: the pending mark outlives a failed delivery; the outcome is stored
\* in place of the reading.
RecordedIfDelivered(g, t, delivered) ==
    IF delivered THEN [Cleared(g, t) EXCEPT ![g].last_delivered_sample_at = t] ELSE entry

RecordedOutcome(g, t, delivered) ==
    [Cleared(g, t) EXCEPT ![g].last_delivered_sample_at = delivered]

\* The entry dicts once the delivery of the reading t of entry g is over.
Recorded(g, t, delivered) ==
    IF delivered
    THEN [Cleared(g, t) EXCEPT ![g].last_delivered_sample_at = t]
    ELSE Cleared(g, t)

\* A delivery is acknowledged, is accepted by Core but reported as failed (the
\* answer was lost), or never reached Core.
DeliveryOutcomes == {"acknowledged", "answer_lost", "failed"}

\* _record_measurement_delivery
MeasurementDone(g, t, outcome) ==
    /\ sending[g][t] > 0
    /\ sending' = [sending EXCEPT ![g][t] = @ - 1]
    /\ entry' = Recorded(g, t, outcome = "acknowledged")
    /\ accepted' = IF outcome = "failed" THEN accepted
                   ELSE accepted \cup {<<entry[g].config_id, entry[g].serial_number, t>>}
    /\ UNCHANGED <<registry, poll_tasks, poll_status, state_snapshots, task,
                   worker, heartbeats, recent_events>>

\* _record_heartbeat_delivery: either outcome is written to poll_status.
HeartbeatDone(c) ==
    /\ heartbeats[c] > 0
    /\ heartbeats' = [heartbeats EXCEPT ![c] = @ - 1]
    /\ poll_status' = poll_status \cup {c}
    /\ UNCHANGED <<registry, poll_tasks, state_snapshots, entry, task, worker,
                   sending, recent_events, accepted>>

-----------------------------------------------------------------------------
(* The program *)

\* The step a request under way takes next.
WorkerStep(w) ==
    \/ VerifyFails(w)
    \/ \E g \in Gens : VerifySucceeds(w, g) \/ ApplyResumes(w, g)
    \/ VerifySucceedsPolled(w)
    \/ \E t \in Samples : InitialReadOk(w, t) \/ CommandReadOk(w, t) \/ RefreshReadOk(w, t)
    \/ InitialReadFails(w)
    \/ RemoveResumes(w)
    \/ CommandReadFails(w)
    \/ RefreshReadFails(w)

\* The step a poll task takes next.
TaskStep(g) ==
    \/ TaskStart(g)
    \/ PollStart(g)
    \/ PollSkip(g)
    \/ \E t \in Samples : PollReadOk(g, t)
    \/ PollReadFails(g)
    \/ TaskStops(g)

Request ==
    \/ \E w \in Configurers, c \in Configs :
          \/ \E s \in Serials : ConfigRequest(w, c, s)
          \/ Deconfigure(w, c)
          \/ DeconfigurePolled(w, c)
    \/ \E w \in Commanders, c \in Configs : CommandRequest(w, c)
    \/ \E w \in Refreshers, c \in Configs : RefreshRequest(w, c)

Delivery ==
    \/ \E g \in Gens, t \in Samples, outcome \in DeliveryOutcomes :
          MeasurementDone(g, t, outcome)
    \/ \E c \in Configs : HeartbeatDone(c)

Next ==
    \/ Request
    \/ \E w \in Workers : WorkerStep(w)
    \/ \E g \in Gens : TaskStep(g)
    \/ Delivery

Spec == Init /\ [][Next]_vars

\* The event loop serves every request and task that can go on, each read ends
\* (the HTTP client has a timeout and a bounded number of attempts), each sleep
\* ends, and each delivery to Core ends.  No client has to send a request.
Fairness ==
    /\ \A w \in Workers : WF_vars(WorkerStep(w))
    /\ \A g \in Gens : WF_vars(TaskStep(g))
    /\ \A g \in Gens, t \in Samples :
          WF_vars(\E outcome \in DeliveryOutcomes : MeasurementDone(g, t, outcome))
    /\ \A c \in Configs : WF_vars(HeartbeatDone(c))

FairSpec == Spec /\ Fairness

-----------------------------------------------------------------------------
(* Safety: what holds however many requests run at once *)

\* A task in poll_tasks is one that still runs, and it polls the configuration
\* it is filed under: remove_config never leaves a cancelled task behind, and
\* /diagnostics never counts a dead one (runtime.py:838, 863-866).
SlotIsLive ==
    \A c \in Configs : poll_tasks[c] # None =>
        /\ Live(poll_tasks[c])
        /\ entry[poll_tasks[c]].config_id = c

\* A registered configuration has a poll task, or a request that is about to
\* give it one or to remove it: no interleaving of applies, rejected applies
\* and removals leaves a registered device that nobody reads.
RegisteredIsPolled ==
    \A c \in Configs : Registered(c) =>
        \/ poll_tasks[c] # None
        \/ \E w \in Workers :
              /\ worker[w].pc \in {"apply_cancel", "remove_cancel", "initial_read"}
              /\ worker[w].config_id = c

\* pending_sample_at suppresses a measurement (553-560); it does so only while
\* a delivery of that very reading is in flight, so no reading is withheld for
\* good by a mark that nothing will clear.
PendingIsInFlight ==
    \A g \in Gens : entry[g].pending_sample_at # None =>
        sending[g][entry[g].pending_sample_at] > 0

\* last_delivered_sample_at suppresses a measurement for good; it names a
\* reading Core has accepted for this configuration and this serial number,
\* also when it was carried over by a replacement (768-775, 812-813).
DeliveredWasAccepted ==
    /\ \A g \in Gens : entry[g].last_delivered_sample_at # None =>
          <<entry[g].config_id, entry[g].serial_number,
            entry[g].last_delivered_sample_at>> \in accepted
    /\ \A w \in Workers : worker[w].previous_sample_at # None =>
          <<worker[w].config_id, worker[w].serial_number,
            worker[w].previous_sample_at>> \in accepted

-----------------------------------------------------------------------------
(* Safety when Core sends one configuration request at a time *)

\* Every poll task that still runs is the one in the slot of its configuration,
\* so the next remove_config can cancel it: no orphan keeps polling.
NoOrphanPoller ==
    \A g \in Gens : Live(g) => poll_tasks[entry[g].config_id] = g

\* The request w is past the check of the device: it has taken the poll task of c away.
Replacing(w, c) ==
    /\ worker[w].config_id = c
    /\ worker[w].pc \in {"apply_cancel", "remove_cancel", "initial_read"}

\* Until a replacement has passed the check of its device, however long that takes
\* and also when it is refused, the old configuration is polled by a task that still
\* runs; and while the replacement then waits for that task to end, the old entry stays
\* registered: a command or a refresh finds an entry at every moment (769-776).
ReplacementHasNoGap ==
    \A w \in Configurers, c \in Configs :
        /\ Registered(c) /\ ~Replacing(w, c) => poll_tasks[c] # None /\ Live(poll_tasks[c])
        /\ Replacing(w, c) /\ worker[w].pc = "apply_cancel" => Registered(c)

\* The health events tell the health: the last event about a registered entry
\* is a failure exactly when the entry is offline, and no two successive events
\* of an entry report the same transition (poll_once, 663-715).
HealthEvents ==
    \A c \in Configs : Registered(c) =>
        /\ Offline(c) <=> recent_events[c].latest \in {"initial_failed", "failed"}
        /\ ~recent_events[c].repeated

-----------------------------------------------------------------------------
(* What the tests say and some interleaving breaks *)

\* "test_poll_events_emit_once_per_offline_and_recovery_transition"
\* (tests/test_app.py:719, 757-758): a recovery is not reported a second time.
EventsOncePerTransition ==
    \A c \in Configs : recent_events[c].latest = "recovered" => ~recent_events[c].repeated

\* "test_reapplying_config_preserves_measurement_deduplication"
\* (tests/test_app.py:394, 437): a reading of one device is sent once, so the
\* entries of one configuration and serial number never both have it in flight.
ReapplyKeepsDeduplication ==
    \A g, h \in Gens, t \in Samples :
        (g # h /\ sending[g][t] > 0 /\ sending[h][t] > 0) =>
            \/ entry[g].config_id # entry[h].config_id
            \/ entry[g].serial_number # entry[h].serial_number

\* /diagnostics lists the poll tasks of the active configurations
\* (tests/test_app.py:471-473): a slot is filled only for a registered one.
PollTasksAreActive == \A c \in Configs : poll_tasks[c] # None => Registered(c)

-----------------------------------------------------------------------------
(* Liveness *)

\* Every request is answered, whatever the cloud and the poll tasks do.
RequestsAnswered == \A w \in Workers : []<>(worker[w].pc = "idle")

\* A configuration that stays registered is read from the cloud again and
\* again: no failure, removal or replacement ends its polling.
PollingNeverStops ==
    \A c \in Configs :
        []<>(\/ ~Registered(c)
             \/ \E g \in Gens : task[g].pc = "read" /\ entry[g].config_id = c)

\* A read that began before a replacement may show the old serial number in
\* the snapshot of the new entry (620, 640); it does not stay.
SnapshotHeals ==
    \A c \in Configs :
        []<>(Registered(c) => /\ state_snapshots[c] # None
                              /\ state_snapshots[c].serial_number = entry[registry[c]].serial_number)

\* A command stores a sample without touching the health (109-132), and shows an
\* offline device as connected; what is shown comes back to the health again and
\* again (poll_once, 663-715), also when the cloud has no newer sample to store.
ConnectedHeals ==
    \A c \in Configs :
        []<>(Registered(c) => /\ state_snapshots[c] # None
                              /\ state_snapshots[c].connected
                                    <=> (entry[registry[c]].poll_health = "online"))
=============================================================================
