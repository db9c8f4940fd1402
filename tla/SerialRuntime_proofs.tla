-------------------------- MODULE SerialRuntime_proofs --------------------------
(***************************************************************************)
(* Proofs about AirthingsRuntime when Core sends one configuration request *)
(* at a time, for every set of configurations, samples, registrations and  *)
(* readers.                                                                *)
(***************************************************************************)
EXTENDS HealthRefinement, AirthingsRuntime_proofs

\* At most one request to /config, /deconfigure or /config/sync is served at a time.
OneConfigurer == \A v, w \in Configurers : v = w

\* Only the poll task polls: no sweep of /state?refresh=true.
NoSweep == Refreshers = {}

-----------------------------------------------------------------------------
(* The inductive invariant *)

\* Each kind of request stands where its handler can be.
Kinds ==
    \A w \in Workers :
        /\ worker[w].pc \in {"verify", "apply_cancel", "remove_cancel", "initial_read"}
              => w \in Configurers
        /\ worker[w].pc = "command_read" => w \in Commanders
        /\ worker[w].pc = "refresh_read" => w \in Refreshers

\* A request that has taken a configuration's poll task away keeps the slot empty,
\* and, until it removes the entry, keeps one registered; in its initial read it is
\* the one it has registered itself.
OwnsSlot ==
    \A w \in Configurers :
        /\ worker[w].pc \in Owning => poll_tasks[worker[w].config_id] = None
        /\ worker[w].pc = "apply_cancel" => Registered(worker[w].config_id)
        /\ worker[w].pc = "initial_read" => registry[worker[w].config_id] = worker[w].entry

SerialInv == Kinds /\ OwnsSlot /\ PollTasksAreActive /\ NoOrphanPoller

\* What the events of a registered entry tell of its health; an entry is unset only
\* until its poll task is started.
EventsTellHealth ==
    \A c \in Configs : Registered(c) =>
        LET health == entry[registry[c]].poll_health
            events == recent_events[c]
        IN  /\ ~events.repeated
            /\ health = "unset" => events.latest = "none"
            /\ health = "online" => events.latest \in {"none", "recovered"}
            /\ health = "offline" => events.latest \in {"initial_failed", "failed"}
            /\ poll_tasks[c] # None => health # "unset"

NoEntryNoEvents == \A c \in Configs : ~Registered(c) => recent_events[c] = NoEvents

UnsetUntilRead ==
    \A w \in Configurers :
        worker[w].pc = "initial_read" => entry[worker[w].entry].poll_health = "unset"

\* The health a poll has captured is still the health when its read returns.
CapturedIsCurrent ==
    \A g \in Gens : task[g].pc = "read" => task[g].was_offline = Offline(entry[g].config_id)

HealthInv == EventsTellHealth /\ NoEntryNoEvents /\ UnsetUntilRead /\ CapturedIsCurrent

-----------------------------------------------------------------------------
(* SerialInv is inductive *)

\* Every step keeps TypeInv, and the identity of the entry dicts that exist.
LEMMA KeptNext == TypeInv /\ [Next]_vars => TypeInv' /\ Kept
<1> SUFFICES ASSUME TypeInv, [Next]_vars PROVE Kept
  BY TypeInvNext
<1>1. StepKind
  BY TypeInvNext
<1>2. CASE Quiet
  BY <1>2, EntriesKeptKept DEF Quiet
<1>3. CASE \E e \in Gens, t \in Samples : Stores(e, t)
  BY <1>3, EntriesKeptKept
<1>4. CASE \E w \in Workers : VerifySucceedsPolled(w)
  BY <1>4, VerifySucceedsPolledStep, EntriesKeptKept
<1>5. ASSUME NEW w \in Workers, NEW g \in Gens, VerifySucceeds(w, g) \/ ApplyResumes(w, g)
      PROVE  Kept
  <2>1. entry[g] = NoEntry /\ \A h \in Gens : h # g => entry'[h] = entry[h]
    BY <1>5 DEF VerifySucceeds, ApplyResumes, Register, TypeInv, TypeOK
  <2>2. ~Born(g)
    BY <2>1, NoneAssumption DEF Born, NoEntry
  <2> QED BY <2>1, <2>2 DEF Kept
<1>6. CASE \E g \in Gens, t \in Samples, outcome \in DeliveryOutcomes :
              MeasurementDone(g, t, outcome)
  BY <1>6, MeasurementDoneStep
<1> QED BY <1>1, <1>2, <1>3, <1>4, <1>5, <1>6 DEF StepKind

\* No request gets to a place of another kind or takes hold of a slot.
RequestsStayOut ==
    \A w \in Workers :
        \/ worker'[w] = worker[w]
        \/ worker'[w].pc = "idle"
        \/ worker'[w].pc = "verify" /\ w \in Configurers
        \/ worker'[w].pc = "command_read" /\ w \in Commanders
        \/ worker'[w].pc = "refresh_read" /\ w \in Refreshers

\* A step that leaves the registry and the slots alone and starts no poll task.
LEMMA SerialKept ==
    ASSUME TypeInv, SerialInv, Kept, UNCHANGED <<registry, poll_tasks>>,
           \A g \in Gens : Live(g)' => Live(g), RequestsStayOut
    PROVE  SerialInv'
<1>1. Kinds'
  BY DEF SerialInv, Kinds, RequestsStayOut
<1>2. OwnsSlot'
  BY DEF SerialInv, OwnsSlot, RequestsStayOut, Owning, Registered, Workers
<1>3. PollTasksAreActive'
  BY DEF SerialInv, PollTasksAreActive, Registered
<1>4. NoOrphanPoller'
  BY DEF SerialInv, NoOrphanPoller, TypeInv, Refs, TaskRefs, Live, Kept
<1> QED BY <1>1, <1>2, <1>3, <1>4 DEF SerialInv

\* The task of a slot that is emptied was the only one of its configuration.
LEMMA SerialPopped ==
    ASSUME TypeInv, SerialInv, OneConfigurer, NEW w \in Configurers, NEW c \in Configs,
           PopAndCancel(c), UNCHANGED <<registry, entry>>,
           worker'[w].config_id = c, worker'[w].pc \in {"apply_cancel", "remove_cancel"},
           \A v \in Workers : v # w => worker'[v] = worker[v]
    PROVE  SerialInv'
<1>1. /\ poll_tasks[c] \in Gens
      /\ task'[poll_tasks[c]].pc = "cancelled"
      /\ \A g \in Gens : g # poll_tasks[c] => task'[g] = task[g]
      /\ poll_tasks'[c] = None
      /\ \A d \in Configs : d # c => poll_tasks'[d] = poll_tasks[d]
  BY PopAndCancelFacts DEF TypeInv
<1>2. Kinds'
  BY DEF SerialInv, Kinds, Workers
<1>3. OwnsSlot'
  <2>1. Registered(c)
    BY DEF SerialInv, PollTasksAreActive, PopAndCancel
  <2> QED BY <1>1, <2>1 DEF OwnsSlot, OneConfigurer, Registered, Owning
<1>4. PollTasksAreActive'
  BY <1>1 DEF SerialInv, PollTasksAreActive, Registered
<1>5. NoOrphanPoller'
  <2> SUFFICES ASSUME NEW g \in Gens, Live(g)' PROVE poll_tasks'[entry[g].config_id] = g
    BY DEF NoOrphanPoller
  <2>1. g # poll_tasks[c] /\ Live(g)
    BY <1>1 DEF Live
  <2>2. poll_tasks[entry[g].config_id] = g /\ entry[g].config_id \in Configs
    BY <2>1 DEF SerialInv, NoOrphanPoller, TypeInv, Refs, TaskRefs, Live, Born
  <2> QED BY <1>1, <2>1, <2>2
<1> QED BY <1>2, <1>3, <1>4, <1>5 DEF SerialInv

LEMMA SerialRegister ==
    ASSUME TypeInv, SerialInv, OneConfigurer, NEW w \in Configurers, NEW g \in Gens,
           NEW c \in Configs, NEW s \in Serials, NEW previous \in Samples \cup {None},
           Register(w, c, s, previous, g), poll_tasks[c] = None, UNCHANGED <<poll_tasks, task>>
    PROVE  SerialInv'
<1>0. w \in Workers
  BY DEF Workers
<1>1. /\ ~Born(g)
      /\ registry'[c] = g
      /\ \A d \in Configs : d # c => registry'[d] = registry[d]
      /\ \A h \in Gens : h # g => entry'[h] = entry[h]
      /\ worker'[w].pc = "initial_read" /\ worker'[w].config_id = c /\ worker'[w].entry = g
      /\ \A v \in Workers : v # w => worker'[v] = worker[v]
  BY <1>0, RegisterFacts DEF TypeInv
<1>2. Kinds'
  BY <1>1 DEF SerialInv, Kinds
<1>3. OwnsSlot'
  BY <1>1 DEF OwnsSlot, OneConfigurer, Owning
<1>4. PollTasksAreActive'
  BY <1>1, NoneAssumption DEF SerialInv, PollTasksAreActive, Registered
<1>5. NoOrphanPoller'
  BY <1>1 DEF SerialInv, NoOrphanPoller, TypeInv, Refs, TaskRefs, Live
<1> QED BY <1>2, <1>3, <1>4, <1>5 DEF SerialInv

\* The initial read is over, well or badly.
LEMMA SerialStartPolling ==
    ASSUME TypeInv, SerialInv, OneConfigurer, Kept, NEW w \in Workers,
           worker[w].pc = "initial_read",
           StartPolling(worker[w].config_id, worker[w].entry),
           Answered(w), UNCHANGED registry
    PROVE  SerialInv'
<1> DEFINE c == worker[w].config_id
           e == worker[w].entry
<1>1. /\ w \in Configurers /\ c \in Configs /\ e \in Gens
      /\ Born(e) /\ entry[e].config_id = c
      /\ poll_tasks[c] = None /\ registry[c] = e
  BY DEF SerialInv, Kinds, OwnsSlot, Owning, TypeInv, Refs, WorkerRefs
<1>2. StartPolling(c, e)
  OBVIOUS
<1> HIDE DEF c, e
<1>3. /\ \A g \in Gens : g # e => task'[g] = task[g]
      /\ poll_tasks'[c] = e
      /\ \A d \in Configs : d # c => poll_tasks'[d] = poll_tasks[d]
  BY <1>1, <1>2, StartPollingFacts DEF TypeInv
<1>4. worker'[w].pc = "idle" /\ \A v \in Workers : v # w => worker'[v] = worker[v]
  BY AnsweredFacts DEF TypeInv
<1>5. Kinds'
  BY <1>4 DEF SerialInv, Kinds
<1>6. OwnsSlot'
  BY <1>1, <1>4 DEF OwnsSlot, OneConfigurer, Owning
<1>7. PollTasksAreActive'
  BY <1>1, <1>3, NoneAssumption DEF SerialInv, PollTasksAreActive, Registered
<1>8. NoOrphanPoller'
  <2> SUFFICES ASSUME NEW g \in Gens, Live(g)' PROVE poll_tasks'[entry'[g].config_id] = g
    BY DEF NoOrphanPoller
  <2>1. CASE g = e
    BY <1>1, <1>3, <2>1 DEF Kept
  <2>2. CASE g # e
    <3>1. Live(g) /\ Born(g)
      BY <1>3, <2>2 DEF Live, TypeInv, Refs, TaskRefs
    <3>2. poll_tasks[entry[g].config_id] = g /\ entry'[g].config_id = entry[g].config_id
      BY <3>1 DEF SerialInv, NoOrphanPoller, Kept
    <3> QED BY <1>1, <1>3, <3>1, <3>2, NoneAssumption DEF Born
  <2> QED BY <2>1, <2>2
<1> QED BY <1>5, <1>6, <1>7, <1>8 DEF SerialInv

\* An entry leaves the registry after its poll task has left its slot.
LEMMA SerialFinishRemove ==
    ASSUME TypeInv, SerialInv, OneConfigurer, NEW w \in Configurers, NEW c \in Configs,
           FinishRemove(c), poll_tasks[c] = None, UNCHANGED <<poll_tasks, entry, task>>,
           worker'[w].pc = "idle", \A v \in Workers : v # w => worker'[v] = worker[v]
    PROVE  SerialInv'
<1>1. /\ registry'[c] = None
      /\ \A d \in Configs : d # c => registry'[d] = registry[d]
  BY FinishRemoveFacts DEF TypeInv
<1>2. Kinds'
  BY DEF SerialInv, Kinds
<1>3. OwnsSlot'
  BY DEF OwnsSlot, OneConfigurer, Owning
<1>4. PollTasksAreActive'
  BY <1>1 DEF SerialInv, PollTasksAreActive, Registered
<1>5. NoOrphanPoller'
  BY DEF SerialInv, NoOrphanPoller, Live
<1> QED BY <1>2, <1>3, <1>4, <1>5 DEF SerialInv

LEMMA SerialWorkerStep ==
    ASSUME TypeInv, SerialInv, OneConfigurer, Kept, NEW w \in Workers, WorkerStep(w)
    PROVE  SerialInv'
<1>1. CASE \/ VerifyFails(w) \/ CommandReadFails(w) \/ RefreshReadFails(w)
           \/ \E t \in Samples : CommandReadOk(w, t) \/ RefreshReadOk(w, t)
  <2>1. UNCHANGED <<registry, poll_tasks, task>> /\ Answered(w)
    BY <1>1 DEF VerifyFails, CommandReadFails, RefreshReadFails, CommandReadOk, RefreshReadOk
  <2>2. RequestsStayOut
    BY <2>1, AnsweredFacts DEF TypeInv, RequestsStayOut
  <2> QED BY <2>1, <2>2, SerialKept DEF Live
<1>2. ASSUME NEW g \in Gens, VerifySucceeds(w, g) PROVE SerialInv'
  <2> DEFINE c == worker[w].config_id
             s == worker[w].serial_number
  <2>1. w \in Configurers /\ c \in Configs /\ s \in Serials
    BY <1>2 DEF VerifySucceeds, SerialInv, Kinds, TypeInv, Refs, WorkerRefs
  <2>2. PreviousSampleAt(c, s) \in Samples \cup {None}
    BY <2>1 DEF TypeInv, TypeOK, Refs, RegistryRefs, Entry, PreviousSampleAt, Registered
  <2>3. /\ poll_tasks[c] = None /\ UNCHANGED <<poll_tasks, task>>
        /\ Register(w, c, s, PreviousSampleAt(c, s), g)
    BY <1>2 DEF VerifySucceeds
  <2> HIDE DEF c, s
  <2> QED BY <2>1, <2>2, <2>3, SerialRegister
<1>3. ASSUME NEW g \in Gens, ApplyResumes(w, g) PROVE SerialInv'
  <2> DEFINE c == worker[w].config_id
             s == worker[w].serial_number
             previous == worker[w].previous_sample_at
  <2>1. /\ w \in Configurers /\ c \in Configs /\ s \in Serials
        /\ previous \in Samples \cup {None} /\ poll_tasks[c] = None
    BY <1>3 DEF ApplyResumes, SerialInv, Kinds, OwnsSlot, Owning, TypeInv, TypeOK, Worker,
                Refs, WorkerRefs
  <2>2. UNCHANGED <<poll_tasks, task>> /\ Register(w, c, s, previous, g)
    BY <1>3 DEF ApplyResumes
  <2> HIDE DEF c, s, previous
  <2> QED BY <2>1, <2>2, SerialRegister
<1>4. CASE VerifySucceedsPolled(w)
  <2>1. w \in Configurers /\ worker[w].config_id \in Configs
    BY <1>4 DEF VerifySucceedsPolled, SerialInv, Kinds, TypeInv, Refs, WorkerRefs
  <2>2. PopAndCancel(worker[w].config_id) /\ UNCHANGED <<registry, entry>>
    BY <1>4 DEF VerifySucceedsPolled
  <2> QED BY <1>4, <2>1, <2>2, VerifySucceedsPolledStep, SerialPopped
<1>5. CASE InitialReadFails(w) \/ \E t \in Samples : InitialReadOk(w, t)
  <2>1. /\ worker[w].pc = "initial_read" /\ Answered(w) /\ UNCHANGED registry
        /\ StartPolling(worker[w].config_id, worker[w].entry)
    BY <1>5 DEF InitialReadFails, InitialReadOk
  <2> QED BY <2>1, SerialStartPolling
<1>6. CASE RemoveResumes(w)
  <2>1. /\ w \in Configurers /\ worker[w].config_id \in Configs
        /\ poll_tasks[worker[w].config_id] = None
    BY <1>6 DEF RemoveResumes, SerialInv, Kinds, OwnsSlot, Owning, TypeInv, Refs, WorkerRefs
  <2>2. /\ FinishRemove(worker[w].config_id) /\ Answered(w)
        /\ UNCHANGED <<poll_tasks, entry, task>>
    BY <1>6 DEF RemoveResumes
  <2> QED BY <2>1, <2>2, AnsweredFacts, SerialFinishRemove DEF TypeInv
<1> QED BY <1>1, <1>2, <1>3, <1>4, <1>5, <1>6 DEF WorkerStep

\* A request is opened by an idle worker of its kind.
LEMMA RequestOpens ==
    ASSUME TypeInv, NEW w \in Workers, NEW new, worker' = [worker EXCEPT ![w] = new],
           \/ new.pc = "verify" /\ w \in Configurers
           \/ new.pc = "command_read" /\ w \in Commanders
           \/ new.pc = "refresh_read" /\ w \in Refreshers
    PROVE  RequestsStayOut
BY DEF TypeInv, TypeOK, RequestsStayOut

LEMMA SerialRequest ==
    ASSUME TypeInv, SerialInv, OneConfigurer, Kept, Request
    PROVE  SerialInv'
<1>1. ASSUME NEW w \in Configurers, NEW c \in Configs, NEW s \in Serials, ConfigRequest(w, c, s)
      PROVE  SerialInv'
  <2> DEFINE new == [Idle EXCEPT !.pc = "verify", !.config_id = c, !.serial_number = s]
  <2>1. new.pc = "verify" /\ worker' = [worker EXCEPT ![w] = new] /\ w \in Workers
    BY <1>1 DEF ConfigRequest, Idle, Workers
  <2> HIDE DEF new
  <2>2. RequestsStayOut
    BY <2>1, RequestOpens
  <2> QED BY <1>1, <2>2, SerialKept DEF ConfigRequest, Live
<1>2. ASSUME NEW w \in Configurers, NEW c \in Configs, Deconfigure(w, c)
      PROVE  SerialInv'
  <2>1. /\ FinishRemove(c) /\ poll_tasks[c] = None /\ worker[w].pc = "idle"
        /\ UNCHANGED <<poll_tasks, entry, task, worker>>
    BY <1>2 DEF Deconfigure
  <2> QED BY <2>1, SerialFinishRemove
<1>3. ASSUME NEW w \in Configurers, NEW c \in Configs, DeconfigurePolled(w, c)
      PROVE  SerialInv'
  <2>1. PopAndCancel(c) /\ UNCHANGED <<registry, entry>>
    BY <1>3 DEF DeconfigurePolled
  <2> QED BY <1>3, <2>1, DeconfigurePolledStep, SerialPopped
<1>4. ASSUME NEW w \in Commanders, NEW c \in Configs, CommandRequest(w, c)
      PROVE  SerialInv'
  <2> DEFINE new == [Idle EXCEPT !.pc = "command_read", !.config_id = c, !.entry = registry[c]]
  <2>1. new.pc = "command_read" /\ worker' = [worker EXCEPT ![w] = new] /\ w \in Workers
    BY <1>4 DEF CommandRequest, Idle, Workers
  <2> HIDE DEF new
  <2>2. RequestsStayOut
    BY <2>1, RequestOpens
  <2> QED BY <1>4, <2>2, SerialKept DEF CommandRequest, Live
<1>5. ASSUME NEW w \in Refreshers, NEW c \in Configs, RefreshRequest(w, c)
      PROVE  SerialInv'
  <2> DEFINE new == [Idle EXCEPT !.pc = "refresh_read", !.config_id = c,
                                 !.entry = registry[c], !.was_offline = Offline(c)]
  <2>1. new.pc = "refresh_read" /\ worker' = [worker EXCEPT ![w] = new] /\ w \in Workers
    BY <1>5 DEF RefreshRequest, Idle, Workers
  <2> HIDE DEF new
  <2>2. RequestsStayOut
    BY <2>1, RequestOpens
  <2> QED BY <1>5, <2>2, SerialKept DEF RefreshRequest, Live
<1> QED BY <1>1, <1>2, <1>3, <1>4, <1>5 DEF Request

\* A poll task that takes a step stays in its slot or is not live afterwards.
LEMMA SerialTaskStep ==
    ASSUME TypeInv, SerialInv, Kept, NEW g \in Gens, TaskStep(g)
    PROVE  SerialInv'
<1>1. UNCHANGED <<registry, poll_tasks, worker>>
  BY DEF TaskStep, TaskStart, PollStart, PollSkip, PollReadOk, PollReadFails, TaskStops
<1>2. \A h \in Gens : Live(h)' => Live(h)
  <2>1. AtPc("stopped").pc = "stopped" /\ task \in [Gens -> Task]
    BY DEF AtPc, TypeInv, TypeOK
  <2>2. Live(g) \/ task'[g].pc = "stopped"
    BY <2>1 DEF TaskStep, TaskStart, PollStart, PollSkip, PollReadOk, PollReadFails,
                TaskStops, Live
  <2>3. \A h \in Gens : h # g => task'[h] = task[h]
    BY <2>1 DEF TaskStep, TaskStart, PollStart, PollSkip, PollReadOk, PollReadFails, TaskStops
  <2> QED BY <2>2, <2>3 DEF Live
<1>3. RequestsStayOut
  BY <1>1 DEF RequestsStayOut
<1> QED BY <1>1, <1>2, <1>3, SerialKept

LEMMA SerialInvInit == Init => SerialInv
BY DEF Init, SerialInv, Kinds, OwnsSlot, Owning, PollTasksAreActive, NoOrphanPoller, Live,
       AtPc, Idle, Workers

LEMMA SerialInvNext ==
    ASSUME OneConfigurer, TypeInv, SerialInv, [Next]_vars
    PROVE  SerialInv'
<1>1. Kept
  BY KeptNext
<1>2. CASE Request
  BY <1>1, <1>2, SerialRequest
<1>3. CASE \E w \in Workers : WorkerStep(w)
  BY <1>1, <1>3, SerialWorkerStep
<1>4. CASE \E g \in Gens : TaskStep(g)
  BY <1>1, <1>4, SerialTaskStep
<1>5. CASE Delivery \/ UNCHANGED vars
  <2>1. UNCHANGED <<registry, poll_tasks, worker, task>>
    BY <1>5 DEF Delivery, MeasurementDone, HeartbeatDone, vars
  <2>2. RequestsStayOut
    BY <2>1 DEF RequestsStayOut
  <2> QED BY <1>1, <2>1, <2>2, SerialKept DEF Live
<1> QED BY <1>2, <1>3, <1>4, <1>5 DEF Next

LEMMA SerialInvAlways == ASSUME OneConfigurer PROVE Spec => []SerialInv
<1>1. TypeInv /\ SerialInv /\ [Next]_vars => SerialInv'
  BY SerialInvNext
<1> QED BY <1>1, SerialInvInit, TypeInvAlways, PTL DEF Spec

\* No poll task keeps running outside the slot of its configuration, where no
\* remove_config would find it to cancel (remove_config, StartPolling).
THEOREM NoOrphanPollers == ASSUME OneConfigurer PROVE Spec => []NoOrphanPoller
<1>1. SerialInv => NoOrphanPoller
  BY DEF SerialInv
<1> QED BY <1>1, SerialInvAlways, PTL

\* A configuration is polled until its replacement has passed the check of its device,
\* so also when that is slow or refused, and stays registered until the new entry
\* takes its place (apply_config).
THEOREM ReplacementsHaveNoGap == ASSUME OneConfigurer PROVE Spec => []ReplacementHasNoGap
<1>1. TypeInv /\ SerialInv /\ RegisteredIsPolled => ReplacementHasNoGap
  <2> SUFFICES ASSUME TypeInv, SerialInv, RegisteredIsPolled,
                      NEW w \in Configurers, NEW c \in Configs
               PROVE  /\ Registered(c) /\ ~Replacing(w, c) =>
                            poll_tasks[c] # None /\ Live(poll_tasks[c])
                      /\ Replacing(w, c) /\ worker[w].pc = "apply_cancel" => Registered(c)
    BY DEF ReplacementHasNoGap
  <2>1. ASSUME Registered(c), ~Replacing(w, c) PROVE poll_tasks[c] # None
    <3>1. \A v \in Workers : ~Replacing(v, c)
      BY <2>1 DEF OneConfigurer, SerialInv, Kinds, Replacing
    <3> QED BY <2>1, <3>1 DEF RegisteredIsPolled, Replacing
  <2>2. poll_tasks[c] # None => Live(poll_tasks[c])
    BY DEF TypeInv, Refs, SlotIsLive
  <2>3. Replacing(w, c) /\ worker[w].pc = "apply_cancel" => Registered(c)
    BY DEF Replacing, SerialInv, OwnsSlot
  <2> QED BY <2>1, <2>2, <2>3
<1> QED BY <1>1, SerialInvAlways, TypeInvAlways, RegisteredStaysPolled, PTL

-----------------------------------------------------------------------------
(* HealthInv is inductive, and each step of the runtime one of DeviceHealth *)

LEMMA WithHealthSets ==
    ASSUME NEW es \in [Gens -> Entry], NEW e \in Gens, NEW h \in Health, NEW g \in Gens
    PROVE  WithHealth(es, e, h)[g].poll_health = IF g = e THEN h ELSE es[g].poll_health
BY DEF WithHealth, Entry

LEMMA MarkedKeepsHealth ==
    ASSUME TypeOK, NEW e \in Gens, NEW t \in Samples, NEW g \in Gens
    PROVE  Marked(e, t)[g].poll_health = entry[g].poll_health
<1>1. CASE NeedsSend(e, t)
  <2>1. Marked(e, t) = [entry EXCEPT ![e].pending_sample_at = t]
    BY <1>1 DEF Marked
  <2> QED BY <2>1, SetPending DEF TypeOK
<1>2. CASE ~NeedsSend(e, t)
  BY <1>2 DEF Marked
<1> QED BY <1>1, <1>2

LEMMA RecordedKeepsHealth ==
    ASSUME TypeOK, NEW e \in Gens, NEW t \in Samples, NEW delivered \in BOOLEAN, NEW g \in Gens
    PROVE  Recorded(e, t, delivered)[g].poll_health = entry[g].poll_health
<1>1. /\ Cleared(e, t) \in [Gens -> Entry]
      /\ Cleared(e, t)[g].poll_health = entry[g].poll_health
  <2> DEFINE p == IF entry[e].pending_sample_at = t THEN None ELSE entry[e].pending_sample_at
  <2>1. entry \in [Gens -> Entry] /\ p \in Samples \cup {None}
    BY DEF TypeOK, Entry
  <2>2. Cleared(e, t) = [entry EXCEPT ![e].pending_sample_at = p]
    BY DEF Cleared
  <2> QED BY <2>1, <2>2, SetPending
<1>2. CASE delivered
  <2>1. Recorded(e, t, delivered) = [Cleared(e, t) EXCEPT ![e].last_delivered_sample_at = t]
    BY <1>2 DEF Recorded
  <2> QED BY <1>1, <2>1, SetDelivered
<1>3. CASE ~delivered
  BY <1>1, <1>3 DEF Recorded
<1> QED BY <1>2, <1>3

\* What the events must tell about the one configuration c.
EventsTell(c) ==
    IF Registered(c)
    THEN LET health == entry[registry[c]].poll_health
             events == recent_events[c]
         IN  /\ ~events.repeated
             /\ health = "unset" => events.latest = "none"
             /\ health = "online" => events.latest \in {"none", "recovered"}
             /\ health = "offline" => events.latest \in {"initial_failed", "failed"}
             /\ poll_tasks[c] # None => health # "unset"
    ELSE recent_events[c] = NoEvents

\* A step leaves alone what concerns the health of the configuration d.
HealthUntouched(d) ==
    /\ registry'[d] = registry[d]
    /\ recent_events'[d] = recent_events[d]
    /\ poll_tasks'[d] # None => poll_tasks[d] # None
    /\ Registered(d) => entry'[registry[d]].poll_health = entry[registry[d]].poll_health

\* A step that concerns the health of the configuration c only.
LEMMA HealthMoves ==
    ASSUME TypeInv, HealthInv, Kept, NEW c \in Configs,
           \A d \in Configs : d # c => HealthUntouched(d),
           EventsTell(c)', UnsetUntilRead',
           \A g \in Gens : task'[g].pc = "read" =>
              \/ task'[g] = task[g] /\ entry[g].config_id # c
              \/ task'[g].was_offline = Offline(entry[g].config_id)'
    PROVE  HealthInv'
<1>1. EventsTellHealth' /\ NoEntryNoEvents'
  <2> SUFFICES ASSUME NEW d \in Configs PROVE EventsTell(d)'
    BY DEF EventsTellHealth, NoEntryNoEvents, EventsTell
  <2>1. CASE d = c
    BY <2>1
  <2>2. CASE d # c
    BY <2>2 DEF HealthInv, EventsTellHealth, NoEntryNoEvents, EventsTell, HealthUntouched,
                Registered
  <2> QED BY <2>1, <2>2
<1>2. CapturedIsCurrent'
  <2> SUFFICES ASSUME NEW g \in Gens, task'[g].pc = "read"
               PROVE  task'[g].was_offline = Offline(entry[g].config_id)'
    BY DEF CapturedIsCurrent
  <2>1. CASE task'[g] = task[g] /\ entry[g].config_id # c
    <3>1. entry'[g].config_id = entry[g].config_id /\ entry[g].config_id \in Configs
      BY <2>1 DEF TypeInv, Refs, TaskRefs, Kept, Born
    <3> QED BY <2>1, <3>1 DEF HealthInv, CapturedIsCurrent, HealthUntouched, Offline, Registered
  <2> QED BY <2>1
<1> QED BY <1>1, <1>2 DEF HealthInv

\* In the abstract specification such a step sets the health of c.
LEMMA HealthIsSet ==
    ASSUME TypeInv, TypeInv', NEW c \in Configs, NEW h, NEW event,
           \A d \in Configs : d # c => HealthUntouched(d),
           IF Registered(c)' THEN entry'[registry'[c]].poll_health = h ELSE h = "absent",
           recent_events'[c].latest = event
    PROVE  Device!Set(c, h, event)
<1>1. healthOf' = [healthOf EXCEPT ![c] = h]
  BY DEF healthOf, HealthUntouched, Registered
<1>2. announcedOf' = [announcedOf EXCEPT ![c] = event]
  BY DEF announcedOf, HealthUntouched
<1> QED BY <1>1, <1>2 DEF Device!Set

\* A step that concerns the health of no configuration.
LEMMA HealthKept ==
    ASSUME TypeInv, HealthInv, Kept, \A d \in Configs : HealthUntouched(d),
           UnsetUntilRead',
           \A g \in Gens : task'[g].pc = "read" =>
              task'[g] = task[g] \/ task'[g].was_offline = Offline(entry[g].config_id)'
    PROVE  HealthInv' /\ UNCHANGED <<healthOf, announcedOf>>
<1>1. EventsTellHealth' /\ NoEntryNoEvents'
  BY DEF HealthInv, EventsTellHealth, NoEntryNoEvents, HealthUntouched, Registered
<1>2. CapturedIsCurrent'
  <2> SUFFICES ASSUME NEW g \in Gens, task'[g].pc = "read", task'[g] = task[g]
               PROVE  task'[g].was_offline = Offline(entry[g].config_id)'
    BY DEF CapturedIsCurrent
  <2>1. entry'[g].config_id = entry[g].config_id /\ entry[g].config_id \in Configs
    BY DEF TypeInv, Refs, TaskRefs, Kept, Born
  <2> QED BY <2>1 DEF HealthInv, CapturedIsCurrent, HealthUntouched, Offline, Registered
<1>3. UNCHANGED <<healthOf, announcedOf>>
  BY DEF healthOf, announcedOf, HealthUntouched, Registered
<1> QED BY <1>1, <1>2, <1>3 DEF HealthInv

\* Nobody begins an initial read, and the entry of one under way is not touched.
LEMMA UnsetKept ==
    ASSUME TypeInv, HealthInv,
           \A w \in Configurers : worker'[w].pc = "initial_read" =>
              /\ worker'[w] = worker[w]
              /\ entry'[worker[w].entry].poll_health = entry[worker[w].entry].poll_health
    PROVE  UnsetUntilRead'
BY DEF HealthInv, UnsetUntilRead

\* A poll task that reads is in the slot of its configuration, which is registered
\* under its own entry dict and has been read before.
LEMMA PolledHasHealth ==
    ASSUME TypeInv, SerialInv, HealthInv, NEW g \in Gens, Live(g)
    PROVE  /\ entry[g].config_id \in Configs
           /\ poll_tasks[entry[g].config_id] = g
           /\ registry[entry[g].config_id] \in Gens
           /\ Registered(entry[g].config_id)
           /\ entry[registry[entry[g].config_id]].poll_health \in {"online", "offline"}
<1> DEFINE c == entry[g].config_id
<1>1. c \in Configs /\ poll_tasks[c] = g
  BY DEF TypeInv, Refs, TaskRefs, Live, Born, SerialInv, NoOrphanPoller
<1>2. Registered(c) /\ registry[c] \in Gens
  BY <1>1, NoneAssumption DEF SerialInv, PollTasksAreActive, TypeInv, TypeOK, Registered
<1>3. entry[registry[c]].poll_health \in Health \ {"unset"}
  BY <1>1, <1>2, NoneAssumption DEF HealthInv, EventsTellHealth, TypeInv, TypeOK, Entry
<1> QED BY <1>1, <1>2, <1>3 DEF Health

\* The dicts registered for two configurations are two.
LEMMA RegistryIsInjective ==
    ASSUME TypeInv, NEW c \in Configs, NEW d \in Configs, c # d, Registered(c), Registered(d)
    PROVE  registry[c] # registry[d] /\ registry[c] \in Gens /\ registry[d] \in Gens
BY DEF TypeInv, TypeOK, Refs, RegistryRefs, Registered

LEMMA HealthRegister ==
    ASSUME TypeInv, TypeInv', SerialInv, HealthInv, Kept, OneConfigurer,
           NEW w \in Configurers, NEW g \in Gens, NEW c \in Configs, NEW s \in Serials,
           NEW previous \in Samples \cup {None}, Register(w, c, s, previous, g),
           poll_tasks[c] = None, UNCHANGED <<poll_tasks, task>>
    PROVE  HealthInv' /\ Device!Apply(c)
<1>1. /\ ~Born(g)
      /\ registry'[c] = g
      /\ \A d \in Configs : d # c => registry'[d] = registry[d]
      /\ \A h \in Gens : h # g => entry'[h] = entry[h]
      /\ worker'[w].entry = g
  BY RegisterFacts DEF TypeInv, Workers
<1>2. entry'[g].poll_health = "unset"
  <2> DEFINE new == [NoEntry EXCEPT !.config_id = c, !.serial_number = s,
                                    !.last_delivered_sample_at = previous]
  <2>1. new.poll_health = "unset"
    BY DEF NoEntry
  <2>2. entry' = [entry EXCEPT ![g] = new]
    BY DEF Register
  <2> HIDE DEF new
  <2> QED BY <2>1, <2>2 DEF TypeInv, TypeOK
<1>3. /\ recent_events'[c] = NoEvents
      /\ \A d \in Configs : d # c => recent_events'[d] = recent_events[d]
  BY DEF Register, EndEvents, TypeInv, TypeOK, HealthInv, NoEntryNoEvents
<1>4. \A d \in Configs : d # c => HealthUntouched(d)
  <2> SUFFICES ASSUME NEW d \in Configs, d # c PROVE HealthUntouched(d)
    OBVIOUS
  <2>1. Registered(d) => registry[d] \in Gens /\ Born(registry[d])
    BY DEF TypeInv, TypeOK, Refs, RegistryRefs, Registered
  <2>2. Registered(d) => entry'[registry[d]].poll_health = entry[registry[d]].poll_health
    BY <1>1, <2>1
  <2> QED BY <1>1, <1>3, <2>2 DEF HealthUntouched
<1>5. EventsTell(c)' /\ Registered(c)'
  BY <1>1, <1>2, <1>3, NoneAssumption DEF EventsTell, Registered, NoEvents
<1>6. UnsetUntilRead'
  BY <1>1, <1>2 DEF UnsetUntilRead, OneConfigurer
<1>7. \A h \in Gens : task'[h].pc = "read" => task'[h] = task[h] /\ entry[h].config_id # c
  BY PolledHasHealth, NoneAssumption DEF Live
<1>8. HealthInv'
  BY <1>4, <1>5, <1>6, <1>7, HealthMoves
<1>9. Device!Set(c, "unset", "none")
  BY <1>1, <1>2, <1>3, <1>4, <1>5, HealthIsSet DEF NoEvents
<1> QED BY <1>8, <1>9 DEF Device!Apply

LEMMA HealthFinishRemove ==
    ASSUME TypeInv, TypeInv', SerialInv, HealthInv, Kept, OneConfigurer,
           NEW w \in Configurers, NEW c \in Configs, FinishRemove(c), poll_tasks[c] = None,
           UNCHANGED <<poll_tasks, entry, task>>, worker'[w].pc = "idle"
    PROVE  HealthInv' /\ Device!Remove(c)
<1>1. /\ registry'[c] = None
      /\ \A d \in Configs : d # c => registry'[d] = registry[d]
  BY FinishRemoveFacts DEF TypeInv
<1>2. /\ recent_events'[c] = NoEvents
      /\ \A d \in Configs : d # c => recent_events'[d] = recent_events[d]
  BY DEF FinishRemove, EndEvents, TypeInv, TypeOK, HealthInv, NoEntryNoEvents
<1>3. \A d \in Configs : d # c => HealthUntouched(d)
  BY <1>1, <1>2 DEF HealthUntouched
<1>4. EventsTell(c)' /\ ~Registered(c)'
  BY <1>1, <1>2 DEF EventsTell, Registered
<1>5. UnsetUntilRead'
  BY DEF UnsetUntilRead, OneConfigurer
<1>6. \A h \in Gens : task'[h].pc = "read" => task'[h] = task[h] /\ entry[h].config_id # c
  BY PolledHasHealth, NoneAssumption DEF Live
<1>7. HealthInv'
  BY <1>3, <1>4, <1>5, <1>6, HealthMoves
<1>8. Device!Set(c, "absent", "none")
  BY <1>2, <1>3, <1>4, HealthIsSet DEF NoEvents
<1> QED BY <1>7, <1>8 DEF Device!Remove

\* The initial read of apply_config ends with the health h.
LEMMA HealthInitialRead ==
    ASSUME TypeInv, TypeInv', SerialInv, HealthInv, Kept, OneConfigurer,
           NEW w \in Workers, worker[w].pc = "initial_read",
           NEW c, c = worker[w].config_id, NEW e, e = worker[w].entry,
           NEW h \in {"online", "offline"},
           \A g \in Gens : entry'[g].poll_health = IF g = e THEN h ELSE entry[g].poll_health,
           IF h = "online" THEN UNCHANGED recent_events ELSE AppendEvent(c, "initial_failed"),
           StartPolling(c, e), Answered(w), UNCHANGED registry
    PROVE  HealthInv' /\ Device!FirstRead(c)
<1>1. /\ w \in Configurers /\ c \in Configs /\ e \in Gens
      /\ registry[c] = e /\ Registered(c) /\ poll_tasks[c] = None
      /\ entry[e].poll_health = "unset"
  BY NoneAssumption DEF SerialInv, Kinds, OwnsSlot, Owning, TypeInv, Refs, WorkerRefs,
         Registered, HealthInv, UnsetUntilRead
<1>2. recent_events[c].latest = "none" /\ ~recent_events[c].repeated
  BY <1>1 DEF HealthInv, EventsTellHealth
<1>3. healthOf[c] = "unset" /\ announcedOf[c] = "none"
  BY <1>1, <1>2 DEF healthOf, announcedOf
<1>4. /\ \A g \in Gens : g # e => task'[g] = task[g]
      /\ task'[e].pc = "start"
      /\ \A d \in Configs : d # c => poll_tasks'[d] = poll_tasks[d]
  BY <1>1, StartPollingFacts DEF TypeInv
<1>5. /\ recent_events'[c].latest = IF h = "online" THEN "none" ELSE "initial_failed"
      /\ ~recent_events'[c].repeated
      /\ \A d \in Configs : d # c => recent_events'[d] = recent_events[d]
  BY <1>1, <1>2 DEF AppendEvent, TypeInv, TypeOK
<1>6. \A d \in Configs : d # c => HealthUntouched(d)
  BY <1>1, <1>4, <1>5, RegistryIsInjective DEF HealthUntouched
<1>7. EventsTell(c)' /\ Registered(c)'
  BY <1>1, <1>5 DEF EventsTell, Registered
<1>8. UnsetUntilRead'
  BY <1>1, AnsweredFacts DEF TypeInv, UnsetUntilRead, OneConfigurer
<1>9. \A g \in Gens : task'[g].pc = "read" => task'[g] = task[g] /\ entry[g].config_id # c
  BY <1>1, <1>4, PolledHasHealth, NoneAssumption DEF Live
<1>10. HealthInv'
  BY <1>1, <1>6, <1>7, <1>8, <1>9, HealthMoves
<1>11. Device!Set(c, h, IF h = "online" THEN "none" ELSE "initial_failed")
  BY <1>1, <1>5, <1>6, <1>7, HealthIsSet
<1> QED BY <1>3, <1>10, <1>11 DEF Device!FirstRead

\* A poll of the task g, of the configuration c with the entry e, ends with the
\* health h, and announces the event if the health is another one.
PollEnds(g, c, e, h, event) ==
    /\ task[g].pc = "read" /\ c = entry[g].config_id /\ e = registry[c]
    /\ event = IF h = "online" THEN "recovered" ELSE "failed"
    /\ \A f \in Gens : entry'[f].poll_health = IF f = e THEN h ELSE entry[f].poll_health
    /\ IF h = entry[e].poll_health THEN UNCHANGED recent_events ELSE AppendEvent(c, event)
    /\ task' = [task EXCEPT ![g] = AtPc("sleep")]
    /\ UNCHANGED <<registry, poll_tasks, worker>>

LEMMA HealthPolled ==
    ASSUME TypeInv, TypeInv', SerialInv, HealthInv, Kept, NEW g \in Gens,
           NEW c, NEW e, NEW h \in {"online", "offline"}, NEW event, PollEnds(g, c, e, h, event)
    PROVE  /\ HealthInv'
           /\ Device!Fail(c) \/ Device!Recover(c) \/ UNCHANGED <<healthOf, announcedOf>>
<1> USE DEF PollEnds
<1>1. /\ c \in Configs /\ e \in Gens /\ Registered(c) /\ poll_tasks[c] = g
      /\ entry[e].poll_health \in {"online", "offline"}
  BY PolledHasHealth DEF Live
<1>2. healthOf[c] = entry[e].poll_health
  BY <1>1 DEF healthOf
<1>3. EventsTell(c)
  BY <1>1 DEF HealthInv, EventsTellHealth, EventsTell
<1>4. /\ recent_events'[c].latest =
            IF h = entry[e].poll_health THEN recent_events[c].latest ELSE event
      /\ ~recent_events'[c].repeated
      /\ \A d \in Configs : d # c => recent_events'[d] = recent_events[d]
  BY <1>1, <1>3 DEF AppendEvent, TypeInv, TypeOK, EventsTell
<1>5. \A d \in Configs : d # c => HealthUntouched(d)
  BY <1>1, <1>4, RegistryIsInjective DEF HealthUntouched
<1>6. EventsTell(c)' /\ Registered(c)'
  BY <1>1, <1>3, <1>4 DEF EventsTell, Registered
<1>7. UnsetUntilRead'
  <2> SUFFICES ASSUME NEW w \in Configurers, worker[w].pc = "initial_read"
               PROVE  entry'[worker[w].entry].poll_health = "unset"
    BY DEF UnsetUntilRead
  <2>1. entry[worker[w].entry].poll_health = "unset" /\ worker[w].entry \in Gens
    BY DEF HealthInv, UnsetUntilRead, TypeInv, Refs, WorkerRefs, Workers
  <2>2. worker[w].entry # e
    BY <1>1, <2>1
  <2> QED BY <2>1, <2>2
<1>8. \A f \in Gens : task'[f].pc = "read" => task'[f] = task[f] /\ entry[f].config_id # c
  <2>1. AtPc("sleep").pc = "sleep"
    BY DEF AtPc
  <2> QED BY <1>1, <2>1, PolledHasHealth DEF Live, TypeInv, TypeOK
<1>9. HealthInv'
  BY <1>1, <1>5, <1>6, <1>7, <1>8, HealthMoves
<1>10. CASE h = entry[e].poll_health
  <2>1. \A d \in Configs : HealthUntouched(d)
    BY <1>1, <1>4, <1>5, <1>10 DEF HealthUntouched, EventsTell, TypeInv, TypeOK
  <2>2. UNCHANGED <<healthOf, announcedOf>>
    BY <2>1 DEF healthOf, announcedOf, HealthUntouched, Registered
  <2> QED BY <1>9, <2>2
<1>11. CASE h # entry[e].poll_health
  <2>1. Device!Set(c, h, event)
    BY <1>1, <1>4, <1>5, <1>6, <1>11, HealthIsSet
  <2>2. Device!Fail(c) \/ Device!Recover(c)
    BY <1>1, <1>2, <1>11, <2>1 DEF Device!Fail, Device!Recover
  <2> QED BY <1>9, <2>2
<1> QED BY <1>10, <1>11

\* A step that changes no health and no event, files no task and registers nothing.
LEMMA HealthQuiet ==
    ASSUME TypeInv, HealthInv, Kept, UNCHANGED <<registry, recent_events>>,
           \A c \in Configs : poll_tasks'[c] # None => poll_tasks[c] # None,
           \A g \in Gens : entry'[g].poll_health = entry[g].poll_health,
           \A g \in Gens : task'[g].pc = "read" =>
              task'[g] = task[g] \/ task'[g].was_offline = Offline(entry[g].config_id)',
           \A w \in Configurers : worker'[w].pc = "initial_read" => worker'[w] = worker[w]
    PROVE  HealthInv' /\ UNCHANGED <<healthOf, announcedOf>>
<1>1. \A c \in Configs : HealthUntouched(c)
  BY DEF HealthUntouched, Registered, TypeInv, TypeOK
<1>2. UnsetUntilRead'
  BY DEF HealthInv, UnsetUntilRead, TypeInv, Refs, WorkerRefs, Workers
<1> QED BY <1>1, <1>2, HealthKept

LEMMA HealthWorkerStep ==
    ASSUME OneConfigurer, NoSweep, TypeInv, TypeInv', SerialInv, HealthInv, Kept,
           NEW w \in Workers, WorkerStep(w)
    PROVE  HealthInv' /\ (Device!Next \/ UNCHANGED <<healthOf, announcedOf>>)
<1>1. CASE \/ VerifyFails(w) \/ CommandReadFails(w)
           \/ \E t \in Samples : CommandReadOk(w, t)
  <2>1. UNCHANGED <<registry, recent_events, poll_tasks, task>> /\ Answered(w)
    BY <1>1 DEF VerifyFails, CommandReadFails, CommandReadOk
  <2>2. \A g \in Gens : entry'[g].poll_health = entry[g].poll_health
    BY <1>1, MarkedKeepsHealth
       DEF VerifyFails, CommandReadFails, CommandReadOk, TypeInv, Refs, WorkerRefs
  <2>3. \A v \in Configurers : worker'[v].pc = "initial_read" => worker'[v] = worker[v]
    BY <2>1, AnsweredFacts DEF TypeInv, Workers
  <2> QED BY <2>1, <2>2, <2>3, HealthQuiet
<1>2. CASE VerifySucceedsPolled(w)
  <2> DEFINE c == worker[w].config_id
  <2>1. c \in Configs /\ PopAndCancel(c) /\ UNCHANGED <<registry, recent_events, entry>>
    BY <1>2 DEF VerifySucceedsPolled, TypeInv, Refs, WorkerRefs
  <2>2. /\ \A d \in Configs : poll_tasks'[d] # None => poll_tasks[d] # None
        /\ \A g \in Gens : task'[g].pc = "read" => task'[g] = task[g]
    BY <2>1, PopAndCancelFacts DEF TypeInv
  <2>3. \A v \in Configurers : worker'[v].pc = "initial_read" => worker'[v] = worker[v]
    BY <1>2, VerifySucceedsPolledStep DEF Workers
  <2> QED BY <2>1, <2>2, <2>3, HealthQuiet
<1>3. ASSUME NEW g \in Gens, VerifySucceeds(w, g)
      PROVE  HealthInv' /\ Device!Next
  <2> DEFINE c == worker[w].config_id
             s == worker[w].serial_number
  <2>1. w \in Configurers /\ c \in Configs /\ s \in Serials
    BY <1>3 DEF VerifySucceeds, SerialInv, Kinds, TypeInv, Refs, WorkerRefs
  <2>2. PreviousSampleAt(c, s) \in Samples \cup {None}
    BY <2>1 DEF TypeInv, TypeOK, Refs, RegistryRefs, Entry, PreviousSampleAt, Registered
  <2>3. /\ poll_tasks[c] = None /\ UNCHANGED <<poll_tasks, task>>
        /\ Register(w, c, s, PreviousSampleAt(c, s), g)
    BY <1>3 DEF VerifySucceeds
  <2> HIDE DEF c, s
  <2>4. HealthInv' /\ Device!Apply(c)
    BY <2>1, <2>2, <2>3, HealthRegister
  <2> QED BY <2>1, <2>4 DEF Device!Next
<1>4. ASSUME NEW g \in Gens, ApplyResumes(w, g)
      PROVE  HealthInv' /\ Device!Next
  <2> DEFINE c == worker[w].config_id
             s == worker[w].serial_number
             previous == worker[w].previous_sample_at
  <2>1. /\ w \in Configurers /\ c \in Configs /\ s \in Serials
        /\ previous \in Samples \cup {None} /\ poll_tasks[c] = None
    BY <1>4 DEF ApplyResumes, SerialInv, Kinds, OwnsSlot, Owning, TypeInv, TypeOK, Worker,
                Refs, WorkerRefs
  <2>2. UNCHANGED <<poll_tasks, task>> /\ Register(w, c, s, previous, g)
    BY <1>4 DEF ApplyResumes
  <2> HIDE DEF c, s, previous
  <2>3. HealthInv' /\ Device!Apply(c)
    BY <2>1, <2>2, HealthRegister
  <2> QED BY <2>1, <2>3 DEF Device!Next
<1>5. ASSUME NEW t \in Samples, InitialReadOk(w, t)
      PROVE  HealthInv' /\ Device!Next
  <2> DEFINE c == worker[w].config_id
             e == worker[w].entry
  <2>1. /\ worker[w].pc = "initial_read" /\ c \in Configs /\ e \in Gens
        /\ StartPolling(c, e) /\ Answered(w) /\ UNCHANGED <<registry, recent_events>>
    BY <1>5 DEF InitialReadOk, TypeInv, Refs, WorkerRefs
  <2>2. \A g \in Gens : entry'[g].poll_health = IF g = e THEN "online" ELSE entry[g].poll_health
    <3>1. entry' = WithHealth(Marked(e, t), e, "online")
      BY <1>5 DEF InitialReadOk
    <3>2. Marked(e, t) \in [Gens -> Entry] /\ "online" \in Health
      BY <2>1, MarkedFacts DEF TypeInv, Health
    <3> QED BY <2>1, <3>1, <3>2, MarkedKeepsHealth, WithHealthSets DEF TypeInv
  <2>3. HealthInv' /\ Device!FirstRead(c)
    BY <2>1, <2>2, HealthInitialRead
  <2> QED BY <2>1, <2>3 DEF Device!Next
<1>6. CASE InitialReadFails(w)
  <2> DEFINE c == worker[w].config_id
             e == worker[w].entry
  <2>1. /\ worker[w].pc = "initial_read" /\ c \in Configs /\ e \in Gens
        /\ StartPolling(c, e) /\ Answered(w) /\ AppendEvent(c, "initial_failed")
        /\ UNCHANGED registry
    BY <1>6 DEF InitialReadFails, TypeInv, Refs, WorkerRefs
  <2>2. \A g \in Gens : entry'[g].poll_health = IF g = e THEN "offline" ELSE entry[g].poll_health
    <3>1. entry' = WithHealth(entry, e, "offline")
      BY <1>6 DEF InitialReadFails
    <3>2. entry \in [Gens -> Entry] /\ "offline" \in Health
      BY DEF TypeInv, TypeOK, Health
    <3> QED BY <2>1, <3>1, <3>2, WithHealthSets
  <2>3. HealthInv' /\ Device!FirstRead(c)
    BY <2>1, <2>2, HealthInitialRead
  <2> QED BY <2>1, <2>3 DEF Device!Next
<1>7. CASE RemoveResumes(w)
  <2> DEFINE c == worker[w].config_id
  <2>1. w \in Configurers /\ c \in Configs /\ poll_tasks[c] = None
    BY <1>7 DEF RemoveResumes, SerialInv, Kinds, OwnsSlot, Owning, TypeInv, Refs, WorkerRefs
  <2>2. FinishRemove(c) /\ Answered(w) /\ UNCHANGED <<poll_tasks, entry, task>>
    BY <1>7 DEF RemoveResumes
  <2>3. worker'[w].pc = "idle"
    BY <2>2, AnsweredFacts DEF TypeInv
  <2> HIDE DEF c
  <2>4. HealthInv' /\ Device!Remove(c)
    BY <2>1, <2>2, <2>3, HealthFinishRemove
  <2> QED BY <2>1, <2>4 DEF Device!Next
<1>8. ~RefreshReadFails(w) /\ \A t \in Samples : ~RefreshReadOk(w, t)
  BY DEF RefreshReadFails, RefreshReadOk, SerialInv, Kinds, NoSweep
<1> QED BY <1>1, <1>2, <1>3, <1>4, <1>5, <1>6, <1>7, <1>8 DEF WorkerStep

LEMMA HealthRequest ==
    ASSUME OneConfigurer, NoSweep, TypeInv, TypeInv', SerialInv, HealthInv, Kept, Request
    PROVE  HealthInv' /\ (Device!Next \/ UNCHANGED <<healthOf, announcedOf>>)
<1>1. ASSUME NEW w \in Configurers, NEW c \in Configs, NEW s \in Serials, ConfigRequest(w, c, s)
      PROVE  HealthInv' /\ UNCHANGED <<healthOf, announcedOf>>
  <2> DEFINE new == [Idle EXCEPT !.pc = "verify", !.config_id = c, !.serial_number = s]
  <2>1. new.pc = "verify" /\ worker' = [worker EXCEPT ![w] = new] /\ w \in Workers
    BY <1>1 DEF ConfigRequest, Idle, Workers
  <2>2. UNCHANGED <<registry, recent_events, poll_tasks, entry, task>>
    BY <1>1 DEF ConfigRequest
  <2> HIDE DEF new
  <2>3. \A v \in Configurers : worker'[v].pc = "initial_read" => worker'[v] = worker[v]
    BY <2>1 DEF TypeInv, TypeOK, Workers
  <2> QED BY <2>2, <2>3, HealthQuiet
<1>2. ASSUME NEW w \in Configurers, NEW c \in Configs, Deconfigure(w, c)
      PROVE  HealthInv' /\ Device!Next
  <2>1. /\ FinishRemove(c) /\ poll_tasks[c] = None /\ worker'[w].pc = "idle"
        /\ UNCHANGED <<poll_tasks, entry, task>>
    BY <1>2 DEF Deconfigure
  <2>2. HealthInv' /\ Device!Remove(c)
    BY <2>1, HealthFinishRemove
  <2> QED BY <2>2 DEF Device!Next
<1>3. ASSUME NEW w \in Configurers, NEW c \in Configs, DeconfigurePolled(w, c)
      PROVE  HealthInv' /\ UNCHANGED <<healthOf, announcedOf>>
  <2>1. PopAndCancel(c) /\ UNCHANGED <<registry, recent_events, entry>>
    BY <1>3 DEF DeconfigurePolled
  <2>2. /\ \A d \in Configs : poll_tasks'[d] # None => poll_tasks[d] # None
        /\ \A g \in Gens : task'[g].pc = "read" => task'[g] = task[g]
    BY <2>1, PopAndCancelFacts DEF TypeInv
  <2>3. \A v \in Configurers : worker'[v].pc = "initial_read" => worker'[v] = worker[v]
    BY <1>3, DeconfigurePolledStep DEF Workers
  <2> QED BY <2>1, <2>2, <2>3, HealthQuiet
<1>4. ASSUME NEW w \in Commanders, NEW c \in Configs, CommandRequest(w, c)
      PROVE  HealthInv' /\ UNCHANGED <<healthOf, announcedOf>>
  <2> DEFINE new == [Idle EXCEPT !.pc = "command_read", !.config_id = c, !.entry = registry[c]]
  <2>1. new.pc = "command_read" /\ worker' = [worker EXCEPT ![w] = new] /\ w \in Workers
    BY <1>4 DEF CommandRequest, Idle, Workers
  <2>2. UNCHANGED <<registry, recent_events, poll_tasks, entry, task>>
    BY <1>4 DEF CommandRequest
  <2> HIDE DEF new
  <2>3. \A v \in Configurers : worker'[v].pc = "initial_read" => worker'[v] = worker[v]
    BY <2>1 DEF TypeInv, TypeOK, Workers
  <2> QED BY <2>2, <2>3, HealthQuiet
<1> QED BY <1>1, <1>2, <1>3, <1>4 DEF Request, NoSweep

LEMMA HealthTaskStep ==
    ASSUME TypeInv, TypeInv', SerialInv, HealthInv, Kept, NEW g \in Gens, TaskStep(g)
    PROVE  HealthInv' /\ (Device!Next \/ UNCHANGED <<healthOf, announcedOf>>)
<1>1. CASE TaskStart(g) \/ TaskStops(g) \/ PollSkip(g)
  <2>1. UNCHANGED <<registry, recent_events, poll_tasks, entry, worker>>
    BY <1>1 DEF TaskStart, TaskStops, PollSkip
  <2>2. AtPc("stopped").pc = "stopped"
    BY DEF AtPc
  <2>3. \A h \in Gens : task'[h].pc = "read" => task'[h] = task[h]
    BY <1>1, <2>2 DEF TaskStart, TaskStops, PollSkip, TypeInv, TypeOK, Task
  <2> QED BY <2>1, <2>3, HealthQuiet
<1>2. CASE PollStart(g)
  <2> DEFINE c == entry[g].config_id
             new == [pc |-> "read", entry |-> registry[c], was_offline |-> Offline(c)]
  <2>1. /\ UNCHANGED <<registry, recent_events, poll_tasks, entry, worker>>
        /\ task' = [task EXCEPT ![g] = new]
    BY <1>2 DEF PollStart
  <2>2. new.was_offline = Offline(c)
    OBVIOUS
  <2>3. Offline(c)' = Offline(c)
    BY <2>1 DEF Offline, Registered
  <2>4. \A h \in Gens : task'[h] = task[h] \/ task'[h].was_offline = Offline(entry[h].config_id)'
    <3> HIDE DEF new
    <3> QED BY <2>1, <2>2, <2>3 DEF TypeInv, TypeOK
  <2> QED BY <2>1, <2>4, HealthQuiet
<1>3. ASSUME NEW t \in Samples, PollReadOk(g, t)
      PROVE  HealthInv' /\ (Device!Next \/ UNCHANGED <<healthOf, announcedOf>>)
  <2> DEFINE c == entry[g].config_id
             e == registry[c]
  <2>1. /\ task[g].pc = "read" /\ PollOnceOk(c, task[g].entry, task[g].was_offline, t)
        /\ task' = [task EXCEPT ![g] = AtPc("sleep")] /\ UNCHANGED <<registry, poll_tasks, worker>>
    BY <1>3 DEF PollReadOk
  <2>2. /\ c \in Configs /\ e \in Gens /\ Registered(c) /\ task[g].entry \in Gens
        /\ entry[e].poll_health \in {"online", "offline"}
        /\ task[g].was_offline = (entry[e].poll_health = "offline")
    BY <2>1, PolledHasHealth
       DEF Live, TypeInv, Refs, TaskRefs, HealthInv, CapturedIsCurrent, Offline
  <2>3. \A f \in Gens : entry'[f].poll_health = IF f = e THEN "online" ELSE entry[f].poll_health
    <3>1. entry' = WithHealth(Marked(task[g].entry, t), e, "online")
      BY <2>1, <2>2 DEF PollOnceOk
    <3>2. Marked(task[g].entry, t) \in [Gens -> Entry] /\ "online" \in Health
      BY <2>2, MarkedFacts DEF TypeInv, Health
    <3> QED BY <2>2, <3>1, <3>2, MarkedKeepsHealth, WithHealthSets DEF TypeInv
  <2>4. IF "online" = entry[e].poll_health THEN UNCHANGED recent_events
        ELSE AppendEvent(c, "recovered")
    BY <2>1, <2>2 DEF PollOnceOk
  <2>5. /\ HealthInv'
        /\ Device!Fail(c) \/ Device!Recover(c) \/ UNCHANGED <<healthOf, announcedOf>>
    <3>1. PollEnds(g, c, e, "online", "recovered")
      BY <2>1, <2>3, <2>4 DEF PollEnds
    <3> HIDE DEF c, e
    <3> QED BY <3>1, HealthPolled
  <2> QED BY <2>2, <2>5 DEF Device!Next
<1>4. CASE PollReadFails(g)
  <2> DEFINE c == entry[g].config_id
             e == registry[c]
  <2>1. /\ task[g].pc = "read" /\ PollOnceFails(c)
        /\ task' = [task EXCEPT ![g] = AtPc("sleep")] /\ UNCHANGED <<registry, poll_tasks, worker>>
    BY <1>4 DEF PollReadFails
  <2>2. c \in Configs /\ e \in Gens /\ Registered(c)
    BY <2>1, PolledHasHealth DEF Live
  <2>3. \A f \in Gens : entry'[f].poll_health = IF f = e THEN "offline" ELSE entry[f].poll_health
    <3>1. entry' = WithHealth(entry, e, "offline")
      BY <2>1, <2>2 DEF PollOnceFails
    <3>2. entry \in [Gens -> Entry] /\ "offline" \in Health
      BY DEF TypeInv, TypeOK, Health
    <3> QED BY <2>2, <3>1, <3>2, WithHealthSets
  <2>4. IF "offline" = entry[e].poll_health THEN UNCHANGED recent_events
        ELSE AppendEvent(c, "failed")
    BY <2>1, <2>2 DEF PollOnceFails, Offline
  <2>5. /\ HealthInv'
        /\ Device!Fail(c) \/ Device!Recover(c) \/ UNCHANGED <<healthOf, announcedOf>>
    <3>1. PollEnds(g, c, e, "offline", "failed")
      BY <2>1, <2>3, <2>4 DEF PollEnds
    <3> HIDE DEF c, e
    <3> QED BY <3>1, HealthPolled
  <2> QED BY <2>2, <2>5 DEF Device!Next
<1> QED BY <1>1, <1>2, <1>3, <1>4 DEF TaskStep

LEMMA HealthDelivery ==
    ASSUME TypeInv, HealthInv, Kept, Delivery \/ UNCHANGED vars
    PROVE  HealthInv' /\ UNCHANGED <<healthOf, announcedOf>>
<1>1. UNCHANGED <<registry, recent_events, poll_tasks, task, worker>>
  BY DEF Delivery, MeasurementDone, HeartbeatDone, vars
<1>2. \A g \in Gens : entry'[g].poll_health = entry[g].poll_health
  <2>1. ASSUME NEW e \in Gens, NEW t \in Samples, NEW outcome, MeasurementDone(e, t, outcome),
               NEW g \in Gens
        PROVE  entry'[g].poll_health = entry[g].poll_health
    <3> DEFINE delivered == outcome = "acknowledged"
    <3>1. entry' = Recorded(e, t, delivered) /\ delivered \in BOOLEAN
      BY <2>1 DEF MeasurementDone
    <3> HIDE DEF delivered
    <3> QED BY <3>1, RecordedKeepsHealth DEF TypeInv
  <2> QED BY <2>1 DEF Delivery, HeartbeatDone, vars
<1> QED BY <1>1, <1>2, HealthQuiet

LEMMA HealthInvInit == Init => HealthInv
BY DEF Init, HealthInv, EventsTellHealth, NoEntryNoEvents, UnsetUntilRead, CapturedIsCurrent,
       Registered, Idle, AtPc, Workers

LEMMA HealthInvNext ==
    ASSUME OneConfigurer, NoSweep, TypeInv, SerialInv, HealthInv, [Next]_vars
    PROVE  HealthInv' /\ (Device!Next \/ UNCHANGED <<healthOf, announcedOf>>)
<1>1. TypeInv' /\ Kept
  BY KeptNext
<1>2. CASE Request
  BY <1>1, <1>2, HealthRequest
<1>3. CASE \E w \in Workers : WorkerStep(w)
  BY <1>1, <1>3, HealthWorkerStep
<1>4. CASE \E g \in Gens : TaskStep(g)
  BY <1>1, <1>4, HealthTaskStep
<1>5. CASE Delivery \/ UNCHANGED vars
  BY <1>1, <1>5, HealthDelivery
<1> QED BY <1>2, <1>3, <1>4, <1>5 DEF Next

LEMMA HealthInvAlways == ASSUME OneConfigurer, NoSweep PROVE Spec => []HealthInv
<1>1. TypeInv /\ SerialInv /\ HealthInv /\ [Next]_vars => HealthInv'
  BY HealthInvNext
<1> QED BY <1>1, HealthInvInit, SerialInvAlways, TypeInvAlways, PTL DEF Spec

\* The last event about a registered configuration tells whether it is offline, and
\* no two successive events report the same transition (poll_once, apply_config).
THEOREM EventsTellTheHealth == ASSUME OneConfigurer, NoSweep PROVE Spec => []HealthEvents
<1>1. TypeInv /\ HealthInv => HealthEvents
  BY DEF TypeInv, TypeOK, HealthInv, EventsTellHealth, HealthEvents, Offline, Registered,
         Entry, Health
<1> QED BY <1>1, HealthInvAlways, TypeInvAlways, PTL

\* The runtime implements DeviceHealth: what Core learns of each device is a run of
\* the abstract specification, step by step (HealthRefinement).
THEOREM RuntimeImplementsHealth ==
    ASSUME OneConfigurer, NoSweep PROVE Spec => ImplementsDeviceHealth
<1>1. Init => Device!Init
  BY DEF Init, Device!Init, healthOf, announcedOf, Registered, NoEvents
<1>2. TypeInv /\ SerialInv /\ HealthInv /\ [Next]_vars => [Device!Next]_(Device!vars)
  BY HealthInvNext DEF Device!vars
<1> QED BY <1>1, <1>2, HealthInvAlways, SerialInvAlways, TypeInvAlways, PTL
        DEF Spec, ImplementsDeviceHealth, Device!Spec
=============================================================================
