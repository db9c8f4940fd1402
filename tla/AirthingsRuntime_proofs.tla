----------------------- MODULE AirthingsRuntime_proofs -----------------------
(* Proofs about AirthingsRuntime for every set of configurations, samples,   *)
(* requests and generations.                                                 *)
EXTENDS AirthingsRuntime, TLAPS

\* The dict g exists: apply_config has filled it in.
Born(g) == entry[g].config_id \in Configs /\ entry[g].serial_number \in Serials

\* Every reference to an entry dict, from the registry, a poll task, a request
\* or a delivery, is to one that exists, and the references that carry a
\* configuration id agree with the dict about it.
RegistryRefs ==
    \A c \in Configs : registry[c] # None =>
        Born(registry[c]) /\ entry[registry[c]].config_id = c

TaskRefs ==
    \A g \in Gens :
        /\ task[g].pc # "unborn" => Born(g)
        /\ task[g].pc = "read" => task[g].entry \in Gens /\ Born(task[g].entry)

WorkerRefs ==
    \A w \in Workers :
        /\ worker[w].pc # "idle" => worker[w].config_id \in Configs
        /\ worker[w].pc \in {"verify", "apply_cancel"} => worker[w].serial_number \in Serials
        /\ worker[w].pc \in {"initial_read", "command_read", "refresh_read"} =>
              worker[w].entry \in Gens /\ Born(worker[w].entry)
        /\ worker[w].pc = "initial_read" =>
              entry[worker[w].entry].config_id = worker[w].config_id

DeliveryRefs == \A g \in Gens, t \in Samples : sending[g][t] > 0 => Born(g)

Refs == RegistryRefs /\ TaskRefs /\ WorkerRefs /\ DeliveryRefs /\ SlotIsLive

TypeInv == TypeOK /\ Refs

\* The entry dicts that exist keep their identity.
Kept ==
    \A g \in Gens : Born(g) =>
        /\ entry'[g].config_id = entry[g].config_id
        /\ entry'[g].serial_number = entry[g].serial_number
-----------------------------------------------------------------------------
(* What the operators of the model do to the parts they change *)

LEMMA IdleType == Idle \in Worker
BY DEF Idle, Worker

LEMMA WithHealthFacts ==
    ASSUME NEW es \in [Gens -> Entry], NEW e \in Gens, NEW h \in Health
    PROVE  /\ WithHealth(es, e, h) \in [Gens -> Entry]
           /\ \A g \in Gens :
                /\ WithHealth(es, e, h)[g].config_id = es[g].config_id
                /\ WithHealth(es, e, h)[g].serial_number = es[g].serial_number
                /\ WithHealth(es, e, h)[g].pending_sample_at = es[g].pending_sample_at
                /\ WithHealth(es, e, h)[g].last_delivered_sample_at = es[g].last_delivered_sample_at
BY DEF WithHealth, Entry

\* Setting one mark of one entry dict leaves its other fields and the others alone.
LEMMA SetPending ==
    ASSUME NEW es \in [Gens -> Entry], NEW e \in Gens, NEW p \in Samples \cup {None}
    PROVE  LET new == [es EXCEPT ![e].pending_sample_at = p]
           IN  /\ new \in [Gens -> Entry]
               /\ \A g \in Gens :
                     /\ new[g].config_id = es[g].config_id
                     /\ new[g].serial_number = es[g].serial_number
                     /\ new[g].poll_health = es[g].poll_health
                     /\ new[g].pending_sample_at = IF g = e THEN p ELSE es[g].pending_sample_at
                     /\ new[g].last_delivered_sample_at = es[g].last_delivered_sample_at
BY DEF Entry

LEMMA SetDelivered ==
    ASSUME NEW es \in [Gens -> Entry], NEW e \in Gens, NEW d \in Samples \cup {None}
    PROVE  LET new == [es EXCEPT ![e].last_delivered_sample_at = d]
           IN  /\ new \in [Gens -> Entry]
               /\ \A g \in Gens :
                     /\ new[g].config_id = es[g].config_id
                     /\ new[g].serial_number = es[g].serial_number
                     /\ new[g].poll_health = es[g].poll_health
                     /\ new[g].pending_sample_at = es[g].pending_sample_at
                     /\ new[g].last_delivered_sample_at =
                           IF g = e THEN d ELSE es[g].last_delivered_sample_at
BY DEF Entry

LEMMA MarkedFacts ==
    ASSUME TypeOK, NEW e \in Gens, NEW t \in Samples
    PROVE  /\ Marked(e, t) \in [Gens -> Entry]
           /\ \A g \in Gens :
                /\ Marked(e, t)[g].config_id = entry[g].config_id
                /\ Marked(e, t)[g].serial_number = entry[g].serial_number
                /\ Marked(e, t)[g].last_delivered_sample_at = entry[g].last_delivered_sample_at
                /\ Marked(e, t)[g].pending_sample_at =
                      IF g = e /\ NeedsSend(e, t) THEN t ELSE entry[g].pending_sample_at
<1>1. entry \in [Gens -> Entry]
  BY DEF TypeOK
<1>2. CASE NeedsSend(e, t)
  <2>1. Marked(e, t) = [entry EXCEPT ![e].pending_sample_at = t]
    BY <1>2 DEF Marked
  <2> QED BY <1>1, <1>2, <2>1, SetPending
<1>3. CASE ~NeedsSend(e, t)
  BY <1>1, <1>3 DEF Marked
<1> QED BY <1>2, <1>3

LEMMA RecordedFacts ==
    ASSUME TypeOK, NEW e \in Gens, NEW t \in Samples, NEW delivered \in BOOLEAN
    PROVE  /\ Recorded(e, t, delivered) \in [Gens -> Entry]
           /\ \A g \in Gens :
                /\ Recorded(e, t, delivered)[g].config_id = entry[g].config_id
                /\ Recorded(e, t, delivered)[g].serial_number = entry[g].serial_number
                /\ Recorded(e, t, delivered)[g].pending_sample_at =
                      IF g = e /\ entry[g].pending_sample_at = t
                      THEN None ELSE entry[g].pending_sample_at
                /\ Recorded(e, t, delivered)[g].last_delivered_sample_at =
                      IF g = e /\ delivered THEN t ELSE entry[g].last_delivered_sample_at
<1>1. /\ Cleared(e, t) \in [Gens -> Entry]
      /\ \A g \in Gens :
            /\ Cleared(e, t)[g].config_id = entry[g].config_id
            /\ Cleared(e, t)[g].serial_number = entry[g].serial_number
            /\ Cleared(e, t)[g].last_delivered_sample_at = entry[g].last_delivered_sample_at
            /\ Cleared(e, t)[g].pending_sample_at =
                  IF g = e /\ entry[g].pending_sample_at = t
                  THEN None ELSE entry[g].pending_sample_at
  <2> DEFINE p == IF entry[e].pending_sample_at = t THEN None ELSE entry[e].pending_sample_at
  <2>1. entry \in [Gens -> Entry] /\ p \in Samples \cup {None}
    BY DEF TypeOK, Entry
  <2>2. Cleared(e, t) = [entry EXCEPT ![e].pending_sample_at = p]
    BY DEF Cleared
  <2> QED BY <2>1, <2>2, SetPending
<1>2. CASE delivered
  <2>1. Recorded(e, t, delivered) = [Cleared(e, t) EXCEPT ![e].last_delivered_sample_at = t]
    BY <1>2 DEF Recorded
  <2> DEFINE cleared == Cleared(e, t)
             recorded == Recorded(e, t, delivered)
  <2>2. /\ recorded \in [Gens -> Entry]
        /\ \A g \in Gens :
              /\ recorded[g].config_id = cleared[g].config_id
              /\ recorded[g].serial_number = cleared[g].serial_number
              /\ recorded[g].pending_sample_at = cleared[g].pending_sample_at
              /\ recorded[g].last_delivered_sample_at =
                    IF g = e THEN t ELSE cleared[g].last_delivered_sample_at
    BY <1>1, <2>1, SetDelivered
  <2>3. \A g \in Gens :
            /\ cleared[g].config_id = entry[g].config_id
            /\ cleared[g].serial_number = entry[g].serial_number
            /\ cleared[g].last_delivered_sample_at = entry[g].last_delivered_sample_at
            /\ cleared[g].pending_sample_at =
                  IF g = e /\ entry[g].pending_sample_at = t
                  THEN None ELSE entry[g].pending_sample_at
    BY <1>1
  <2>4. recorded = Recorded(e, t, delivered)
    OBVIOUS
  <2> HIDE DEF cleared, recorded
  <2> QED BY <1>2, <2>2, <2>3, <2>4
<1>3. CASE ~delivered
  BY <1>1, <1>3 DEF Recorded
<1> QED BY <1>2, <1>3

LEMMA SnapshotFacts ==
    ASSUME TypeOK, NEW c \in Configs, NEW e \in Gens, NEW t \in Samples, Born(e),
           UpdateStateSnapshot(c, e, t)
    PROVE  /\ state_snapshots' \in [Configs -> Snapshot \cup {None}]
           /\ sending' \in [Gens -> [Samples -> 0..MaxInFlight]]
           /\ heartbeats' \in [Configs -> 0..MaxInFlight]
           /\ \A g \in Gens, u \in Samples :
                 /\ sending'[g][u] >= sending[g][u]
                 /\ g # e => sending'[g][u] = sending[g][u]
           /\ NeedsSend(e, t) => sending'[e][t] > 0
<1>1. /\ state_snapshots' \in [Configs -> Snapshot \cup {None}]
      /\ heartbeats' \in [Configs -> 0..MaxInFlight]
  BY BoundAssumption DEF TypeOK, Born, UpdateStateSnapshot, Shown, Snapshot
<1>2. CASE NeedsSend(e, t)
  <2>1. /\ sending' = [sending EXCEPT ![e][t] = @ + 1]
        /\ sending[e][t] < MaxInFlight
    BY <1>2 DEF UpdateStateSnapshot
  <2> QED BY <1>1, <2>1, BoundAssumption DEF TypeOK
<1>3. CASE ~NeedsSend(e, t)
  <2>1. sending' = sending
    BY <1>3 DEF UpdateStateSnapshot
  <2> QED BY <1>1, <1>3, <2>1, BoundAssumption DEF TypeOK
<1> QED BY <1>2, <1>3

LEMMA AppendEventType ==
    ASSUME TypeOK, NEW c \in Configs, NEW event \in Event, AppendEvent(c, event)
    PROVE  recent_events' \in [Configs -> [latest: Event, repeated: BOOLEAN]]
BY DEF TypeOK, AppendEvent

LEMMA ShownType ==
    ASSUME TypeOK, NEW c \in Configs, NEW s \in Serials, NEW connected \in BOOLEAN
    PROVE  Shown(c, s, connected) \in [Configs -> Snapshot \cup {None}]
BY DEF TypeOK, Shown, Snapshot

LEMMA PopAndCancelFacts ==
    ASSUME TypeOK, NEW c \in Configs, PopAndCancel(c)
    PROVE  /\ poll_tasks[c] \in Gens
           /\ poll_tasks' \in [Configs -> Gens \cup {None}]
           /\ task' \in [Gens -> Task]
           /\ task'[poll_tasks[c]].pc = "cancelled"
           /\ \A g \in Gens : g # poll_tasks[c] => task'[g] = task[g]
           /\ poll_tasks'[c] = None
           /\ \A d \in Configs : d # c => poll_tasks'[d] = poll_tasks[d]
<1>1. AtPc("cancelled") \in Task /\ AtPc("cancelled").pc = "cancelled"
  BY DEF AtPc, Task
<1> QED BY <1>1 DEF TypeOK, PopAndCancel

LEMMA StartPollingFacts ==
    ASSUME TypeOK, NEW c \in Configs, NEW e \in Gens, StartPolling(c, e)
    PROVE  /\ poll_tasks' \in [Configs -> Gens \cup {None}]
           /\ task' \in [Gens -> Task]
           /\ task'[e].pc = "start"
           /\ \A g \in Gens : g # e => task'[g] = task[g]
           /\ poll_tasks'[c] = e
           /\ \A d \in Configs : d # c => poll_tasks'[d] = poll_tasks[d]
<1>1. AtPc("start") \in Task /\ AtPc("start").pc = "start"
  BY DEF AtPc, Task
<1> QED BY <1>1 DEF TypeOK, StartPolling

LEMMA AnsweredFacts ==
    ASSUME TypeOK, NEW w \in Workers, Answered(w)
    PROVE  /\ worker' \in [Workers -> Worker]
           /\ worker'[w].pc = "idle"
           /\ worker'[w].previous_sample_at = None
           /\ \A v \in Workers : v # w => worker'[v] = worker[v]
<1>1. Idle.pc = "idle" /\ Idle.previous_sample_at = None
  BY DEF Idle
<1> QED BY <1>1, IdleType DEF TypeOK, Answered

LEMMA RegisterFacts ==
    ASSUME TypeOK, NEW w \in Workers, NEW c \in Configs, NEW s \in Serials,
           NEW previous \in Samples \cup {None}, NEW e \in Gens,
           Register(w, c, s, previous, e)
    PROVE  /\ registry' \in [Configs -> Gens \cup {None}]
           /\ poll_status' \subseteq Configs
           /\ state_snapshots' \in [Configs -> Snapshot \cup {None}]
           /\ entry' \in [Gens -> Entry]
           /\ worker' \in [Workers -> Worker]
           /\ recent_events' \in [Configs -> [latest: Event, repeated: BOOLEAN]]
           /\ ~Born(e)
           /\ registry'[c] = e
           /\ \A d \in Configs : d # c => registry'[d] = registry[d]
           /\ entry'[e].config_id = c /\ entry'[e].serial_number = s
           /\ entry'[e].pending_sample_at = None
           /\ entry'[e].last_delivered_sample_at = previous
           /\ \A g \in Gens : g # e => entry'[g] = entry[g]
           /\ worker'[w].pc = "initial_read" /\ worker'[w].config_id = c
           /\ worker'[w].entry = e /\ worker'[w].previous_sample_at = None
           /\ \A v \in Workers : v # w => worker'[v] = worker[v]
<1> DEFINE new == [NoEntry EXCEPT !.config_id = c, !.serial_number = s,
                                  !.last_delivered_sample_at = previous]
           reading == [Idle EXCEPT !.pc = "initial_read", !.config_id = c, !.entry = e]
<1>1. /\ new \in Entry /\ new.config_id = c /\ new.serial_number = s
      /\ new.pending_sample_at = None /\ new.last_delivered_sample_at = previous
  BY DEF NoEntry, Entry, Health
<1>2. /\ reading \in Worker /\ reading.pc = "initial_read" /\ reading.config_id = c
      /\ reading.entry = e /\ reading.previous_sample_at = None
  BY DEF Idle, Worker
<1>3. entry' = [entry EXCEPT ![e] = new] /\ worker' = [worker EXCEPT ![w] = reading]
  BY DEF Register
<1>4. /\ entry' \in [Gens -> Entry] /\ entry'[e] = new
      /\ \A g \in Gens : g # e => entry'[g] = entry[g]
  BY <1>1, <1>3 DEF TypeOK
<1>5. /\ worker' \in [Workers -> Worker] /\ worker'[w] = reading
      /\ \A v \in Workers : v # w => worker'[v] = worker[v]
  BY <1>2, <1>3 DEF TypeOK
<1>6. /\ registry' \in [Configs -> Gens \cup {None}]
      /\ registry'[c] = e
      /\ \A d \in Configs : d # c => registry'[d] = registry[d]
      /\ poll_status' \subseteq Configs
  BY DEF TypeOK, Register
<1>7. state_snapshots' \in [Configs -> Snapshot \cup {None}]
  BY ShownType DEF Register
<1>8. recent_events' \in [Configs -> [latest: Event, repeated: BOOLEAN]]
  BY DEF TypeOK, Register, EndEvents, NoEvents, Event
<1>9. ~Born(e)
  BY NoneAssumption DEF Register, NoEntry, Born
<1> HIDE DEF new, reading
<1> QED BY <1>1, <1>2, <1>4, <1>5, <1>6, <1>7, <1>8, <1>9

LEMMA FinishRemoveFacts ==
    ASSUME TypeOK, NEW c \in Configs, FinishRemove(c)
    PROVE  /\ registry' \in [Configs -> Gens \cup {None}]
           /\ poll_status' \subseteq Configs
           /\ state_snapshots' \in [Configs -> Snapshot \cup {None}]
           /\ recent_events' \in [Configs -> [latest: Event, repeated: BOOLEAN]]
           /\ registry'[c] = None
           /\ \A d \in Configs : d # c => registry'[d] = registry[d]
BY DEF TypeOK, FinishRemove, EndEvents, NoEvents, Event

\* The step leaves alone what the entry dicts say about identity and delivery.
EntriesKept ==
    \A g \in Gens :
        /\ entry'[g].config_id = entry[g].config_id
        /\ entry'[g].serial_number = entry[g].serial_number
        /\ entry'[g].pending_sample_at = entry[g].pending_sample_at
        /\ entry'[g].last_delivered_sample_at = entry[g].last_delivered_sample_at

\* The step stores the reading t through the dict e.
Stores(e, t) ==
    /\ \A g \in Gens :
          /\ entry'[g].config_id = entry[g].config_id
          /\ entry'[g].serial_number = entry[g].serial_number
          /\ entry'[g].last_delivered_sample_at = entry[g].last_delivered_sample_at
          /\ entry'[g].pending_sample_at =
                IF g = e /\ NeedsSend(e, t) THEN t ELSE entry[g].pending_sample_at
    /\ \A g \in Gens, u \in Samples :
          /\ sending'[g][u] >= sending[g][u]
          /\ g # e => sending'[g][u] = sending[g][u]
    /\ NeedsSend(e, t) => sending'[e][t] > 0

\* The types of the parts that a read changes.
ReadTypes ==
    /\ entry' \in [Gens -> Entry]
    /\ state_snapshots' \in [Configs -> Snapshot \cup {None}]
    /\ sending' \in [Gens -> [Samples -> 0..MaxInFlight]]
    /\ heartbeats' \in [Configs -> 0..MaxInFlight]
    /\ recent_events' \in [Configs -> [latest: Event, repeated: BOOLEAN]]

LEMMA PollOnceOkFacts ==
    ASSUME TypeOK, NEW c \in Configs, NEW e \in Gens, NEW t \in Samples, Born(e),
           NEW was_offline, PollOnceOk(c, e, was_offline, t)
    PROVE  ReadTypes /\ Stores(e, t)
<1>1. UpdateStateSnapshot(c, e, t)
  BY DEF PollOnceOk
<1>2. registry[c] \in Gens \cup {None} /\ "online" \in Health
  BY DEF TypeOK, Health
<1>3. recent_events' \in [Configs -> [latest: Event, repeated: BOOLEAN]]
  <2>1. CASE recent_events' = recent_events
    BY <2>1 DEF TypeOK
  <2>2. CASE AppendEvent(c, "recovered")
    BY <2>2, AppendEventType DEF Event
  <2> QED BY <2>1, <2>2 DEF PollOnceOk
<1>4. CASE registry[c] = None
  <2>1. entry' = Marked(e, t)
    BY <1>4 DEF PollOnceOk, Registered
  <2> QED BY <1>1, <1>3, <2>1, MarkedFacts, SnapshotFacts DEF ReadTypes, Stores
<1>5. CASE registry[c] # None
  <2>1. entry' = WithHealth(Marked(e, t), registry[c], "online") /\ registry[c] \in Gens
    BY <1>2, <1>5 DEF PollOnceOk, Registered
  <2>2. Marked(e, t) \in [Gens -> Entry]
    BY MarkedFacts
  <2>3. /\ entry' \in [Gens -> Entry]
        /\ \A g \in Gens :
              /\ entry'[g].config_id = Marked(e, t)[g].config_id
              /\ entry'[g].serial_number = Marked(e, t)[g].serial_number
              /\ entry'[g].pending_sample_at = Marked(e, t)[g].pending_sample_at
              /\ entry'[g].last_delivered_sample_at = Marked(e, t)[g].last_delivered_sample_at
    BY <1>2, <2>1, <2>2, WithHealthFacts
  <2> QED BY <1>1, <1>3, <2>3, MarkedFacts, SnapshotFacts DEF ReadTypes, Stores
<1> QED BY <1>4, <1>5

LEMMA PollOnceFailsFacts ==
    ASSUME TypeOK, RegistryRefs, NEW c \in Configs, PollOnceFails(c)
    PROVE  ReadTypes /\ EntriesKept /\ sending' = sending
<1>1. sending' = sending /\ heartbeats' = heartbeats
  BY DEF PollOnceFails
<1>2. registry[c] \in Gens \cup {None} /\ "offline" \in Health
  BY DEF TypeOK, Health
<1>3. recent_events' \in [Configs -> [latest: Event, repeated: BOOLEAN]]
  <2>1. CASE recent_events' = recent_events
    BY <2>1 DEF TypeOK
  <2>2. CASE AppendEvent(c, "failed")
    BY <2>2, AppendEventType DEF Event
  <2> QED BY <2>1, <2>2 DEF PollOnceFails
<1>4. CASE registry[c] = None
  <2>1. entry' = entry /\ state_snapshots' = state_snapshots
    BY <1>4 DEF PollOnceFails, Registered
  <2> QED BY <1>1, <1>3, <2>1 DEF TypeOK, ReadTypes, EntriesKept
<1>5. CASE registry[c] # None
  <2>1. /\ entry' = WithHealth(entry, registry[c], "offline") /\ registry[c] \in Gens
        /\ state_snapshots' = Shown(c, entry[registry[c]].serial_number, FALSE)
    BY <1>2, <1>5 DEF PollOnceFails, Registered
  <2>2. entry \in [Gens -> Entry]
    BY DEF TypeOK
  <2>3. entry' \in [Gens -> Entry] /\ EntriesKept
    BY <1>2, <2>1, <2>2, WithHealthFacts DEF EntriesKept
  <2>4. entry[registry[c]].serial_number \in Serials
    BY <1>5 DEF RegistryRefs, Born
  <2>5. state_snapshots' \in [Configs -> Snapshot \cup {None}]
    BY <2>1, <2>4, ShownType
  <2> QED BY <1>1, <1>3, <2>3, <2>5 DEF TypeOK, ReadTypes
<1> QED BY <1>4, <1>5

-----------------------------------------------------------------------------
(* The type invariant: TypeOK is not inductive alone, since a step uses what  *)
(* Refs says of the references it follows.                                    *)

LEMMA KeptBorn ==
    ASSUME TypeOK, Kept
    PROVE  \A g \in Gens : Born(g) => Born(g)'
BY DEF TypeOK, Kept, Born

LEMMA EntriesKeptKept ==
    ASSUME \/ EntriesKept
           \/ \E e \in Gens, t \in Samples : Stores(e, t)
    PROVE  Kept
BY DEF EntriesKept, Stores, Kept

\* The task in a slot has an entry dict.
LEMMA SlotBorn ==
    ASSUME TypeInv
    PROVE  \A c \in Configs : poll_tasks[c] # None =>
              poll_tasks[c] \in Gens /\ Born(poll_tasks[c])
BY DEF TypeInv, TypeOK, Refs, TaskRefs, SlotIsLive, Live

\* Every reference but those of the parts that changed stays good.
LEMMA RefsKept ==
    ASSUME TypeInv, Kept
    PROVE  /\ registry' = registry => RegistryRefs'
           /\ task' = task => TaskRefs'
           /\ worker' = worker => WorkerRefs'
           /\ sending' = sending => DeliveryRefs'
           /\ poll_tasks' = poll_tasks /\ task' = task => SlotIsLive'
           /\ \A c \in Configs : registry'[c] = registry[c] /\ registry[c] # None =>
                 Born(registry[c])' /\ entry'[registry'[c]].config_id = c
<1> USE KeptBorn DEF TypeInv, Refs
<1>1. registry' = registry => RegistryRefs'
  BY DEF TypeOK, RegistryRefs, Kept, Born
<1>2. task' = task => TaskRefs'
  BY DEF TypeOK, TaskRefs, Kept, Born
<1>3. worker' = worker => WorkerRefs'
  BY DEF TypeOK, WorkerRefs, Kept, Born
<1>4. sending' = sending => DeliveryRefs'
  BY DEF TypeOK, DeliveryRefs, Kept, Born
<1>5. \A c \in Configs : registry'[c] = registry[c] /\ registry[c] # None =>
         Born(registry[c])' /\ entry'[registry'[c]].config_id = c
  BY DEF TypeOK, RegistryRefs, Kept, Born
<1>6. poll_tasks' = poll_tasks /\ task' = task => SlotIsLive'
  BY SlotBorn DEF TypeOK, SlotIsLive, Live, Kept
<1> QED BY <1>1, <1>2, <1>3, <1>4, <1>5, <1>6

\* One request moved, to a place where its references are good.
LEMMA WorkerMoves ==
    ASSUME TypeInv, Kept, NEW w \in Workers,
           \A v \in Workers : v # w => worker'[v] = worker[v],
           worker'[w].pc # "idle" => worker'[w].config_id \in Configs,
           worker'[w].pc \in {"verify", "apply_cancel"} => worker'[w].serial_number \in Serials,
           worker'[w].pc \in {"initial_read", "command_read", "refresh_read"} =>
              worker'[w].entry \in Gens /\ Born(worker[w].entry)',
           worker'[w].pc = "initial_read" =>
              entry'[worker'[w].entry].config_id = worker'[w].config_id
    PROVE  WorkerRefs'
<1> SUFFICES ASSUME NEW v \in Workers
             PROVE  /\ worker'[v].pc # "idle" => worker'[v].config_id \in Configs
                    /\ worker'[v].pc \in {"verify", "apply_cancel"} =>
                          worker'[v].serial_number \in Serials
                    /\ worker'[v].pc \in {"initial_read", "command_read", "refresh_read"} =>
                          worker'[v].entry \in Gens /\ Born(worker[v].entry)'
                    /\ worker'[v].pc = "initial_read" =>
                          entry'[worker'[v].entry].config_id = worker'[v].config_id
  BY DEF WorkerRefs
<1>1. CASE v = w
  BY <1>1
<1>2. CASE v # w
  BY <1>2, KeptBorn DEF TypeInv, TypeOK, Refs, WorkerRefs, Kept, Born
<1> QED BY <1>1, <1>2

\* One poll task moved, to a place where its references are good.
LEMMA TaskMoves ==
    ASSUME TypeInv, Kept, NEW g \in Gens,
           \A h \in Gens : h # g => task'[h] = task[h],
           Born(g)',
           task'[g].pc = "read" => task'[g].entry \in Gens /\ Born(task[g].entry)'
    PROVE  TaskRefs'
<1> SUFFICES ASSUME NEW h \in Gens
             PROVE  /\ task'[h].pc # "unborn" => Born(h)'
                    /\ task'[h].pc = "read" => task'[h].entry \in Gens /\ Born(task[h].entry)'
  BY DEF TaskRefs
<1>1. CASE h = g
  BY <1>1
<1>2. CASE h # g
  BY <1>2, KeptBorn DEF TypeInv, TypeOK, Refs, TaskRefs, Kept, Born
<1> QED BY <1>1, <1>2

\* The delivery of a stored reading is for a dict that exists.
LEMMA StoresDeliveryRefs ==
    ASSUME TypeInv, NEW e \in Gens, NEW t \in Samples, Born(e), Stores(e, t)
    PROVE  DeliveryRefs'
BY EntriesKeptKept, KeptBorn DEF TypeInv, TypeOK, Refs, DeliveryRefs, Stores

\* A live poll task that stays live, or a task that is in no slot, may move.
LEMMA SlotKept ==
    ASSUME TypeInv, Kept, poll_tasks' = poll_tasks, NEW g \in Gens,
           \A h \in Gens : h # g => task'[h] = task[h],
           Live(g) => Live(g)'
    PROVE  SlotIsLive'
BY SlotBorn DEF TypeInv, Refs, SlotIsLive, Live, Kept

\* The task popped from its slot may be cancelled.
LEMMA SlotPopped ==
    ASSUME TypeInv, Kept, NEW c \in Configs, PopAndCancel(c)
    PROVE  SlotIsLive' /\ TaskRefs'
<1>1. poll_tasks[c] \in Gens /\ Born(poll_tasks[c])
  BY SlotBorn DEF PopAndCancel
<1>2. TaskRefs'
  BY <1>1, PopAndCancelFacts, KeptBorn, TaskMoves DEF TypeInv
<1>3. SlotIsLive'
  BY <1>1, PopAndCancelFacts, SlotBorn DEF TypeInv, Refs, SlotIsLive, Live, Kept
<1> QED BY <1>2, <1>3

-----------------------------------------------------------------------------
(* One lemma per action: it preserves TypeInv, and what it does to deliveries *)

\* previous_sample_at of a request is not invented: it is dropped or kept.
PreviousKept ==
    \A v \in Workers : worker'[v].previous_sample_at # None =>
        /\ worker'[v].previous_sample_at = worker[v].previous_sample_at
        /\ worker'[v].config_id = worker[v].config_id
        /\ worker'[v].serial_number = worker[v].serial_number

\* The step neither starts nor ends a delivery, and marks nothing.
Quiet ==
    /\ EntriesKept
    /\ PreviousKept
    /\ UNCHANGED <<sending, accepted>>


LEMMA ConfigRequestStep ==
    ASSUME TypeInv, NEW w \in Configurers, NEW c \in Configs, NEW s \in Serials,
           ConfigRequest(w, c, s)
    PROVE  TypeInv' /\ Quiet
<1> DEFINE new == [Idle EXCEPT !.pc = "verify", !.config_id = c, !.serial_number = s]
<1>1. /\ new \in Worker /\ new.pc = "verify" /\ new.config_id = c
      /\ new.serial_number = s /\ new.previous_sample_at = None
  BY DEF Idle, Worker
<1>2. worker' = [worker EXCEPT ![w] = new] /\ w \in Workers
  BY DEF ConfigRequest, Workers
<1> HIDE DEF new
<1>3. /\ worker' \in [Workers -> Worker] /\ worker'[w] = new
      /\ \A v \in Workers : v # w => worker'[v] = worker[v]
  BY <1>1, <1>2 DEF TypeInv, TypeOK
<1>4. TypeOK'
  BY <1>3 DEF TypeInv, TypeOK, ConfigRequest
<1>5. EntriesKept /\ Kept
  BY EntriesKeptKept DEF ConfigRequest, EntriesKept
<1>6. WorkerRefs'
  BY <1>1, <1>2, <1>3, <1>5, WorkerMoves
<1>7. PreviousKept
  BY <1>1, <1>3 DEF PreviousKept
<1> QED BY <1>4, <1>5, <1>6, <1>7, RefsKept DEF TypeInv, Refs, Quiet, ConfigRequest

LEMMA VerifyFailsStep ==
    ASSUME TypeInv, NEW w \in Workers, VerifyFails(w)
    PROVE  TypeInv' /\ Quiet
<1>1. EntriesKept /\ Kept
  BY EntriesKeptKept DEF VerifyFails, EntriesKept
<1>2. TypeOK'
  BY AnsweredFacts DEF TypeInv, TypeOK, VerifyFails
<1>3. WorkerRefs'
  BY <1>1, AnsweredFacts, WorkerMoves DEF TypeInv, VerifyFails
<1>4. PreviousKept
  BY AnsweredFacts DEF TypeInv, VerifyFails, PreviousKept
<1> QED BY <1>1, <1>2, <1>3, <1>4, RefsKept DEF TypeInv, Refs, Quiet, VerifyFails

LEMMA VerifySucceedsPolledStep ==
    ASSUME TypeInv, NEW w \in Workers, VerifySucceedsPolled(w)
    PROVE  /\ TypeInv' /\ EntriesKept
           /\ worker'[w].pc = "apply_cancel"
           /\ worker'[w].config_id = worker[w].config_id
           /\ worker'[w].serial_number = worker[w].serial_number
           /\ worker'[w].previous_sample_at =
                 PreviousSampleAt(worker[w].config_id, worker[w].serial_number)
           /\ \A v \in Workers : v # w => worker'[v] = worker[v]
<1> DEFINE c == worker[w].config_id
           s == worker[w].serial_number
           previous == PreviousSampleAt(c, s)
           new == [worker[w] EXCEPT !.pc = "apply_cancel", !.awaited = poll_tasks[c],
                                    !.previous_sample_at = previous]
<1>1. c \in Configs /\ s \in Serials /\ worker[w].pc = "verify"
  BY DEF TypeInv, Refs, WorkerRefs, VerifySucceedsPolled
<1>2. previous \in Samples \cup {None}
  BY <1>1 DEF TypeInv, TypeOK, Refs, RegistryRefs, Entry, PreviousSampleAt, Registered
<1>3. PopAndCancel(c) /\ worker' = [worker EXCEPT ![w] = new]
  BY DEF VerifySucceedsPolled
<1> HIDE DEF previous
<1>4. /\ new \in Worker /\ new.pc = "apply_cancel" /\ new.config_id = c
      /\ new.serial_number = s /\ new.previous_sample_at = previous
  <2>1. worker[w] \in Worker /\ poll_tasks[c] \in Gens
    BY <1>1, <1>3, PopAndCancelFacts DEF TypeInv, TypeOK
  <2> HIDE DEF c, s
  <2>2. worker[w].config_id = c /\ worker[w].serial_number = s
    BY DEF c, s
  <2> QED BY <1>2, <2>1, <2>2 DEF Worker
<1> HIDE DEF c, s, new
<1>5. /\ worker' \in [Workers -> Worker] /\ worker'[w] = new
      /\ \A v \in Workers : v # w => worker'[v] = worker[v]
  BY <1>3, <1>4 DEF TypeInv, TypeOK
<1>6. TypeOK'
  BY <1>1, <1>3, <1>5, PopAndCancelFacts DEF TypeInv, TypeOK, VerifySucceedsPolled
<1>7. EntriesKept /\ Kept
  BY EntriesKeptKept DEF VerifySucceedsPolled, EntriesKept
<1>8. WorkerRefs'
  BY <1>1, <1>4, <1>5, <1>7, WorkerMoves
<1>9. TaskRefs' /\ SlotIsLive'
  BY <1>1, <1>3, <1>7, SlotPopped
<1>10. previous = PreviousSampleAt(c, s)
  BY DEF previous
<1> QED BY <1>1, <1>4, <1>5, <1>6, <1>7, <1>8, <1>9, <1>10, RefsKept
        DEF TypeInv, Refs, VerifySucceedsPolled, c, s

\* VerifySucceeds and ApplyResumes.
LEMMA RegisterStep ==
    ASSUME TypeInv, NEW w \in Workers, NEW g \in Gens, NEW c \in Configs, NEW s \in Serials,
           NEW previous \in Samples \cup {None}, Register(w, c, s, previous, g),
           UNCHANGED <<poll_tasks, task, sending, heartbeats, accepted>>
    PROVE  TypeInv'
<1>1. TypeOK'
  BY RegisterFacts DEF TypeInv, TypeOK
<1>2. Kept
  BY RegisterFacts DEF TypeInv, Kept
<1>3. Born(g)' /\ entry'[g].config_id = c
  BY RegisterFacts DEF TypeInv, Born
<1>4. WorkerRefs'
  BY <1>2, <1>3, RegisterFacts, WorkerMoves DEF TypeInv
<1>5. RegistryRefs'
  <2> SUFFICES ASSUME NEW d \in Configs, registry'[d] # None
               PROVE  Born(registry[d])' /\ entry'[registry'[d]].config_id = d
    BY DEF RegistryRefs
  <2>1. CASE d = c
    BY <1>3, <2>1, RegisterFacts DEF TypeInv, Born
  <2>2. CASE d # c
    BY <1>2, <2>2, RegisterFacts, RefsKept DEF TypeInv, Born
  <2> QED BY <2>1, <2>2
<1> QED BY <1>1, <1>2, <1>4, <1>5, RefsKept DEF TypeInv, Refs

LEMMA VerifySucceedsStep ==
    ASSUME TypeInv, NEW w \in Workers, NEW g \in Gens, VerifySucceeds(w, g)
    PROVE  TypeInv'
<1> DEFINE c == worker[w].config_id
           s == worker[w].serial_number
<1>1. c \in Configs /\ s \in Serials
  BY DEF TypeInv, Refs, WorkerRefs, VerifySucceeds
<1>2. PreviousSampleAt(c, s) \in Samples \cup {None}
  BY <1>1 DEF TypeInv, TypeOK, Refs, RegistryRefs, Entry, PreviousSampleAt, Registered
<1>3. /\ Register(w, c, s, PreviousSampleAt(c, s), g)
      /\ UNCHANGED <<poll_tasks, task, sending, heartbeats, accepted>>
  BY DEF VerifySucceeds
<1> HIDE DEF c, s
<1> QED BY <1>1, <1>2, <1>3, RegisterStep

LEMMA ApplyResumesStep ==
    ASSUME TypeInv, NEW w \in Workers, NEW g \in Gens, ApplyResumes(w, g)
    PROVE  TypeInv'
<1> DEFINE c == worker[w].config_id
           s == worker[w].serial_number
           previous == worker[w].previous_sample_at
<1>1. c \in Configs /\ s \in Serials /\ previous \in Samples \cup {None}
  BY DEF TypeInv, TypeOK, Worker, Refs, WorkerRefs, ApplyResumes
<1>2. /\ Register(w, c, s, previous, g)
      /\ UNCHANGED <<poll_tasks, task, sending, heartbeats, accepted>>
  BY DEF ApplyResumes
<1> HIDE DEF c, s, previous
<1> QED BY <1>1, <1>2, RegisterStep

LEMMA InitialReadOkStep ==
    ASSUME TypeInv, NEW w \in Workers, NEW t \in Samples, InitialReadOk(w, t)
    PROVE  /\ TypeInv' /\ PreviousKept /\ accepted' = accepted
           /\ \E e \in Gens : Stores(e, t)
<1> DEFINE c == worker[w].config_id
           e == worker[w].entry
<1>1. c \in Configs /\ e \in Gens /\ Born(e) /\ entry[e].config_id = c
  BY DEF TypeInv, Refs, WorkerRefs, InitialReadOk
<1>2. /\ UpdateStateSnapshot(c, e, t)
      /\ entry' = WithHealth(Marked(e, t), e, "online")
      /\ StartPolling(c, e)
      /\ poll_status' = poll_status \cup {c}
      /\ Answered(w)
      /\ UNCHANGED <<registry, recent_events, accepted>>
  BY DEF InitialReadOk
<1> HIDE DEF c, e
<1>3. entry' \in [Gens -> Entry] /\ Stores(e, t)
  <2>1. "online" \in Health /\ Marked(e, t) \in [Gens -> Entry]
    BY <1>1, MarkedFacts DEF Health, TypeInv
  <2>2. /\ entry' \in [Gens -> Entry]
        /\ \A g \in Gens :
              /\ entry'[g].config_id = Marked(e, t)[g].config_id
              /\ entry'[g].serial_number = Marked(e, t)[g].serial_number
              /\ entry'[g].pending_sample_at = Marked(e, t)[g].pending_sample_at
              /\ entry'[g].last_delivered_sample_at = Marked(e, t)[g].last_delivered_sample_at
    BY <1>1, <1>2, <2>1, WithHealthFacts
  <2> QED BY <1>1, <1>2, <2>2, MarkedFacts, SnapshotFacts DEF TypeInv, Stores
<1>4. TypeOK'
  BY <1>1, <1>2, <1>3, SnapshotFacts, StartPollingFacts, AnsweredFacts DEF TypeInv, TypeOK
<1>5. Kept
  BY <1>1, <1>3, EntriesKeptKept
<1>6. WorkerRefs' /\ PreviousKept
  BY <1>2, <1>5, AnsweredFacts, WorkerMoves DEF TypeInv, PreviousKept
<1>7. TaskRefs'
  BY <1>1, <1>2, <1>5, StartPollingFacts, KeptBorn, TaskMoves DEF TypeInv
<1>8. SlotIsLive'
  BY <1>1, <1>2, <1>5, StartPollingFacts, SlotBorn DEF TypeInv, Refs, SlotIsLive, Live, Kept
<1>9. DeliveryRefs'
  BY <1>1, <1>3, StoresDeliveryRefs
<1> QED BY <1>1, <1>2, <1>3, <1>4, <1>5, <1>6, <1>7, <1>8, <1>9, RefsKept DEF TypeInv, Refs

LEMMA InitialReadFailsStep ==
    ASSUME TypeInv, NEW w \in Workers, InitialReadFails(w)
    PROVE  TypeInv' /\ Quiet
<1> DEFINE c == worker[w].config_id
           e == worker[w].entry
<1>1. /\ c \in Configs /\ e \in Gens /\ Born(e) /\ entry[e].config_id = c
      /\ entry[e].serial_number \in Serials
  BY DEF TypeInv, Refs, WorkerRefs, InitialReadFails, Born
<1>2. /\ state_snapshots' = Shown(c, entry[e].serial_number, FALSE)
      /\ entry' = WithHealth(entry, e, "offline")
      /\ poll_status' \in {poll_status, poll_status \cup {c}}
      /\ AppendEvent(c, "initial_failed")
      /\ StartPolling(c, e)
      /\ Answered(w)
      /\ UNCHANGED <<registry, sending, heartbeats, accepted>>
  BY DEF InitialReadFails
<1> HIDE DEF c, e
<1>3. entry' \in [Gens -> Entry] /\ EntriesKept
  <2>1. "offline" \in Health /\ entry \in [Gens -> Entry]
    BY DEF Health, TypeInv, TypeOK
  <2> QED BY <1>1, <1>2, <2>1, WithHealthFacts DEF EntriesKept
<1>4. TypeOK'
  <2>1. state_snapshots' \in [Configs -> Snapshot \cup {None}]
    BY <1>1, <1>2, ShownType DEF TypeInv
  <2>2. recent_events' \in [Configs -> [latest: Event, repeated: BOOLEAN]]
    BY <1>1, <1>2, AppendEventType DEF TypeInv, Event
  <2> QED BY <1>1, <1>2, <1>3, <2>1, <2>2, StartPollingFacts, AnsweredFacts DEF TypeInv, TypeOK
<1>5. Kept
  BY <1>3, EntriesKeptKept
<1>6. WorkerRefs' /\ PreviousKept
  BY <1>2, <1>5, AnsweredFacts, WorkerMoves DEF TypeInv, PreviousKept
<1>7. TaskRefs'
  BY <1>1, <1>2, <1>5, StartPollingFacts, KeptBorn, TaskMoves DEF TypeInv
<1>8. SlotIsLive'
  BY <1>1, <1>2, <1>5, StartPollingFacts, SlotBorn DEF TypeInv, Refs, SlotIsLive, Live, Kept
<1> QED BY <1>2, <1>3, <1>4, <1>5, <1>6, <1>7, <1>8, RefsKept DEF TypeInv, Refs, Quiet

LEMMA DeconfigureStep ==
    ASSUME TypeInv, NEW w \in Configurers, NEW c \in Configs, Deconfigure(w, c)
    PROVE  TypeInv' /\ Quiet
<1>1. EntriesKept /\ Kept /\ PreviousKept
  BY EntriesKeptKept DEF Deconfigure, EntriesKept, PreviousKept
<1>2. FinishRemove(c)
  BY DEF Deconfigure
<1>3. TypeOK'
  BY <1>2, FinishRemoveFacts DEF TypeInv, TypeOK, Deconfigure
<1>4. RegistryRefs'
  BY <1>1, <1>2, FinishRemoveFacts, RefsKept DEF TypeInv, RegistryRefs, Born
<1> QED BY <1>1, <1>3, <1>4, RefsKept DEF TypeInv, Refs, Quiet, Deconfigure

LEMMA DeconfigurePolledStep ==
    ASSUME TypeInv, NEW w \in Configurers, NEW c \in Configs, DeconfigurePolled(w, c)
    PROVE  /\ TypeInv' /\ Quiet
           /\ worker'[w].pc = "remove_cancel" /\ worker'[w].config_id = c
           /\ \A v \in Workers : v # w => worker'[v] = worker[v]
<1> DEFINE new == [Idle EXCEPT !.pc = "remove_cancel",
                               !.config_id = c, !.awaited = poll_tasks[c]]
<1>1. PopAndCancel(c) /\ worker' = [worker EXCEPT ![w] = new] /\ w \in Workers
  BY DEF DeconfigurePolled, Workers
<1>2. /\ new \in Worker /\ new.pc = "remove_cancel" /\ new.config_id = c
      /\ new.previous_sample_at = None
  BY <1>1, PopAndCancelFacts DEF TypeInv, Idle, Worker
<1> HIDE DEF new
<1>3. /\ worker' \in [Workers -> Worker] /\ worker'[w] = new
      /\ \A v \in Workers : v # w => worker'[v] = worker[v]
  BY <1>1, <1>2 DEF TypeInv, TypeOK
<1>4. EntriesKept /\ Kept /\ PreviousKept
  BY <1>2, <1>3, EntriesKeptKept DEF DeconfigurePolled, EntriesKept, PreviousKept
<1>5. TypeOK'
  BY <1>1, <1>3, PopAndCancelFacts DEF TypeInv, TypeOK, DeconfigurePolled
<1>6. WorkerRefs'
  BY <1>1, <1>2, <1>3, <1>4, WorkerMoves
<1>7. TaskRefs' /\ SlotIsLive'
  BY <1>1, <1>4, SlotPopped
<1> QED BY <1>2, <1>3, <1>4, <1>5, <1>6, <1>7, RefsKept
        DEF TypeInv, Refs, Quiet, DeconfigurePolled

LEMMA RemoveResumesStep ==
    ASSUME TypeInv, NEW w \in Workers, RemoveResumes(w)
    PROVE  TypeInv' /\ Quiet
<1> DEFINE c == worker[w].config_id
<1>1. c \in Configs /\ FinishRemove(c) /\ Answered(w)
  BY DEF TypeInv, Refs, WorkerRefs, RemoveResumes
<1> HIDE DEF c
<1>2. EntriesKept /\ Kept /\ PreviousKept
  BY <1>1, AnsweredFacts, EntriesKeptKept DEF TypeInv, RemoveResumes, EntriesKept, PreviousKept
<1>3. TypeOK'
  BY <1>1, FinishRemoveFacts, AnsweredFacts DEF TypeInv, TypeOK, RemoveResumes
<1>4. RegistryRefs'
  BY <1>1, <1>2, FinishRemoveFacts, RefsKept DEF TypeInv, RegistryRefs, Born
<1>5. WorkerRefs'
  BY <1>1, <1>2, AnsweredFacts, WorkerMoves DEF TypeInv
<1> QED BY <1>2, <1>3, <1>4, <1>5, RefsKept DEF TypeInv, Refs, Quiet, RemoveResumes

\* TaskStart, PollStart and TaskStops: one task moves, and poll_status grows.
LEMMA TaskOnlyStep ==
    ASSUME TypeInv, NEW g \in Gens, NEW new \in Task, Born(g),
           task' = [task EXCEPT ![g] = new],
           new.pc = "read" => new.entry \in Gens /\ Born(new.entry),
           Live(g) => new.pc \in {"start", "sleep", "read"},
           poll_status' \subseteq Configs,
           UNCHANGED <<registry, poll_tasks, state_snapshots, entry, worker, sending,
                       heartbeats, recent_events, accepted>>
    PROVE  TypeInv' /\ Quiet
<1>1. EntriesKept /\ Kept /\ PreviousKept
  BY EntriesKeptKept DEF EntriesKept, PreviousKept
<1>2. /\ task' \in [Gens -> Task] /\ task'[g] = new
      /\ \A h \in Gens : h # g => task'[h] = task[h]
  BY DEF TypeInv, TypeOK
<1>3. TypeOK'
  BY <1>2 DEF TypeInv, TypeOK
<1>4. TaskRefs'
  <2>1. Born(g)' /\ (task'[g].pc = "read" => task'[g].entry \in Gens /\ Born(task[g].entry)')
    BY <1>2 DEF Born
  <2> QED BY <1>1, <1>2, <2>1, TaskMoves
<1>5. SlotIsLive'
  BY <1>1, <1>2, SlotKept DEF Live
<1> QED BY <1>1, <1>3, <1>4, <1>5, RefsKept DEF TypeInv, Refs, Quiet

LEMMA TaskStartStep ==
    ASSUME TypeInv, NEW g \in Gens, TaskStart(g)
    PROVE  TypeInv' /\ Quiet
<1> DEFINE new == [task[g] EXCEPT !.pc = "sleep"]
<1>1. Born(g) /\ entry[g].config_id \in Configs
  BY DEF TypeInv, Refs, TaskRefs, TaskStart, Born
<1>2. new \in Task /\ new.pc = "sleep"
  BY DEF TypeInv, TypeOK, Task
<1>3. task' = [task EXCEPT ![g] = new] /\ poll_status' \subseteq Configs
  BY <1>1 DEF TaskStart, TypeInv, TypeOK
<1> HIDE DEF new
<1> QED BY <1>1, <1>2, <1>3, TaskOnlyStep DEF TaskStart

LEMMA PollStartStep ==
    ASSUME TypeInv, NEW g \in Gens, PollStart(g)
    PROVE  TypeInv' /\ Quiet
<1> DEFINE c == entry[g].config_id
           new == [pc |-> "read", entry |-> registry[c], was_offline |-> Offline(c)]
<1>1. Born(g) /\ c \in Configs
  BY DEF TypeInv, Refs, TaskRefs, PollStart, Born
<1>2. registry[c] \in Gens /\ Born(registry[c])
  BY <1>1 DEF TypeInv, TypeOK, Refs, RegistryRefs, PollStart, Registered
<1>3. new \in Task /\ new.pc = "read" /\ new.entry = registry[c]
  BY <1>2 DEF Task, Offline
<1>4. task' = [task EXCEPT ![g] = new] /\ poll_status' \subseteq Configs
  BY <1>1 DEF PollStart, TypeInv, TypeOK
<1> HIDE DEF new, c
<1> QED BY <1>1, <1>2, <1>3, <1>4, TaskOnlyStep DEF PollStart

LEMMA PollSkipStep ==
    ASSUME TypeInv, NEW g \in Gens, PollSkip(g)
    PROVE  TypeInv' /\ Quiet
<1>1. entry[g].config_id \in Configs
  BY DEF TypeInv, Refs, TaskRefs, PollSkip, Born
<1>2. TypeOK'
  BY <1>1 DEF TypeInv, TypeOK, PollSkip
<1>3. EntriesKept /\ Kept /\ PreviousKept
  BY EntriesKeptKept DEF PollSkip, EntriesKept, PreviousKept
<1> QED BY <1>2, <1>3, RefsKept DEF TypeInv, Refs, Quiet, PollSkip

LEMMA TaskStopsStep ==
    ASSUME TypeInv, NEW g \in Gens, TaskStops(g)
    PROVE  TypeInv' /\ Quiet
<1>1. Born(g) /\ ~Live(g)
  BY DEF TypeInv, Refs, TaskRefs, TaskStops, Live
<1>2. AtPc("stopped") \in Task /\ AtPc("stopped").pc = "stopped"
  BY DEF AtPc, Task
<1> QED BY <1>1, <1>2, TaskOnlyStep DEF TaskStops, TypeInv, TypeOK

\* A poll task back from its read, well or badly.
LEMMA TaskSleeps ==
    ASSUME TypeInv, Kept, NEW g \in Gens, Born(g), task[g].pc = "read",
           task' = [task EXCEPT ![g] = AtPc("sleep")], poll_tasks' = poll_tasks
    PROVE  task' \in [Gens -> Task] /\ TaskRefs' /\ SlotIsLive'
<1>1. AtPc("sleep") \in Task /\ AtPc("sleep").pc = "sleep"
  BY DEF AtPc, Task
<1>2. /\ task' \in [Gens -> Task] /\ task'[g].pc = "sleep"
      /\ \A h \in Gens : h # g => task'[h] = task[h]
  BY <1>1 DEF TypeInv, TypeOK
<1>3. TaskRefs'
  BY <1>2, KeptBorn, TaskMoves DEF TypeInv
<1>4. SlotIsLive'
  BY <1>2, SlotKept DEF Live
<1> QED BY <1>2, <1>3, <1>4

LEMMA PollReadOkStep ==
    ASSUME TypeInv, NEW g \in Gens, NEW t \in Samples, PollReadOk(g, t)
    PROVE  /\ TypeInv' /\ PreviousKept /\ accepted' = accepted
           /\ \E e \in Gens : Stores(e, t)
<1> DEFINE c == entry[g].config_id
           e == task[g].entry
<1>1. Born(g) /\ c \in Configs /\ e \in Gens /\ Born(e)
  BY DEF TypeInv, Refs, TaskRefs, PollReadOk, Born
<1>2. /\ PollOnceOk(c, e, task[g].was_offline, t)
      /\ poll_status' = poll_status \cup {c}
  BY DEF PollReadOk
<1> HIDE DEF c, e
<1>3. ReadTypes /\ Stores(e, t)
  BY <1>1, <1>2, PollOnceOkFacts DEF TypeInv
<1>4. Kept
  BY <1>1, <1>3, EntriesKeptKept
<1>5. task' \in [Gens -> Task] /\ TaskRefs' /\ SlotIsLive'
  BY <1>1, <1>4, TaskSleeps DEF PollReadOk
<1>6. TypeOK'
  BY <1>1, <1>2, <1>3, <1>5 DEF TypeInv, TypeOK, ReadTypes, PollReadOk
<1>7. DeliveryRefs'
  BY <1>1, <1>3, StoresDeliveryRefs
<1>8. PreviousKept
  BY DEF PreviousKept, PollReadOk
<1> QED BY <1>1, <1>3, <1>4, <1>5, <1>6, <1>7, <1>8, RefsKept DEF TypeInv, Refs, PollReadOk

LEMMA PollReadFailsStep ==
    ASSUME TypeInv, NEW g \in Gens, PollReadFails(g)
    PROVE  TypeInv' /\ Quiet
<1> DEFINE c == entry[g].config_id
<1>1. Born(g) /\ c \in Configs
  BY DEF TypeInv, Refs, TaskRefs, PollReadFails, Born
<1>2. PollOnceFails(c) /\ poll_status' = poll_status \cup {c}
  BY DEF PollReadFails
<1> HIDE DEF c
<1>3. ReadTypes /\ EntriesKept /\ sending' = sending
  BY <1>1, <1>2, PollOnceFailsFacts DEF TypeInv, Refs
<1>4. Kept
  BY <1>3, EntriesKeptKept
<1>5. task' \in [Gens -> Task] /\ TaskRefs' /\ SlotIsLive'
  BY <1>1, <1>4, TaskSleeps DEF PollReadFails
<1>6. TypeOK'
  BY <1>1, <1>2, <1>3, <1>5 DEF TypeInv, TypeOK, ReadTypes, PollReadFails
<1>7. PreviousKept
  BY DEF PreviousKept, PollReadFails
<1> QED BY <1>3, <1>4, <1>5, <1>6, <1>7, RefsKept DEF TypeInv, Refs, Quiet, PollReadFails

\* CommandRequest and RefreshRequest.
LEMMA ReadRequestStep ==
    ASSUME TypeInv, NEW w \in Workers, NEW c \in Configs, Registered(c), NEW new \in Worker,
           worker' = [worker EXCEPT ![w] = new],
           new.pc \in {"command_read", "refresh_read"},
           new.config_id = c, new.entry = registry[c], new.previous_sample_at = None,
           poll_status' = poll_status \cup {c},
           UNCHANGED <<registry, poll_tasks, state_snapshots, entry, task, sending,
                       heartbeats, recent_events, accepted>>
    PROVE  TypeInv' /\ Quiet
<1>1. /\ worker' \in [Workers -> Worker] /\ worker'[w] = new
      /\ \A v \in Workers : v # w => worker'[v] = worker[v]
  BY DEF TypeInv, TypeOK
<1>2. TypeOK'
  BY <1>1 DEF TypeInv, TypeOK
<1>3. EntriesKept /\ Kept /\ PreviousKept
  BY <1>1, EntriesKeptKept DEF EntriesKept, PreviousKept
<1>4. WorkerRefs'
  <2>1. worker'[w].entry \in Gens /\ Born(worker[w].entry)'
    BY <1>1 DEF TypeInv, TypeOK, Refs, RegistryRefs, Registered, Born
  <2> QED BY <1>1, <1>3, <2>1, WorkerMoves
<1> QED BY <1>2, <1>3, <1>4, RefsKept DEF TypeInv, Refs, Quiet

LEMMA CommandRequestStep ==
    ASSUME TypeInv, NEW w \in Commanders, NEW c \in Configs, CommandRequest(w, c)
    PROVE  TypeInv' /\ Quiet
<1> DEFINE new == [Idle EXCEPT !.pc = "command_read", !.config_id = c, !.entry = registry[c]]
<1>1. /\ new \in Worker /\ new.pc = "command_read" /\ new.config_id = c
      /\ new.entry = registry[c] /\ new.previous_sample_at = None
  BY DEF TypeInv, TypeOK, Idle, Worker
<1>2. worker' = [worker EXCEPT ![w] = new] /\ w \in Workers /\ Registered(c)
  BY DEF CommandRequest, Workers
<1> HIDE DEF new
<1> QED BY <1>1, <1>2, ReadRequestStep DEF CommandRequest

LEMMA RefreshRequestStep ==
    ASSUME TypeInv, NEW w \in Refreshers, NEW c \in Configs, RefreshRequest(w, c)
    PROVE  TypeInv' /\ Quiet
<1> DEFINE new == [Idle EXCEPT !.pc = "refresh_read", !.config_id = c,
                               !.entry = registry[c], !.was_offline = Offline(c)]
<1>1. /\ new \in Worker /\ new.pc = "refresh_read" /\ new.config_id = c
      /\ new.entry = registry[c] /\ new.previous_sample_at = None
  BY DEF TypeInv, TypeOK, Idle, Worker, Offline
<1>2. worker' = [worker EXCEPT ![w] = new] /\ w \in Workers /\ Registered(c)
  BY DEF RefreshRequest, Workers
<1> HIDE DEF new
<1> QED BY <1>1, <1>2, ReadRequestStep DEF RefreshRequest

LEMMA CommandReadOkStep ==
    ASSUME TypeInv, NEW w \in Workers, NEW t \in Samples, CommandReadOk(w, t)
    PROVE  /\ TypeInv' /\ PreviousKept /\ accepted' = accepted
           /\ \E e \in Gens : Stores(e, t)
<1> DEFINE c == worker[w].config_id
           e == worker[w].entry
<1>1. c \in Configs /\ e \in Gens /\ Born(e)
  BY DEF TypeInv, Refs, WorkerRefs, CommandReadOk
<1>2. /\ UpdateStateSnapshot(c, e, t)
      /\ entry' = Marked(e, t)
      /\ poll_status' = poll_status \cup {c}
      /\ Answered(w)
      /\ UNCHANGED <<registry, poll_tasks, task, recent_events, accepted>>
  BY DEF CommandReadOk
<1> HIDE DEF c, e
<1>3. entry' \in [Gens -> Entry] /\ Stores(e, t)
  BY <1>1, <1>2, MarkedFacts, SnapshotFacts DEF TypeInv, Stores
<1>4. TypeOK'
  BY <1>1, <1>2, <1>3, SnapshotFacts, AnsweredFacts DEF TypeInv, TypeOK
<1>5. Kept
  BY <1>1, <1>3, EntriesKeptKept
<1>6. WorkerRefs' /\ PreviousKept
  BY <1>2, <1>5, AnsweredFacts, WorkerMoves DEF TypeInv, PreviousKept
<1>7. DeliveryRefs'
  BY <1>1, <1>3, StoresDeliveryRefs
<1> QED BY <1>1, <1>2, <1>3, <1>4, <1>5, <1>6, <1>7, RefsKept DEF TypeInv, Refs

LEMMA CommandReadFailsStep ==
    ASSUME TypeInv, NEW w \in Workers, CommandReadFails(w)
    PROVE  TypeInv' /\ Quiet
<1>1. Answered(w) /\ worker[w].config_id \in Configs
  BY DEF TypeInv, Refs, WorkerRefs, CommandReadFails
<1>2. EntriesKept /\ Kept /\ PreviousKept
  BY <1>1, AnsweredFacts, EntriesKeptKept
     DEF TypeInv, CommandReadFails, EntriesKept, PreviousKept
<1>3. TypeOK'
  BY <1>1, AnsweredFacts DEF TypeInv, TypeOK, CommandReadFails
<1>4. WorkerRefs'
  BY <1>1, <1>2, AnsweredFacts, WorkerMoves DEF TypeInv
<1> QED BY <1>2, <1>3, <1>4, RefsKept DEF TypeInv, Refs, Quiet, CommandReadFails

LEMMA RefreshReadOkStep ==
    ASSUME TypeInv, NEW w \in Workers, NEW t \in Samples, RefreshReadOk(w, t)
    PROVE  /\ TypeInv' /\ PreviousKept /\ accepted' = accepted
           /\ \E e \in Gens : Stores(e, t)
<1> DEFINE c == worker[w].config_id
           e == worker[w].entry
<1>1. c \in Configs /\ e \in Gens /\ Born(e)
  BY DEF TypeInv, Refs, WorkerRefs, RefreshReadOk
<1>2. /\ PollOnceOk(c, e, worker[w].was_offline, t)
      /\ poll_status' = poll_status \cup {c}
      /\ Answered(w)
      /\ UNCHANGED <<registry, poll_tasks, task, accepted>>
  BY DEF RefreshReadOk
<1> HIDE DEF c, e
<1>3. ReadTypes /\ Stores(e, t)
  BY <1>1, <1>2, PollOnceOkFacts DEF TypeInv
<1>4. Kept
  BY <1>1, <1>3, EntriesKeptKept
<1>5. TypeOK'
  BY <1>1, <1>2, <1>3, AnsweredFacts DEF TypeInv, TypeOK, ReadTypes
<1>6. WorkerRefs' /\ PreviousKept
  BY <1>2, <1>4, AnsweredFacts, WorkerMoves DEF TypeInv, PreviousKept
<1>7. DeliveryRefs'
  BY <1>1, <1>3, StoresDeliveryRefs
<1> QED BY <1>1, <1>2, <1>3, <1>4, <1>5, <1>6, <1>7, RefsKept DEF TypeInv, Refs

LEMMA RefreshReadFailsStep ==
    ASSUME TypeInv, NEW w \in Workers, RefreshReadFails(w)
    PROVE  TypeInv' /\ Quiet
<1> DEFINE c == worker[w].config_id
<1>1. c \in Configs
  BY DEF TypeInv, Refs, WorkerRefs, RefreshReadFails
<1>2. /\ PollOnceFails(c)
      /\ poll_status' \in {poll_status, poll_status \cup {c}}
      /\ Answered(w)
      /\ UNCHANGED <<registry, poll_tasks, task, accepted>>
  BY DEF RefreshReadFails
<1> HIDE DEF c
<1>3. ReadTypes /\ EntriesKept /\ sending' = sending
  BY <1>1, <1>2, PollOnceFailsFacts DEF TypeInv, Refs
<1>4. Kept
  BY <1>3, EntriesKeptKept
<1>5. TypeOK'
  BY <1>1, <1>2, <1>3, AnsweredFacts DEF TypeInv, TypeOK, ReadTypes
<1>6. WorkerRefs' /\ PreviousKept
  BY <1>2, <1>4, AnsweredFacts, WorkerMoves DEF TypeInv, PreviousKept
<1> QED BY <1>2, <1>3, <1>4, <1>5, <1>6, RefsKept DEF TypeInv, Refs, Quiet

LEMMA MeasurementDoneStep ==
    ASSUME TypeInv, NEW g \in Gens, NEW t \in Samples, NEW outcome \in DeliveryOutcomes,
           MeasurementDone(g, t, outcome)
    PROVE  TypeInv' /\ Kept
<1> DEFINE delivered == outcome = "acknowledged"
<1>1. /\ sending[g][t] > 0 /\ Born(g)
      /\ sending' = [sending EXCEPT ![g][t] = @ - 1]
      /\ entry' = Recorded(g, t, delivered) /\ delivered \in BOOLEAN
  BY DEF TypeInv, Refs, DeliveryRefs, MeasurementDone
<1> HIDE DEF delivered
<1>2. entry' \in [Gens -> Entry] /\ Kept
  BY <1>1, RecordedFacts DEF TypeInv, Kept
<1>3. /\ sending' \in [Gens -> [Samples -> 0..MaxInFlight]]
      /\ \A h \in Gens, u \in Samples : sending'[h][u] > 0 => sending[h][u] > 0
  BY <1>1, BoundAssumption DEF TypeInv, TypeOK
<1>4. accepted' \subseteq Configs \X Serials \X Samples
  BY <1>1 DEF TypeInv, TypeOK, MeasurementDone, Born
<1>5. TypeOK'
  BY <1>2, <1>3, <1>4 DEF TypeInv, TypeOK, MeasurementDone
<1>6. DeliveryRefs'
  BY <1>2, <1>3, KeptBorn DEF TypeInv, Refs, DeliveryRefs
<1> QED BY <1>2, <1>5, <1>6, RefsKept DEF TypeInv, Refs, MeasurementDone

LEMMA HeartbeatDoneStep ==
    ASSUME TypeInv, NEW c \in Configs, HeartbeatDone(c)
    PROVE  TypeInv' /\ Quiet
<1>1. heartbeats' \in [Configs -> 0..MaxInFlight]
  BY BoundAssumption DEF TypeInv, TypeOK, HeartbeatDone
<1>2. EntriesKept /\ Kept /\ PreviousKept
  BY EntriesKeptKept DEF HeartbeatDone, EntriesKept, PreviousKept
<1>3. TypeOK'
  BY <1>1 DEF TypeInv, TypeOK, HeartbeatDone
<1> QED BY <1>2, <1>3, RefsKept DEF TypeInv, Refs, Quiet, HeartbeatDone

-----------------------------------------------------------------------------
(* Every step preserves TypeInv, and is of one of these kinds *)

StepKind ==
    \/ Quiet
    \/ /\ PreviousKept /\ accepted' = accepted
       /\ \E e \in Gens, t \in Samples : Stores(e, t)
    \/ \E w \in Workers : VerifySucceedsPolled(w)
    \/ \E w \in Workers, g \in Gens : VerifySucceeds(w, g) \/ ApplyResumes(w, g)
    \/ \E g \in Gens, t \in Samples, outcome \in DeliveryOutcomes :
          MeasurementDone(g, t, outcome)

LEMMA TypeInvInit == Init => TypeInv
<1> SUFFICES ASSUME Init PROVE TypeInv
  OBVIOUS
<1>1. AtPc("unborn") \in Task /\ NoEntry \in Entry /\ Idle \in Worker /\ NoEvents \in [latest: Event, repeated: BOOLEAN]
  BY DEF AtPc, Task, NoEntry, Entry, Health, Idle, Worker, NoEvents, Event
<1>2. TypeOK
  BY <1>1, BoundAssumption DEF Init, TypeOK
<1>3. Refs
  BY NoneAssumption DEF Init, Refs, RegistryRefs, TaskRefs, WorkerRefs, DeliveryRefs,
                        SlotIsLive, AtPc, Idle
<1> QED BY <1>2, <1>3 DEF TypeInv

LEMMA TypeInvNext == TypeInv /\ [Next]_vars => TypeInv' /\ StepKind
<1> SUFFICES ASSUME TypeInv, [Next]_vars PROVE TypeInv' /\ StepKind
  OBVIOUS
<1> USE DEF StepKind
<1>1. CASE Request
  <2>1. CASE \E w \in Configurers, c \in Configs, s \in Serials : ConfigRequest(w, c, s)
    BY <2>1, ConfigRequestStep
  <2>2. CASE \E w \in Configurers, c \in Configs : Deconfigure(w, c)
    BY <2>2, DeconfigureStep
  <2>3. CASE \E w \in Configurers, c \in Configs : DeconfigurePolled(w, c)
    BY <2>3, DeconfigurePolledStep
  <2>4. CASE \E w \in Commanders, c \in Configs : CommandRequest(w, c)
    BY <2>4, CommandRequestStep
  <2>5. CASE \E w \in Refreshers, c \in Configs : RefreshRequest(w, c)
    BY <2>5, RefreshRequestStep
  <2> QED BY <1>1, <2>1, <2>2, <2>3, <2>4, <2>5 DEF Request
<1>2. CASE \E w \in Workers : WorkerStep(w)
  <2>1. PICK w \in Workers : WorkerStep(w)
    BY <1>2
  <2>2. CASE VerifyFails(w)
    BY <2>2, VerifyFailsStep
  <2>3. CASE \E g \in Gens : VerifySucceeds(w, g)
    BY <2>3, VerifySucceedsStep
  <2>4. CASE \E g \in Gens : ApplyResumes(w, g)
    BY <2>4, ApplyResumesStep
  <2>5. CASE VerifySucceedsPolled(w)
    BY <2>5, VerifySucceedsPolledStep
  <2>6. CASE \E t \in Samples : InitialReadOk(w, t)
    BY <2>6, InitialReadOkStep
  <2>7. CASE \E t \in Samples : CommandReadOk(w, t)
    BY <2>7, CommandReadOkStep
  <2>8. CASE \E t \in Samples : RefreshReadOk(w, t)
    BY <2>8, RefreshReadOkStep
  <2>9. CASE InitialReadFails(w)
    BY <2>9, InitialReadFailsStep
  <2>10. CASE RemoveResumes(w)
    BY <2>10, RemoveResumesStep
  <2>11. CASE CommandReadFails(w)
    BY <2>11, CommandReadFailsStep
  <2>12. CASE RefreshReadFails(w)
    BY <2>12, RefreshReadFailsStep
  <2> QED BY <2>1, <2>2, <2>3, <2>4, <2>5, <2>6, <2>7, <2>8, <2>9, <2>10, <2>11, <2>12
          DEF WorkerStep
<1>3. CASE \E g \in Gens : TaskStep(g)
  <2>1. PICK g \in Gens : TaskStep(g)
    BY <1>3
  <2>2. CASE TaskStart(g)
    BY <2>2, TaskStartStep
  <2>3. CASE PollStart(g)
    BY <2>3, PollStartStep
  <2>4. CASE PollSkip(g)
    BY <2>4, PollSkipStep
  <2>5. CASE \E t \in Samples : PollReadOk(g, t)
    BY <2>5, PollReadOkStep
  <2>6. CASE PollReadFails(g)
    BY <2>6, PollReadFailsStep
  <2>7. CASE TaskStops(g)
    BY <2>7, TaskStopsStep
  <2> QED BY <2>1, <2>2, <2>3, <2>4, <2>5, <2>6, <2>7 DEF TaskStep
<1>4. CASE Delivery
  <2>1. CASE \E g \in Gens, t \in Samples, outcome \in DeliveryOutcomes :
                MeasurementDone(g, t, outcome)
    BY <2>1, MeasurementDoneStep
  <2>2. CASE \E c \in Configs : HeartbeatDone(c)
    BY <2>2, HeartbeatDoneStep
  <2> QED BY <1>4, <2>1, <2>2 DEF Delivery
<1>5. CASE UNCHANGED vars
  <2>1. Kept /\ Quiet
    BY <1>5 DEF vars, Kept, Quiet, EntriesKept, PreviousKept
  <2>2. TypeOK'
    BY <1>5 DEF vars, TypeInv, TypeOK
  <2> QED BY <1>5, <2>1, <2>2, RefsKept DEF vars, TypeInv, Refs
<1> QED BY <1>1, <1>2, <1>3, <1>4, <1>5 DEF Next

LEMMA TypeInvAlways == Spec => []TypeInv
BY TypeInvInit, TypeInvNext, PTL DEF Spec

\* The parts of the runtime's state stay well typed, bounds included.
THEOREM TypeCorrect == Spec => []TypeOK
<1>1. TypeInv => TypeOK
  BY DEF TypeInv
<1> QED BY <1>1, TypeInvAlways, PTL

\* poll_tasks (runtime.py:838, 863) holds live tasks, filed under their own
\* configuration, however many requests apply and remove at once.
THEOREM SlotsStayLive == Spec => []SlotIsLive
<1>1. TypeInv => SlotIsLive
  BY DEF TypeInv, Refs
<1> QED BY <1>1, TypeInvAlways, PTL

-----------------------------------------------------------------------------
(* A pending mark is backed by a delivery in flight *)

LEMMA PendingInit == Init => PendingIsInFlight
BY DEF Init, NoEntry, PendingIsInFlight

LEMMA PendingRegister ==
    ASSUME TypeOK, PendingIsInFlight, NEW w \in Workers, NEW c \in Configs, NEW s \in Serials,
           NEW previous \in Samples \cup {None}, NEW e \in Gens,
           Register(w, c, s, previous, e), sending' = sending
    PROVE  PendingIsInFlight'
BY RegisterFacts DEF PendingIsInFlight

LEMMA PendingNext == TypeInv /\ PendingIsInFlight /\ [Next]_vars => PendingIsInFlight'
<1> SUFFICES ASSUME TypeInv, PendingIsInFlight, [Next]_vars PROVE PendingIsInFlight'
  OBVIOUS
<1>1. StepKind /\ TypeInv'
  BY TypeInvNext
<1>2. CASE EntriesKept /\ sending' = sending
  BY <1>2 DEF EntriesKept, PendingIsInFlight
<1>3. CASE \E e \in Gens, t \in Samples : Stores(e, t)
  <2>1. PICK e \in Gens, t \in Samples : Stores(e, t)
    BY <1>3
  <2> SUFFICES ASSUME NEW g \in Gens, entry'[g].pending_sample_at # None
               PROVE  sending'[g][entry'[g].pending_sample_at] > 0
    BY DEF PendingIsInFlight
  <2>2. CASE g = e /\ NeedsSend(e, t)
    BY <2>1, <2>2 DEF Stores
  <2>3. CASE ~(g = e /\ NeedsSend(e, t))
    <3> DEFINE u == entry[g].pending_sample_at
    <3>1. entry'[g].pending_sample_at = u /\ u \in Samples /\ sending[g][u] > 0
      BY <2>1, <2>3 DEF Stores, PendingIsInFlight, TypeInv, TypeOK, Entry
    <3>2. sending'[g][u] >= sending[g][u] /\ sending[g][u] \in Nat /\ sending'[g][u] \in Nat
      BY <1>1, <2>1, <3>1, BoundAssumption DEF Stores, TypeInv, TypeOK
    <3> HIDE DEF u
    <3> QED BY <3>1, <3>2
  <2> QED BY <2>2, <2>3
<1>4. ASSUME NEW w \in Workers, VerifySucceedsPolled(w) PROVE PendingIsInFlight'
  BY <1>2, <1>4, VerifySucceedsPolledStep DEF VerifySucceedsPolled
<1>5. ASSUME NEW w \in Workers, NEW g \in Gens, VerifySucceeds(w, g) PROVE PendingIsInFlight'
  <2>1. PreviousSampleAt(worker[w].config_id, worker[w].serial_number) \in Samples \cup {None}
        /\ worker[w].config_id \in Configs /\ worker[w].serial_number \in Serials
    BY <1>5 DEF VerifySucceeds, TypeInv, TypeOK, Refs, RegistryRefs, WorkerRefs, Entry,
                PreviousSampleAt, Registered
  <2> QED BY <1>5, <2>1, PendingRegister DEF TypeInv, VerifySucceeds
<1>6. ASSUME NEW w \in Workers, NEW g \in Gens, ApplyResumes(w, g) PROVE PendingIsInFlight'
  <2>1. worker[w].previous_sample_at \in Samples \cup {None}
        /\ worker[w].config_id \in Configs /\ worker[w].serial_number \in Serials
    BY <1>6 DEF ApplyResumes, TypeInv, TypeOK, Refs, WorkerRefs, Worker
  <2> QED BY <1>6, <2>1, PendingRegister DEF TypeInv, ApplyResumes
<1>7. ASSUME NEW e \in Gens, NEW t \in Samples, NEW outcome \in DeliveryOutcomes,
             MeasurementDone(e, t, outcome)
      PROVE  PendingIsInFlight'
  <2> SUFFICES ASSUME NEW g \in Gens, entry'[g].pending_sample_at # None
               PROVE  sending'[g][entry'[g].pending_sample_at] > 0
    BY DEF PendingIsInFlight
  <2> DEFINE delivered == outcome = "acknowledged"
             u == entry[g].pending_sample_at
  <2>1. entry' = Recorded(e, t, delivered) /\ delivered \in BOOLEAN
        /\ sending' = [sending EXCEPT ![e][t] = @ - 1]
    BY <1>7 DEF MeasurementDone
  <2> HIDE DEF delivered
  <2>2. entry'[g].pending_sample_at = IF g = e /\ u = t THEN None ELSE u
    BY <2>1, RecordedFacts DEF TypeInv
  <2>3. entry'[g].pending_sample_at = u /\ ~(g = e /\ u = t) /\ u # None
    BY <2>2
  <2>4. sending[g][u] > 0 /\ u \in Samples
    BY <2>3 DEF PendingIsInFlight, TypeInv, TypeOK, Entry
  <2> HIDE DEF u
  <2>5. sending'[g][u] = sending[g][u]
    BY <2>1, <2>3, <2>4 DEF TypeInv, TypeOK
  <2> QED BY <2>3, <2>4, <2>5
<1> QED BY <1>1, <1>2, <1>3, <1>4, <1>5, <1>6, <1>7 DEF StepKind, Quiet

\* No reading is withheld by a pending mark (runtime.py:553-560) that no
\* delivery in flight is going to clear (469-471).
THEOREM PendingMarksAreBacked == Spec => []PendingIsInFlight
<1>1. TypeInv /\ PendingIsInFlight /\ [Next]_vars => PendingIsInFlight'
  BY PendingNext
<1> QED BY <1>1, PendingInit, TypeInvAlways, PTL DEF Spec

-----------------------------------------------------------------------------
(* last_delivered_sample_at is backed by a reading Core accepted *)

LEMMA DeliveredInit == Init => DeliveredWasAccepted
BY DEF Init, NoEntry, Idle, DeliveredWasAccepted

LEMMA DeliveredRegister ==
    ASSUME TypeOK, DeliveredWasAccepted, NEW w \in Workers, NEW c \in Configs,
           NEW s \in Serials, NEW previous \in Samples \cup {None}, NEW e \in Gens,
           previous # None => <<c, s, previous>> \in accepted,
           Register(w, c, s, previous, e), accepted' = accepted
    PROVE  DeliveredWasAccepted'
<1>1. ASSUME NEW g \in Gens, entry'[g].last_delivered_sample_at # None
      PROVE  <<entry'[g].config_id, entry'[g].serial_number,
               entry'[g].last_delivered_sample_at>> \in accepted'
  <2>1. CASE g = e
    <3>1. /\ entry'[e].config_id = c /\ entry'[e].serial_number = s
          /\ entry'[e].last_delivered_sample_at = previous
      BY RegisterFacts
    <3> QED BY <1>1, <2>1, <3>1
  <2>2. CASE g # e
    <3>1. entry'[g] = entry[g]
      BY <2>2, RegisterFacts
    <3> QED BY <1>1, <3>1 DEF DeliveredWasAccepted
  <2> QED BY <2>1, <2>2
<1>2. ASSUME NEW v \in Workers, worker'[v].previous_sample_at # None
      PROVE  <<worker'[v].config_id, worker'[v].serial_number,
               worker'[v].previous_sample_at>> \in accepted'
  <2>1. v # w /\ worker'[v] = worker[v]
    BY <1>2, RegisterFacts
  <2> QED BY <1>2, <2>1 DEF DeliveredWasAccepted
<1> QED BY <1>1, <1>2 DEF DeliveredWasAccepted

LEMMA PreviousWasAccepted ==
    ASSUME TypeInv, DeliveredWasAccepted, NEW c \in Configs, NEW s \in Serials
    PROVE  /\ PreviousSampleAt(c, s) \in Samples \cup {None}
           /\ PreviousSampleAt(c, s) # None => <<c, s, PreviousSampleAt(c, s)>> \in accepted
BY DEF TypeInv, TypeOK, Refs, RegistryRefs, Entry, PreviousSampleAt, Registered,
       DeliveredWasAccepted

LEMMA DeliveredNext == TypeInv /\ DeliveredWasAccepted /\ [Next]_vars => DeliveredWasAccepted'
<1> SUFFICES ASSUME TypeInv, DeliveredWasAccepted, [Next]_vars PROVE DeliveredWasAccepted'
  OBVIOUS
<1>1. StepKind
  BY TypeInvNext
<1>2. CASE Quiet
  BY <1>2 DEF Quiet, EntriesKept, PreviousKept, DeliveredWasAccepted
<1>3. CASE /\ PreviousKept /\ accepted' = accepted
           /\ \E e \in Gens, t \in Samples : Stores(e, t)
  BY <1>3 DEF Stores, PreviousKept, DeliveredWasAccepted
<1>4. ASSUME NEW w \in Workers, VerifySucceedsPolled(w) PROVE DeliveredWasAccepted'
  <2>1. worker[w].config_id \in Configs /\ worker[w].serial_number \in Serials
    BY <1>4 DEF VerifySucceedsPolled, TypeInv, Refs, WorkerRefs
  <2>2. UNCHANGED <<entry, accepted>>
    BY <1>4 DEF VerifySucceedsPolled
  <2> QED BY <1>4, <2>1, <2>2, PreviousWasAccepted, VerifySucceedsPolledStep
          DEF DeliveredWasAccepted
<1>5. ASSUME NEW w \in Workers, NEW g \in Gens, VerifySucceeds(w, g)
      PROVE  DeliveredWasAccepted'
  <2>1. worker[w].config_id \in Configs /\ worker[w].serial_number \in Serials
    BY <1>5 DEF VerifySucceeds, TypeInv, Refs, WorkerRefs
  <2> QED BY <1>5, <2>1, PreviousWasAccepted, DeliveredRegister DEF TypeInv, VerifySucceeds
<1>6. ASSUME NEW w \in Workers, NEW g \in Gens, ApplyResumes(w, g) PROVE DeliveredWasAccepted'
  <2>1. /\ worker[w].previous_sample_at \in Samples \cup {None}
        /\ worker[w].config_id \in Configs /\ worker[w].serial_number \in Serials
    BY <1>6 DEF ApplyResumes, TypeInv, TypeOK, Refs, WorkerRefs, Worker
  <2>2. worker[w].previous_sample_at # None =>
           <<worker[w].config_id, worker[w].serial_number,
             worker[w].previous_sample_at>> \in accepted
    BY DEF DeliveredWasAccepted
  <2> QED BY <1>6, <2>1, <2>2, DeliveredRegister DEF TypeInv, ApplyResumes
<1>7. ASSUME NEW e \in Gens, NEW t \in Samples, NEW outcome \in DeliveryOutcomes,
             MeasurementDone(e, t, outcome)
      PROVE  DeliveredWasAccepted'
  <2> DEFINE delivered == outcome = "acknowledged"
  <2>1. /\ entry' = Recorded(e, t, delivered) /\ delivered \in BOOLEAN
        /\ accepted \subseteq accepted' /\ worker' = worker
        /\ delivered => <<entry[e].config_id, entry[e].serial_number, t>> \in accepted'
    BY <1>7 DEF MeasurementDone
  <2> HIDE DEF delivered
  <2>2. ASSUME NEW g \in Gens, entry'[g].last_delivered_sample_at # None
        PROVE  <<entry'[g].config_id, entry'[g].serial_number,
                 entry'[g].last_delivered_sample_at>> \in accepted'
    <3>1. /\ entry'[g].config_id = entry[g].config_id
          /\ entry'[g].serial_number = entry[g].serial_number
          /\ entry'[g].last_delivered_sample_at =
                IF g = e /\ delivered THEN t ELSE entry[g].last_delivered_sample_at
      BY <2>1, RecordedFacts DEF TypeInv
    <3> QED BY <2>1, <2>2, <3>1 DEF DeliveredWasAccepted
  <2> QED BY <2>1, <2>2 DEF DeliveredWasAccepted
<1> QED BY <1>1, <1>2, <1>3, <1>4, <1>5, <1>6, <1>7 DEF StepKind

\* A reading is held back as delivered (runtime.py:554) only if Core accepted
\* it for this configuration and serial number, across replacements too.
THEOREM DeliveredMarksAreTrue == Spec => []DeliveredWasAccepted
<1>1. TypeInv /\ DeliveredWasAccepted /\ [Next]_vars => DeliveredWasAccepted'
  BY DeliveredNext
<1> QED BY <1>1, DeliveredInit, TypeInvAlways, PTL DEF Spec

-----------------------------------------------------------------------------
(* A registered configuration is polled, or a request is about to see to it *)

\* The places of apply_config and remove_config that own a configuration.
Owning == {"apply_cancel", "remove_cancel", "initial_read"}

\* A step that touches neither dict nor an owning request.
LEMMA PolledKept ==
    ASSUME RegisteredIsPolled, UNCHANGED <<registry, poll_tasks>>,
           \A v \in Workers : worker[v].pc \in Owning => worker'[v] = worker[v]
    PROVE  RegisteredIsPolled'
BY DEF RegisteredIsPolled, Registered, Owning

\* A step of a request that owned c, or now owns it.
LEMMA PolledMoved ==
    ASSUME RegisteredIsPolled, NEW w \in Workers, NEW c \in Configs,
           worker[w].pc \in Owning => worker[w].config_id = c,
           \A v \in Workers : v # w => worker'[v] = worker[v],
           \A d \in Configs : d # c => registry'[d] = registry[d] /\ poll_tasks'[d] = poll_tasks[d],
           \/ registry'[c] = None
           \/ poll_tasks'[c] # None
           \/ worker'[w].pc \in Owning /\ worker'[w].config_id = c
    PROVE  RegisteredIsPolled'
<1> SUFFICES ASSUME NEW d \in Configs, registry'[d] # None
             PROVE  \/ poll_tasks'[d] # None
                    \/ \E v \in Workers : worker'[v].pc \in Owning /\ worker'[v].config_id = d
  BY DEF RegisteredIsPolled, Registered, Owning
<1>1. CASE d = c
  BY <1>1
<1>2. CASE d # c
  BY <1>2 DEF RegisteredIsPolled, Registered, Owning
<1> QED BY <1>1, <1>2

LEMMA PolledRegister ==
    ASSUME TypeOK, RegisteredIsPolled, NEW w \in Workers, NEW s \in Serials,
           NEW previous \in Samples \cup {None}, NEW e \in Gens, NEW c \in Configs,
           worker[w].pc \in Owning => worker[w].config_id = c,
           Register(w, c, s, previous, e), poll_tasks' = poll_tasks
    PROVE  RegisteredIsPolled'
<1>1. /\ \A v \in Workers : v # w => worker'[v] = worker[v]
      /\ \A d \in Configs : d # c => registry'[d] = registry[d]
      /\ worker'[w].pc = "initial_read" /\ worker'[w].config_id = c
  BY RegisterFacts
<1> QED BY <1>1, PolledMoved DEF Owning

LEMMA PolledWorkerStep ==
    ASSUME TypeInv, RegisteredIsPolled, NEW w \in Workers, WorkerStep(w)
    PROVE  RegisteredIsPolled'
<1> DEFINE c == worker[w].config_id
           s == worker[w].serial_number
<1>1. /\ worker[w].pc # "idle" => c \in Configs
      /\ worker[w].pc \in {"verify", "apply_cancel"} => s \in Serials
      /\ worker[w].pc = "initial_read" => worker[w].entry \in Gens
      /\ worker[w].previous_sample_at \in Samples \cup {None}
  BY DEF TypeInv, TypeOK, Worker, Refs, WorkerRefs
<1>2. CASE VerifyFails(w)
  BY <1>2, AnsweredFacts, PolledKept DEF TypeInv, VerifyFails, Owning
<1>3. ASSUME NEW g \in Gens, VerifySucceeds(w, g) PROVE RegisteredIsPolled'
  <2>1. c \in Configs /\ s \in Serials /\ PreviousSampleAt(c, s) \in Samples \cup {None}
    BY <1>1, <1>3 DEF VerifySucceeds, TypeInv, TypeOK, Refs, RegistryRefs, Entry,
                      PreviousSampleAt, Registered
  <2> QED BY <1>3, <2>1, PolledRegister DEF TypeInv, VerifySucceeds
<1>4. ASSUME NEW g \in Gens, ApplyResumes(w, g) PROVE RegisteredIsPolled'
  BY <1>1, <1>4, PolledRegister DEF TypeInv, ApplyResumes
<1>5. CASE VerifySucceedsPolled(w)
  <2>1. /\ c \in Configs /\ worker[w].pc = "verify" /\ PopAndCancel(c)
        /\ worker'[w].pc = "apply_cancel" /\ worker'[w].config_id = c
        /\ \A v \in Workers : v # w => worker'[v] = worker[v]
    BY <1>1, <1>5, VerifySucceedsPolledStep DEF VerifySucceedsPolled
  <2>2. registry' = registry
    BY <1>5 DEF VerifySucceedsPolled
  <2> HIDE DEF c
  <2> QED BY <2>1, <2>2, PopAndCancelFacts, PolledMoved DEF TypeInv, Owning
<1>6. CASE (\E t \in Samples : InitialReadOk(w, t)) \/ InitialReadFails(w)
  <2>1. c \in Configs /\ StartPolling(c, worker[w].entry) /\ Answered(w)
        /\ registry' = registry /\ worker[w].entry \in Gens
    BY <1>1, <1>6 DEF InitialReadOk, InitialReadFails
  <2>2. \A d \in Configs : d # c => poll_tasks'[d] = poll_tasks[d]
    BY <2>1, StartPollingFacts DEF TypeInv
  <2>3. poll_tasks'[c] # None
    BY <2>1, StartPollingFacts, NoneAssumption DEF TypeInv
  <2>4. \A v \in Workers : v # w => worker'[v] = worker[v]
    BY <2>1, AnsweredFacts DEF TypeInv
  <2> QED BY <2>1, <2>2, <2>3, <2>4, PolledMoved
<1>7. CASE RemoveResumes(w)
  <2>1. c \in Configs /\ FinishRemove(c) /\ Answered(w) /\ poll_tasks' = poll_tasks
    BY <1>1, <1>7 DEF RemoveResumes
  <2> HIDE DEF c
  <2>2. worker[w].config_id = c
    BY DEF c
  <2> QED BY <2>1, <2>2, FinishRemoveFacts, AnsweredFacts, PolledMoved DEF TypeInv
<1>8. CASE \/ \E t \in Samples : CommandReadOk(w, t) \/ RefreshReadOk(w, t)
           \/ CommandReadFails(w) \/ RefreshReadFails(w)
  <2>1. /\ worker[w].pc \in {"command_read", "refresh_read"}
        /\ Answered(w) /\ UNCHANGED <<registry, poll_tasks>>
    BY <1>8 DEF CommandReadOk, RefreshReadOk, CommandReadFails, RefreshReadFails
  <2> QED BY <2>1, AnsweredFacts, PolledKept DEF TypeInv, Owning
<1> HIDE DEF c, s
<1> QED BY <1>2, <1>3, <1>4, <1>5, <1>6, <1>7, <1>8 DEF WorkerStep

LEMMA PolledNext == TypeInv /\ RegisteredIsPolled /\ [Next]_vars => RegisteredIsPolled'
<1> SUFFICES ASSUME TypeInv, RegisteredIsPolled, [Next]_vars PROVE RegisteredIsPolled'
  OBVIOUS
<1>1. CASE Request
  <2>1. ASSUME NEW w \in Configurers, NEW c \in Configs, NEW s \in Serials,
               ConfigRequest(w, c, s)
        PROVE  RegisteredIsPolled'
    <3>1. worker[w].pc \notin Owning /\ UNCHANGED <<registry, poll_tasks>>
      BY <2>1 DEF ConfigRequest, Owning
    <3>2. \A v \in Workers : v # w => worker'[v] = worker[v]
      BY <2>1 DEF ConfigRequest, TypeInv, TypeOK
    <3> QED BY <3>1, <3>2, PolledKept
  <2>2. ASSUME NEW w \in Configurers, NEW c \in Configs, Deconfigure(w, c)
        PROVE  RegisteredIsPolled'
    <3>1. FinishRemove(c) /\ UNCHANGED <<poll_tasks, worker>>
      BY <2>2 DEF Deconfigure
    <3>2. registry'[c] = None /\ \A d \in Configs : d # c => registry'[d] = registry[d]
      BY <3>1, FinishRemoveFacts DEF TypeInv
    <3> QED BY <3>1, <3>2 DEF RegisteredIsPolled, Registered
  <2>3. ASSUME NEW w \in Configurers, NEW c \in Configs, DeconfigurePolled(w, c)
        PROVE  RegisteredIsPolled'
    <3>1. /\ worker[w].pc = "idle" /\ PopAndCancel(c) /\ registry' = registry /\ w \in Workers
          /\ worker'[w].pc = "remove_cancel" /\ worker'[w].config_id = c
          /\ \A v \in Workers : v # w => worker'[v] = worker[v]
      BY <2>3, DeconfigurePolledStep DEF DeconfigurePolled, Workers
    <3> QED BY <3>1, PopAndCancelFacts, PolledMoved DEF TypeInv, Owning
  <2>4. ASSUME NEW w \in Workers, NEW c \in Configs,
               CommandRequest(w, c) \/ RefreshRequest(w, c)
        PROVE  RegisteredIsPolled'
    <3>1. worker[w].pc \notin Owning /\ UNCHANGED <<registry, poll_tasks>>
      BY <2>4 DEF CommandRequest, RefreshRequest, Owning
    <3>2. \A v \in Workers : v # w => worker'[v] = worker[v]
      BY <2>4 DEF CommandRequest, RefreshRequest, TypeInv, TypeOK
    <3> QED BY <3>1, <3>2, PolledKept
  <2> QED BY <1>1, <2>1, <2>2, <2>3, <2>4 DEF Request, Workers
<1>2. CASE \E w \in Workers : WorkerStep(w)
  BY <1>2, PolledWorkerStep
<1>3. CASE \E g \in Gens : TaskStep(g)
  <2>1. UNCHANGED <<registry, poll_tasks, worker>>
    BY <1>3 DEF TaskStep, TaskStart, PollStart, PollSkip, PollReadOk, PollReadFails, TaskStops
  <2> QED BY <2>1, PolledKept
<1>4. CASE Delivery \/ UNCHANGED vars
  <2>1. UNCHANGED <<registry, poll_tasks, worker>>
    BY <1>4 DEF Delivery, MeasurementDone, HeartbeatDone, vars
  <2> QED BY <2>1, PolledKept
<1> QED BY <1>1, <1>2, <1>3, <1>4 DEF Next

\* No registered device is left unread: whatever applies, rejected applies and
\* removals overlap, the configuration has a poll task, or a request that still
\* owns it (runtime.py:787-838, 860-872).
THEOREM RegisteredStaysPolled == Spec => []RegisteredIsPolled
<1>1. Init => RegisteredIsPolled
  BY DEF Init, RegisteredIsPolled, Registered
<1>2. TypeInv /\ RegisteredIsPolled /\ [Next]_vars => RegisteredIsPolled'
  BY PolledNext
<1> QED BY <1>1, <1>2, TypeInvAlways, PTL DEF Spec

=============================================================================
