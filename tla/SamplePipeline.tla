---------------------------- MODULE SamplePipeline ----------------------------
(***************************************************************************)
(* What one registered configuration makes of the samples it reads,        *)
(* runtime.py: the mold risk score of _compute_mold_risk_level over the    *)
(* readings of the last 48 hours, the state snapshot, and the metrics that *)
(* _filtered_telemetry_payload lets through to Core.                       *)
(*                                                                         *)
(* A step is one call of _read_and_store and what poll_once or             *)
(* apply_config does with its outcome; the interleaving of such calls is   *)
(* the subject of AirthingsRuntime.  Time is in minutes.                   *)
(***************************************************************************)
EXTENDS LatestSample

CONSTANTS
    Payloads,        \* the latest samples the cloud may answer with
    Clock,           \* the values of the clock at a read
    Models,          \* device models
    poll_interval,   \* of the configuration; Field(ge=60) seconds
    MaxReadings      \* bound: readings that enter the score of one entry

ASSUME NumbersAssumption == poll_interval \in Nat \ {0} /\ MaxReadings \in Nat

\* What the payloads say of the time is a raw time of LatestSample.
ASSUME TimesAssumption ==
    /\ Clock \subseteq Int
    /\ \A p \in Payloads : p.recorded \in Time /\ p.time \in Time

VARIABLES
    device_model,    \* of the registered entry
    mold_history,    \* entry["mold_history"]
    latest_state,    \* the metrics of the state snapshot, None: not connected
    telemetry,       \* metrics and units of the last stored sample
    payload,         \* history: the payload that was stored last, if the last
                     \* read stored one
    readings         \* history: the readings that entered the score

vars == <<device_model, mold_history, latest_state, telemetry, payload, readings>>

Window == 48 * 60    \* MOLD_RISK_WINDOW_HOURS

-----------------------------------------------------------------------------
(* The score *)

\* _mold_exposure_score, in 300ths: a humidity factor in 15ths times a
\* temperature factor of 0.35, 0.6 or 1.
_mold_exposure_score(r) ==
    LET humidity == CASE r.humidity_percent < 75 -> 0
                      [] r.humidity_percent > 90 -> 15
                      [] OTHER -> r.humidity_percent - 75
        temperature == CASE r.temperature_c < 5 \/ r.temperature_c > 35 -> 7
                         [] r.temperature_c \in 5..9 \cup 31..35 -> 12
                         [] OTHER -> 20
    IN  humidity * temperature

MaxOf(a, b) == IF a > b THEN a ELSE b

\* Python's round(): half to even.
RoundHalfEven(n, d) ==
    LET q == n \div d
        r == n % d
    IN  CASE 2 * r < d -> q
          [] 2 * r > d -> q + 1
          [] OTHER -> IF q % 2 = 0 THEN q ELSE q + 1

\* How long the i-th reading counts: until the next one, the last one for a
\* poll interval.
Interval(history, i) ==
    IF i < Len(history)
    THEN MaxOf(history[i + 1].recorded_at.instant - history[i].recorded_at.instant, 0)
    ELSE poll_interval

\* What the loop over the readings adds up, for the terms of a sequence.
Total(terms) ==
    LET sum[i \in 0..Len(terms)] == IF i = 0 THEN 0 ELSE sum[i - 1] + terms[i]
    IN  sum[Len(terms)]

Weighted(history) ==
    Total([i \in DOMAIN history |-> _mold_exposure_score(history[i]) * Interval(history, i)])

Covered(history) == Total([i \in DOMAIN history |-> Interval(history, i)])

\* Mutant: no coverage factor, the average alone.
AverageLevel(history) == RoundHalfEven(Weighted(history), 30 * Covered(history))

\* round(average * min(covered / window, 1) * 10)
RiskLevel(history) == RoundHalfEven(Weighted(history), 30 * MaxOf(Covered(history), Window))

\* list.sort(key=recorded_at): the places kept of the list all, by the texts of their
\* readings, and places with one text in the order of the list.
Precedes(all, i, j) ==
    \/ TextBefore(all[i].recorded_at, all[j].recorded_at)
    \/ ~TextBefore(all[j].recorded_at, all[i].recorded_at) /\ i < j

InOrder(all, kept) ==
    CHOOSE places \in [1..Cardinality(kept) -> kept] :
        \A m, n \in DOMAIN places : m < n => Precedes(all, places[m], places[n])

Sorted(all, kept) ==
    LET places == InOrder(all, kept)
    IN  [n \in DOMAIN places |-> all[places[n]]]

\* The places of history with a reading that is not too old for the window.
InWindow(history, reading) ==
    {i \in DOMAIN history :
        history[i].recorded_at.instant >= reading.recorded_at.instant - Window}

\* Mutants: the new reading is appended and not sorted in; the reading of the
\* same time is kept beside the new one; a reading as old as the window is dropped.
AppendedReadings(history, reading) ==
    Append(SelectSeq(history, LAMBDA r :
               /\ r.recorded_at.instant >= reading.recorded_at.instant - Window
               /\ r.recorded_at # reading.recorded_at),
           reading)

ReadingsWithRepeats(history, reading) ==
    Sorted(Append(history, reading), InWindow(history, reading) \cup {Len(history) + 1})

ReadingsInsideWindow(history, reading) ==
    LET kept == {i \in DOMAIN history :
                    /\ history[i].recorded_at.instant > reading.recorded_at.instant - Window
                    /\ history[i].recorded_at # reading.recorded_at}
    IN  Sorted(Append(history, reading), kept \cup {Len(history) + 1})

\* The readings _compute_mold_risk_level retains, with the new one, sorted.
Retained(history, reading) ==
    LET kept == {i \in InWindow(history, reading) :
                    history[i].recorded_at # reading.recorded_at}
    IN  Sorted(Append(history, reading), kept \cup {Len(history) + 1})

\* The sample enters the score: the device has one and both metrics are there.
Scored(sample) ==
    /\ supports_mold_risk(device_model)
    /\ sample.metrics.temperature_c # None
    /\ sample.metrics.humidity_percent # None

Reading(sample) ==
    [recorded_at |-> sample.recorded_at,
     temperature_c |-> sample.metrics.temperature_c,
     humidity_percent |-> sample.metrics.humidity_percent]

-----------------------------------------------------------------------------
(* _update_state_snapshot *)

WithMoldRisk(metrics, level) ==
    [key \in Metrics \cup {MOLD_RISK_METRIC_KEY} |->
        IF key = MOLD_RISK_METRIC_KEY THEN level ELSE metrics[key]]

\* Mutant: nothing is filtered.
UnfilteredTelemetry(metrics) == metrics

\* _filtered_telemetry_payload: the metrics with a value (and their units).
_filtered_telemetry_payload(metrics) ==
    [key \in {k \in DOMAIN metrics : metrics[k] # None} |-> metrics[key]]

\* The entry stores the sample and shows metrics, with or without the score.
Store(metrics) ==
    /\ latest_state' = metrics
    /\ telemetry' = _filtered_telemetry_payload(metrics)

-----------------------------------------------------------------------------
(* The program *)

Init ==
    /\ device_model \in Models
    /\ mold_history = <<>>
    /\ latest_state = None
    /\ telemetry = None
    /\ payload = None
    /\ readings = <<>>

\* apply_config registers a new entry dict: the history of the old one is gone.
ApplyConfig(m) ==
    /\ device_model' = m
    /\ mold_history' = <<>>
    /\ latest_state' = None
    /\ telemetry' = None
    /\ payload' = None
    /\ readings' = <<>>

\* A sample that enters the score.
ReadScored(p, now) ==
    LET sample == from_api_payload(p, now)
        history == Retained(mold_history, Reading(sample))
    IN  /\ Scored(sample)
        /\ sample.recorded_at # Bad
        /\ Len(readings) < MaxReadings      \* bound
        /\ mold_history' = history
        /\ readings' = Append(readings, Reading(sample))
        /\ Store(WithMoldRisk(sample.metrics, RiskLevel(history)))
        /\ payload' = p
        /\ UNCHANGED device_model

\* A sample of another device model, or without temperature or humidity.
ReadUnscored(p, now) ==
    LET sample == from_api_payload(p, now)
    IN  /\ ~Scored(sample)
        /\ Store(WithMoldRisk(sample.metrics, None))
        /\ payload' = p
        /\ UNCHANGED <<device_model, mold_history, readings>>

\* The read stores nothing: the device is shown as not connected.
ReadFailed ==
    /\ latest_state' = None
    /\ payload' = None
    /\ UNCHANGED <<device_model, mold_history, telemetry, readings>>

\* _parse_sample_timestamp raises before anything is stored.
ReadRaises(p, now) ==
    LET sample == from_api_payload(p, now)
    IN  /\ Scored(sample)
        /\ sample.recorded_at = Bad
        /\ ReadFailed

Next ==
    \/ \E m \in Models : ApplyConfig(m)
    \/ \E p \in Payloads, now \in Clock :
          ReadScored(p, now) \/ ReadUnscored(p, now) \/ ReadRaises(p, now)
    \/ ReadFailed

Spec == Init /\ [][Next]_vars

-----------------------------------------------------------------------------
(* Properties *)

TypeOK ==
    /\ device_model \in Models
    /\ \A i \in DOMAIN mold_history :
          /\ mold_history[i].temperature_c \in _METRIC_RANGES.temperature_c
          /\ mold_history[i].humidity_percent \in _METRIC_RANGES.humidity_percent
    /\ payload \in Payloads \cup {None}
    /\ Len(readings) <= MaxReadings

\* The history of _compute_mold_risk_level, updated reading by reading, is what
\* one look at all the readings of the entry gives: the last reading of each
\* recorded_at, unless a later call saw a reading more than 48 hours newer.  No
\* text that does not parse is in it, on which every later poll would fail
\* (runtime.py:282-303).
HistoryIsWindow ==
    LET Kept(i) == \A j \in i + 1 .. Len(readings) :
                      /\ readings[j].recorded_at # readings[i].recorded_at
                      /\ readings[j].recorded_at.instant - readings[i].recorded_at.instant
                            <= Window
        kept == {i \in DOMAIN readings : Kept(i)}
    IN  /\ {mold_history[i] : i \in DOMAIN mold_history} = {readings[i] : i \in kept}
        /\ Len(mold_history) = Cardinality(kept)
        /\ \A i \in DOMAIN mold_history : mold_history[i].recorded_at # Bad

\* The score the snapshot shows is that of the readings in the order of their
\* instants, whatever the order they arrived in, as long as their texts name the
\* time zone in one way (302, 310-321).
ScoreFollowsTime ==
    LET seen == {mold_history[i] : i \in DOMAIN mold_history}
        At(r) == r.recorded_at.instant
        Span(r) == LET later == {At(s) - At(r) : s \in {s \in seen : At(s) > At(r)}}
                   IN  IF later = {} THEN poll_interval
                       ELSE CHOOSE d \in later : \A e \in later : d <= e
        weighted == MapThenSumSet(LAMBDA r : _mold_exposure_score(r) * Span(r), seen)
        covered == MapThenSumSet(Span, seen)
    IN  (/\ latest_state # None
         /\ latest_state[MOLD_RISK_METRIC_KEY] # None
         /\ \A r, s \in seen : r.recorded_at.suffix = s.recorded_at.suffix)
           => latest_state[MOLD_RISK_METRIC_KEY]
                = RoundHalfEven(weighted, 30 * MaxOf(covered, Window))

\* A short history never gives a high score: a score of n tenths takes readings
\* that cover n tenths of 48 hours (up to the rounding), and one above the dry
\* limit of 75 % (326-328, 258-266).
ScoreNeedsCoverage ==
    (latest_state # None /\ latest_state[MOLD_RISK_METRIC_KEY] # None) =>
        LET level == latest_state[MOLD_RISK_METRIC_KEY]
        IN  /\ level \in _METRIC_RANGES[MOLD_RISK_METRIC_KEY]
            /\ (2 * level - 1) * Window <= 20 * Covered(mold_history)
            /\ level > 0 => \E i \in DOMAIN mold_history : mold_history[i].humidity_percent > 75

\* Every poll reads the latest sample again until there is a newer one: as long
\* as the sample says when it was recorded, reading it twice in a row changes
\* neither the history nor what is shown and sent.
Timed(p) == TimeOr(p.recorded, p.time) \notin {None, Overflow}

RereadChangesNothing ==
    [][payload # None /\ payload' = payload /\ Timed(payload) /\ device_model' = device_model
         => UNCHANGED <<mold_history, latest_state, telemetry>>]_vars

\* The two shapes of one reading give the same metrics (models.py:152-211), but
\* for a battery of 0, which the list shape takes for an absent one (184).
ShapesAgree ==
    (payload # None /\ ~IsList(payload)) =>
        \A key \in Metrics :
            \/ ListMetrics(AsList(payload))[key] = FlatMetrics(payload)[key]
            \/ key = "battery_percent" /\ payload[key] = 0

\* While the device is shown as connected, what is sent to Core is a number in
\* the range of its metric (220-238, models.py:85-100), and but for rssi_dbm the
\* entity lists a capability for it (models.py:232-272).
SentIsDeclared ==
    latest_state # None =>
        \A key \in DOMAIN telemetry :
            /\ telemetry[key] \in _METRIC_RANGES[key]
            /\ key \in capabilities_for_device(device_model, latest_state) \cup {"rssi_dbm"}
=============================================================================
