----------------------------- MODULE LatestSample -----------------------------
(***************************************************************************)
(* What cloud/models.py makes of the payload of a latest sample: the two   *)
(* shapes the consumer API answers with, the coercion and the range check  *)
(* of every value, the time of the reading, and the capabilities that      *)
(* /entities lists for a device.                                           *)
(*                                                                         *)
(* Four metrics stand for the eleven: temperature and humidity (a float    *)
(* from a sensor), rssi (an int from a sensor) and battery (an int that    *)
(* the list shape takes from the payload and not from a sensor).  The      *)
(* other seven go the way of the temperature.                              *)
(***************************************************************************)
EXTENDS Integers, Sequences, FiniteSets, SequencesExt

CONSTANTS
    None,       \* Python's None, an absent key
    Bad         \* a value float() rejects or that is not finite; a text that
                \* is no ISO timestamp

ASSUME ValuesAssumption == None # Bad

-----------------------------------------------------------------------------
(* Times *)

\* How an ISO text names its time zone: not at all or by Z, which both mean UTC, or
\* by a shift of hours and minutes to one side of it, which may be none.
Suffix == [zone: {"naive", "zulu"}, shift: {0}] \cup [zone: {"plus", "minus"}, shift: 0..1439]

Naive == [zone |-> "naive", shift |-> 0]
Zulu == [zone |-> "zulu", shift |-> 0]
Plus(minutes) == [zone |-> "plus", shift |-> minutes]
Minus(minutes) == [zone |-> "minus", shift |-> minutes]

\* A raw time is None, Bad, a number of minutes since the epoch (or one that is
\* too large for a date), or an ISO text: the instant it names and its suffix.  The
\* texts have one layout up to the suffix, and whole minutes.
Number(i) == [kind |-> "number", instant |-> i, suffix |-> Plus(0)]
Text(i, suffix) == [kind |-> "text", instant |-> i, suffix |-> suffix]
Overflow == [kind |-> "overflow", instant |-> 0, suffix |-> Plus(0)]

Time == {None, Bad, Overflow} \cup [kind: {"number", "text"}, instant: Int, suffix: Suffix]

\* Python's "or" on the raw values of two keys: zero counts as absent.
TimeOr(a, b) == IF a \in {None, Number(0)} THEN b ELSE a
ValueOr(a, b) == IF a \in {None, 0} THEN b ELSE a

\* A finite number becomes a text at +00:00, a text stays what it is, anything else
\* is replaced by the time of the call.
_coerce_datetime(value, now) ==
    CASE value \in {None, Overflow} -> Text(now, Plus(0))
      [] value = Bad -> Bad
      [] OTHER -> Text(value.instant, value.suffix)

\* The date and the time that are written in a text.
Local(t) ==
    IF t.suffix.zone = "minus" THEN t.instant - t.suffix.shift ELSE t.instant + t.suffix.shift

\* The order of the suffixes as strings: nothing, "+", "-", "Z".
ZoneRank(zone) == CASE zone = "naive" -> 0 [] zone = "plus" -> 1
                    [] zone = "minus" -> 2 [] zone = "zulu" -> 3

SuffixBefore(x, y) ==
    \/ ZoneRank(x.zone) < ZoneRank(y.zone)
    \/ x.zone = y.zone /\ x.shift < y.shift

\* The order of two ISO texts as strings: local time first, then the suffix.
TextBefore(t, u) ==
    \/ Local(t) < Local(u)
    \/ Local(t) = Local(u) /\ SuffixBefore(t.suffix, u.suffix)

-----------------------------------------------------------------------------
(* Metrics *)

SensorMetrics == {"temperature_c", "humidity_percent", "rssi_dbm"}
Metrics == SensorMetrics \cup {"battery_percent"}
MOLD_RISK_METRIC_KEY == "mold_risk_level"

_METRIC_RANGES ==
    [temperature_c |-> -50..100, humidity_percent |-> 0..100,
     battery_percent |-> 0..100, rssi_dbm |-> -200..0, mold_risk_level |-> 0..10]

\* _coerce_float or _coerce_int, then the range: what is left is a number in range.
_validated_metric(key, value) ==
    IF value \notin {None, Bad} /\ value \in _METRIC_RANGES[key] THEN value ELSE None

OfType(sensors, key) == {i \in DOMAIN sensors : sensors[i].metric = key}

\* Mutant: the list shape is not range-checked.
UncheckedSensorMetric(sensors, key) ==
    LET of_type == OfType(sensors, key)
    IN  IF of_type = {} \/ sensors[Max(of_type)].value = Bad THEN None
        ELSE sensors[Max(of_type)].value

\* The list shape: the last sensor of a type decides, whether it is valid or not.
SensorMetric(sensors, key) ==
    LET of_type == OfType(sensors, key)
    IN  IF of_type = {} THEN None ELSE _validated_metric(key, sensors[Max(of_type)].value)

\* A payload is [sensors, battery, batteryPercentage, recorded, time] in the list
\* shape, and has the metrics as keys of their own in the flat one (also when they
\* are nested under "data").
IsList(payload) == "sensors" \in DOMAIN payload

ListMetrics(payload) ==
    [key \in Metrics |->
        IF key = "battery_percent"
        THEN _validated_metric(key, ValueOr(payload.batteryPercentage, payload.battery))
        ELSE SensorMetric(payload.sensors, key)]

FlatMetrics(payload) ==
    [key \in Metrics |-> _validated_metric(key, payload[key])]

\* AirthingsLatestSample.from_api_payload, called at the time now.
from_api_payload(payload, now) ==
    [recorded_at |-> _coerce_datetime(TimeOr(payload.recorded, payload.time), now),
     metrics |-> IF IsList(payload) THEN ListMetrics(payload) ELSE FlatMetrics(payload)]

\* The same reading in the list shape.
AsList(payload) ==
    [sensors |-> SetToSeq({[metric |-> key, value |-> payload[key]] : key \in SensorMetrics}),
     battery |-> None, batteryPercentage |-> payload.battery_percent,
     recorded |-> payload.recorded, time |-> payload.time]

-----------------------------------------------------------------------------
(* Capabilities *)

supports_mold_risk(device_model) == device_model = "WAVE_MINI"

\* The metrics a capability exists for: rssi_dbm is not among them.
Candidates == {"temperature_c", "humidity_percent", "battery_percent", MOLD_RISK_METRIC_KEY}

\* capabilities_for_device, for a latest state with the metrics it shows, a
\* function from some metric keys.
capabilities_for_device(device_model, metrics) ==
    {key \in Candidates \cap DOMAIN metrics : metrics[key] # None}
        \cup {"refresh"}
        \cup (IF supports_mold_risk(device_model) THEN {MOLD_RISK_METRIC_KEY} ELSE {})
=============================================================================
