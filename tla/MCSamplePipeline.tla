--------------------------- MODULE MCSamplePipeline ---------------------------
(* The payloads for the checks of SamplePipeline.                            *)
EXTENDS SamplePipeline

Flat(recorded, temperature, humidity, battery) ==
    [temperature_c |-> temperature, humidity_percent |-> humidity, rssi_dbm |-> -60,
     battery_percent |-> battery, recorded |-> recorded, time |-> None]

Sensor(key, value) == [metric |-> key, value |-> value]

\* Readings on, before and beyond the edge of the window of 48 hours, one text
\* read with other values, and the same and other instants with other suffixes.
ScoredPayloads ==
    {Flat(Text(0, Plus(0)), 22, 92, 94), Flat(Text(1440, Plus(0)), 22, 92, 94),
     Flat(Text(1440, Plus(0)), 3, 80, 0), Flat(Text(2880, Plus(0)), 22, 92, None),
     Flat(Text(2881, Plus(0)), 32, 60, 94), Flat(Text(1410, Plus(60)), 22, 92, 94),
     Flat(Text(1500, Minus(60)), 22, 92, 94), Flat(Text(1440, Zulu), 22, 92, 94),
     Flat(Text(1440, Naive), 22, 92, 94)}

\* Values to reject, times to replace or to choke on, and the list shape.
OddPayloads ==
    {Flat(Number(0), 22, 101, 101), Flat(Bad, 22, 92, 94), Flat(Overflow, Bad, 92, 94),
     [sensors |-> <<Sensor("temperature_c", 22), Sensor("humidity_percent", 80),
                    Sensor("temperature_c", 200)>>,
      battery |-> 0, batteryPercentage |-> None, recorded |-> Number(0), time |-> None],
     [sensors |-> <<Sensor("humidity_percent", 92), Sensor("temperature_c", 22)>>,
      battery |-> 0, batteryPercentage |-> 94, recorded |-> None, time |-> None]}

AllPayloads == ScoredPayloads \cup OddPayloads

OneClock == {2900}
=============================================================================
