SPECIFICATION FairSpec
CONSTANTS
    Configs = {c1}
    Serials = {s1, s2}
    Samples = {t1}
    Gens = {g1, g2}
    Configurers = {w1}
    Commanders = {m1}
    Refreshers = {}
    None = None
    MaxInFlight = 1
INVARIANTS
    HealthEvents
PROPERTIES
    ImplementsDeviceHealth
    RequestsAnswered
    PollingNeverStops
    SnapshotHeals
    ConnectedHeals
