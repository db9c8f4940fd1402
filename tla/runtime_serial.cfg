SPECIFICATION Spec
CONSTANTS
    Configs = {c1}
    Serials = {s1, s2}
    Samples = {t1, t2}
    Gens = {g1, g2}
    Configurers = {w1}
    Commanders = {}
    Refreshers = {}
    None = None
    MaxInFlight = 2
SYMMETRY Symmetry
INVARIANTS
    TypeOK
    PendingIsInFlight
    DeliveredWasAccepted
    NoOrphanPoller
    ReplacementHasNoGap
