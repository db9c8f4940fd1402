SPECIFICATION Spec
CONSTANTS
    Configs = {c1}
    Serials = {s1}
    Samples = {t1}
    Gens = {g1}
    Configurers = {w1}
    Commanders = {}
    Refreshers = {r1}
    None = None
    MaxInFlight = 1
SYMMETRY Symmetry
INVARIANTS
    EventsOncePerTransition
