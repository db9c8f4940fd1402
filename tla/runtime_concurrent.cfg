SPECIFICATION Spec
CONSTANTS
    Configs = {c1}
    Serials = {s1}
    Samples = {t1}
    Gens = {g1, g2}
    Configurers = {w1, w2}
    Commanders = {m1}
    Refreshers = {r1}
    None = None
    MaxInFlight = 1
SYMMETRY Symmetry
INVARIANTS
    SlotIsLive
    RegisteredIsPolled
