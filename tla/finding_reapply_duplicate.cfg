SPECIFICATION Spec
CONSTANTS
    Configs = {c1}
    Serials = {s1}
    Samples = {t1}
    Gens = {g1, g2}
    Configurers = {w1}
    Commanders = {}
    Refreshers = {}
    None = None
    MaxInFlight = 1
SYMMETRY Symmetry
INVARIANTS
    ReapplyKeepsDeduplication
