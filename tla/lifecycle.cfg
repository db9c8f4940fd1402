SPECIFICATION LSpec
CONSTANTS
    Configs = {c1, c2}
    Serials = {s1}
    Samples = {t1}
    Gens = {g1, g2}
    Configurers = {w1}
    Commanders = {m1}
    Refreshers = {}
    None = None
    MaxInFlight = 1
    ContainerIds = {k1, k2}
    Tokens = {x1, x2}
SYMMETRY Symmetry
INVARIANTS
    LTypeOK
    RequestsAreOwners
    DownIsClean
PROPERTIES
    BootstrapsOnce
