SPECIFICATION LFairSpec
CONSTANTS
    Configs = {c1, c2}
    Serials = {s1}
    Samples = {t1}
    Gens = {g1, g2}
    Configurers = {w1}
    Commanders = {}
    Refreshers = {}
    None = None
    MaxInFlight = 1
    ContainerIds = {k1}
    Tokens = {x1}
PROPERTIES
    ShutdownEnds
