CONSTANTS
    Readers = {r1, r2}
    Writer = w
    MaxCluster = 7
    MaxCache = 2
    MaxLen = 5
    MaxId = 2
    AllocFails = FALSE
    r1 = r1
    r2 = r2
    w = w
SPECIFICATION Spec
INVARIANTS CacheAgrees
SYMMETRY Symmetry
