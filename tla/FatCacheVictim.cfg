CONSTANTS
    Readers = {r1, r2}
    Writer = w
    MaxCluster = 7
    MaxCache = 1
    MaxLen = 3
    MaxId = 2
    AllocFails = FALSE
    r1 = r1
    r2 = r2
    w = w
SPECIFICATION Spec
INVARIANTS VictimExists
SYMMETRY Symmetry
