CONSTANTS
    Readers = {r1}
    Writer = w
    MaxCluster = 8
    MaxCache = 2
    MaxLen = 4
    MaxId = 3
    AllocFails = TRUE
    r1 = r1
    w = w
SPECIFICATION Spec
INVARIANTS TypeOK CacheAgrees StandsOnChain CountsPlaces MergeAgrees
