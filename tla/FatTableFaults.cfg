CONSTANTS
    Inodes = {f, d}
    Dirs = {d}
    MaxCluster = 5
    SecPerClus = 1
    MaxBlocks = 3
    BadClusters = {}
    InitCounts <- McUnknown
    Faults <- McAllButChainIo
    ErrorsRo = TRUE
    NoOne = NoOne
    f = f
    d = d
SPECIFICATION Spec
INVARIANTS NoSharedCluster NoFreeInUse FreeCountExact EveryBlockBacked
PROPERTIES ImplementsPool
