CONSTANTS
    Inodes = {f, g}
    Dirs = {}
    MaxCluster = 5
    SecPerClus = 1
    MaxBlocks = 2
    BadClusters = {}
    InitCounts <- McUnknown
    Faults = {"chain_io"}
    ErrorsRo = TRUE
    NoOne = NoOne
    f = f
    g = g
SPECIFICATION Spec
INVARIANTS NoFreeInUse
