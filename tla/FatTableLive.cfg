CONSTANTS
    Inodes = {f, g}
    Dirs = {}
    MaxCluster = 4
    SecPerClus = 1
    MaxBlocks = 2
    BadClusters = {}
    InitCounts <- McUnknown
    Faults = {"read", "cut_io"}
    ErrorsRo = FALSE
    NoOne = NoOne
    f = f
    g = g
SPECIFICATION FairSpec
PROPERTIES Finishes
