CONSTANTS
    Inodes = {f, d}
    Dirs = {d}
    MaxCluster = 6
    SecPerClus = 2
    MaxBlocks = 6
    BadClusters = {4}
    InitCounts <- McInitCounts
    Faults = {}
    ErrorsRo = TRUE
    NoOne = NoOne
    f = f
    d = d
SPECIFICATION Spec
INVARIANTS TypeOK NoFsError SettledExact
PROPERTIES EnospcIsTrue MapsWhatItTook
