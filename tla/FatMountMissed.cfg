CONSTANTS
    Clusters = {c1, c2}
    Threads = {t1, t2}
    Crashes = FALSE
    IoFails = FALSE
    c1 = c1
    c2 = c2
    t1 = t1
    t2 = t2
SPECIFICATION Spec
INVARIANTS ValidMeansValid
SYMMETRY Symmetry
