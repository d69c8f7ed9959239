CONSTANTS
    Clusters = {c1, c2}
    Threads = {t1, t2}
    Crashes = TRUE
    IoFails = TRUE
    c1 = c1
    c2 = c2
    t1 = t1
    t2 = t2
SPECIFICATION Spec
INVARIANTS TypeOK CleanIsWhole CrashRemembered CleanCountRight ValidCountRight
SYMMETRY Symmetry
