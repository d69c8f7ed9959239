CONSTANTS
    Names = {n1, n2}
    Slots = {s1, s2, s3}
    Inodes = {i1, i2}
    Files = {f1, f2}
    Threads = {t1, t2}
    MaxVer = 1
    None = None
    n1 = n1
    n2 = n2
    s1 = s1
    s2 = s2
    s3 = s3
    i1 = i1
    i2 = i2
    f1 = f1
    f2 = f2
    f3 = f3
    t1 = t1
    t2 = t2
SPECIFICATION Spec
INVARIANTS TypeOK OneInode FreeUnhashed CleanAgrees
PROPERTIES KeepsNames
SYMMETRY Symmetry
