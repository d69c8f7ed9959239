CONSTANTS
    Readers = {r1, r2}
    Writers = {w1, w2, w3}
    Rounds = 2
    NoOne = NoOne
    r1 = r1
    r2 = r2
    w1 = w1
    w2 = w2
    w3 = w3
SPECIFICATION FairSpec
INVARIANTS TypeOK NoLostWakeup ResultRight
PROPERTIES ImplementsResource Finishes
CHECK_DEADLOCK FALSE
