CONSTANTS
    Names <- MCNames
    Form <- MCForm
    Setups <- MCSetups
    Clusters = {c0, c1, c2, c3}
    Root = c0
    Inodes = {i1, i2, i3}
    Spb = 2
    Bpc = 2
    MaxSlots = 8
    None = None
    c0 = c0
    c1 = c1
    c2 = c2
    c3 = c3
    i1 = i1
    i2 = i2
    i3 = i3
SPECIFICATION SpecRecovery
INVARIANTS TypeOK OneAnswer NoStrays NegativeTrue AlwaysNamed TreeRight ListedOnce
PROPERTIES KeepsTree RecoveryExact
