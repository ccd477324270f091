SPECIFICATION Spec
CONSTANTS
    c1 = c1
    c2 = c2
    NoContainer = NoContainer
    Container = {c1, c2}
    Sure = {}
    Pods <- FlakyOptIn
    Excluded = {}
    GiveUp = 0
    SweepInterval = 2
    OrphanAge = 3
    MaxExits = 0
    MaxDrops = 0
    MaxIOErrors = 0
    MaxScans = 1
SYMMETRY ContainerSymmetry
INVARIANT MissedComplete
