SPECIFICATION FairSpec
CONSTANTS
    c1 = c1
    NoContainer = NoContainer
    Container = {c1}
    Sure = {}
    Pods <- AnyAnswer
    Excluded = {}
    GiveUp = 0
    SweepInterval = 2
    OrphanAge = 3
    MaxExits = 0
    MaxDrops = 1
    MaxIOErrors = 0
    MaxScans = 1
PROPERTY OrphanReclaimed
