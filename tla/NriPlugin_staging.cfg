SPECIFICATION FairSpec
CONSTANTS
    c1 = c1
    NoContainer = NoContainer
    Container = {c1}
    Sure = {}
    Pods <- AnyAnswer
    Excluded = {}
    GiveUp = 0
    SweepInterval = 2
    OrphanAge = 3
    MaxExits = 1
    MaxDrops = 1
    MaxIOErrors = 1
    MaxScans = 2
INVARIANT TypeOK
INVARIANT LiveKeepsDir
INVARIANT NoFalseMissed
PROPERTY UntrackedReclaimed
