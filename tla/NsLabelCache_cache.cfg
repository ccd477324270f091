SPECIFICATION FairSpec
CONSTANTS
    p1 = p1
    p2 = p2
    None = None
    Caller = {p1, p2}
    Label = {"on", "off"}
    TTL = 1
    Budget = 2
    Attempt = 1
    Delay = 1
    TokenTTL = 1
    Deadlines = {1, 3}
    Overlaps = {0, 2}
    MaxGen = 2
INVARIANT TypeOK
INVARIANT BudgetKept
INVARIANT BoundedStaleness
INVARIANT NoUnauthorized
PROPERTY LookupEnds
