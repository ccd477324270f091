SPECIFICATION FairSpec
CONSTANTS
    BackoffMin = 1
    BackoffMax = 3
    GiveUp = 4
    AttemptMax = 2
    MaxRequests = 3
INVARIANT TypeOK
INVARIANT DeafBounded
INVARIANT FalseReadyBounded
INVARIANT NoneAbandoned
PROPERTY GiveUpJustified
PROPERTY ShutdownEnds
