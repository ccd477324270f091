SPECIFICATION Spec
CONSTANTS
    BackoffMin = 1
    BackoffMax = 2
    GiveUp = 2
    AttemptMax = 1
    MaxRequests = 3
INVARIANT CleanExit
