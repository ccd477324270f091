SPECIFICATION FairSpec
CONSTANTS
    Timeout = 6
    Polls = 5
    MaxDelay = 6
INVARIANT TypeOK
INVARIANT CountedRightly
PROPERTY KilledCounted
