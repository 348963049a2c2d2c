SPECIFICATION FairSpec
CONSTANTS
    PublishInterval = 10
    SweepInterval = 13
    TTL = 17
    MaxMissed = 3
    MaxDelay = 2
    MaxLag = 1
    MaxLost = 4
    MaxChecks = 3
    MaxSkipped = 2
INVARIANTS
    IInv
    LateAsCounted
    SilentIsOffered
PROPERTIES
    AliveIsKept
    BecomesKnown
