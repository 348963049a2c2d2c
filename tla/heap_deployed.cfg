SPECIFICATION FairSpec
CONSTANTS
    d1 = d1
    d2 = d2
    d3 = d3
    Datastores = {d1, d2, d3}
    Statuses <- VaryingLoad
    K = 13
    MaxMissed = 3
    ScoreModulus = 4096
    MaxSilent = 2
INVARIANTS
    TypeOK
    MapMatchesHeap
    IndexIsSafe
    TopKIsBest
PROPERTIES
    ImplementsRegistry
    SweepCounts
    SilentIsDropped
