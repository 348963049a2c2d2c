SPECIFICATION Spec
CONSTANTS
    d1 = d1
    d2 = d2
    Datastores = {d1, d2}
    Statuses <- VaryingLoad
    K = 13
    MaxMissed = 3
    ScoreModulus = 4096
    MaxSilent = 6
PROPERTIES
    RemovedAfterMaxMissed
