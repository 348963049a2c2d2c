SPECIFICATION Spec
CONSTANTS
    d1 = d1
    d2 = d2
    Datastores = {d1, d2}
    Statuses <- FillingUp
    K = 13
    MaxMissed = 3
    ScoreModulus = 4096
    MaxSilent = 2
INVARIANTS
    HigherScorePreferred
