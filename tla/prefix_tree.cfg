SPECIFICATION Spec
CONSTANTS
    a = a
    b = b
    stray = stray
    RuneError = RuneError
    Nil = Nil
    NotFound = NotFound
    v1 = v1
    v2 = v2
    Keys <- SomeKeys
    Values = {Nil, v1, v2}
    Characters = {a, b, RuneError}
    StrayBytes = {stray}
INVARIANTS
    TypeOK
    StoredAnswers
    StoredBelowIsSeen
