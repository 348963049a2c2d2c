SPECIFICATION Spec
CONSTANTS
    q1 = q1
    q2 = q2
    f1 = f1
    Downloads = {q1, q2}
    Files = {f1}
    NumSegments = 2
    Overlapping = TRUE
INVARIANT
    DeliveredWhole
CHECK_DEADLOCK FALSE
