SPECIFICATION Spec
CONSTANTS
    q1 = q1
    q2 = q2
    q3 = q3
    f1 = f1
    f2 = f2
    Downloads = {q1, q2, q3}
    Files = {f1, f2}
    NumSegments = 3
    Overlapping = FALSE
SYMMETRY Symmetry
INVARIANTS
    TypeOK
    DeliveredWhole
CHECK_DEADLOCK FALSE
