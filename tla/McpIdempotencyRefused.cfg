SPECIFICATION Spec
CONSTANTS
    Keys = {k1}
    Requests = {q1, q2}
INVARIANT ReplayedResultIsASuccess
CHECK_DEADLOCK FALSE
SYMMETRY CallSymmetry
