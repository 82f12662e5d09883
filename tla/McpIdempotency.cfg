SPECIFICATION FairSpec
CONSTANTS
    Keys = {k1, k2}
    Requests = {q1, q2, q3}
INVARIANTS
    OneRunPerKey
    OneEventPerKey
    SuccessIsReal
    AuditedSuccessReplays
PROPERTIES
    KeySettles
    ImplementsContract
CHECK_DEADLOCK FALSE
