SPECIFICATION Spec
CHECK_DEADLOCK FALSE
SYMMETRY Symmetry
CONSTANTS
    Users = {u1, u2}
    Workers = {w1, w2}
    MaxStates = 2
    MaxGrants = 2
    MaxTokens = 3
INVARIANTS
    CredentialsAreOwn
    StatesAreUsedOnce
