SPECIFICATION Spec
CHECK_DEADLOCK FALSE
SYMMETRY WorkerSymmetry
CONSTANTS
    Emails = {ada, bob}
    Workers = {w1, w2}
    MaxUsers = 2
    MaxTokens = 2
    MaxSessions = 2
    MaxResets = 3
INVARIANTS
    OneAccountPerEmail
    OldSessionsWereOvertaken
PROPERTY UsedTokensAreNotFound
