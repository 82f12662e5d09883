SPECIFICATION FairSpec
CONSTANTS
    Users = {u1, u2}
    Threads = {t1}
    Workers = {w1, w2}
    MaxTurns = 2
    SHORT_MEMORY_LIMIT = 2
    LONG_MEMORY_LIMIT = 1
INVARIANTS
    ThreadsArePrivate
    TurnsStayTogether
    AnswersFitQuestions
PROPERTIES
    CallsEnd
