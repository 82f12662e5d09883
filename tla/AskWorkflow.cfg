SPECIFICATION FairSpec
CHECK_DEADLOCK FALSE
CONSTANTS
    Tools = {time, event}
    ReadOnlyTools = {time}
    MaxCalls = 2
INVARIANTS
    AnswersAreGrounded
    CallsAreAudited
    ToolsDegradeToRetrieval
PROPERTIES
    QuestionsEnd
