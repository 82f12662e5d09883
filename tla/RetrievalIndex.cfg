SPECIFICATION FairSpec
CONSTANTS
    MaxDocument = 1
    MaxPage = 1
    MaxVersion = 1
    Sections <- ThreeThenTwo
    LIMIT = 1
    MAX_PAGES = 2
    BATCH_SIZE = 2
    Runs = {r1, r2}
INVARIANTS
    EmbeddingsAreOfTheirText
    DocumentsAreWhole
PROPERTY RunsEnd
