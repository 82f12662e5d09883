SPECIFICATION FairSpec
CONSTANTS
    Claims = {c1}
    Users = {alice}
    Products = {"household", "unknown"}
    ClaimTypes = {"theft"}
    Uploads <- SomeUploads
    Requests = {p1, p2}
    MaxRuns = 2
INVARIANTS
    TypeOK
    DocumentedBeforeReview
    ReviewFindsNothingMissing
    DecisionBackedByReview
PROPERTIES
    FinishedRunIsFinal
    ReviewSettles
