SPECIFICATION Spec
CONSTANTS
    Claims = {c1}
    Users = {alice}
    Products = {"household", "unknown"}
    ClaimTypes = {"theft"}
    Uploads <- SomeUploads
    Requests = {p1}
    MaxRuns = 3
INVARIANTS
    OneReviewAtATime
    DecisionShowsItsReview
    OneHumanDecision
PROPERTIES
    AuditTrailIsAPath
    ImplementsLifecycle
