CONSTANTS
    s1 = s1
    s2 = s2
    d1 = d1
    d2 = d2
    x1 = x1
    x2 = x2
    files = files
    Kinds <- PipelineKinds
    Sources <- MCSources
    Documents <- OneDocument
    Flagged <- NoneFlagged
    Bundles <- OneBundle
    Reviews <- FrontReviews
    Reviewable <- MCReviewable
    Reworked <- FrontReworked
    Commented <- MCCommented
    MaxVersions = 2
SPECIFICATION Spec
INVARIANTS
    ReviewsBindCurrentSpecs
    LogicalIRBindsSnapshots
    ResultsTraceToApprovals
CHECK_DEADLOCK FALSE
