CONSTANTS
    s1 = s1
    s2 = s2
    d1 = d1
    d2 = d2
    x1 = x1
    x2 = x2
    files = files
    Kinds <- PipelineKinds
    Sources <- OneSource
    Documents <- FlaggedDocument
    Flagged <- MCFlagged
    Bundles <- MCBundles
    Reviews <- BackReviews
    Reviewable <- BackReviewable
    Reworked <- BackReworked
    Commented <- MCCommented
    MaxVersions = 2
SPECIFICATION Spec
INVARIANTS
    OutputBindsApprovedIR
    RunsBindApprovedOutput
    ChainsAreTraceable
CHECK_DEADLOCK FALSE
