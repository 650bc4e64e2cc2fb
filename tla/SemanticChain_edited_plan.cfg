CONSTANTS
    s1 = s1
    Kinds <- MCKinds
    Sources <- MCSources
    Documents = {}
    Flagged = {}
    Reworked <- MCReworked
    Contracts <- WholeContract
    Claims <- ResolvedClaim
    Backends <- MCBackends
    Reports <- MCReports
    Reviewable <- MCReviewable
    Quota <- MCQuota
    MaxVersions = 2
SPECIFICATION Spec
INVARIANTS
    ApprovedPlansCanRun
CHECK_DEADLOCK FALSE
