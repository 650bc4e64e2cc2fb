CONSTANTS
    s1 = s1
    Kinds <- MCKinds
    Sources <- MCSources
    Documents = {}
    Flagged = {}
    Reworked <- MCReworked
    Contracts <- MCContracts
    Claims <- MCClaims
    Backends <- MCBackends
    Reports <- MCReports
    Reviewable <- MCReviewable
    Quota <- MCQuota
    MaxVersions = 2
SPECIFICATION Spec
INVARIANTS
    ResultsStandOnApprovedPlan
    ResultsHaveMeaning
    VerdictsShareAncestry
CHECK_DEADLOCK FALSE
