CONSTANTS
    s1 = s1
    s2 = s2
    d1 = d1
    d2 = d2
    x1 = x1
    x2 = x2
    files = files
    Kinds <- PipelineKinds
    MaxVersions = 3
    Documents <- MCDocuments
    Flagged <- MCFlagged
    Bundles <- MCBundles
    Reworked <- MCReworked
    Starts <- MCStarts
    Requests <- MCRequests
SPECIFICATION Spec
INVARIANTS
    LossNeedsOverlap
    ResultsStandOnWhatWasSent
    RefusedSavesAreKnown
    StoredArtifactsAreShown
PROPERTY
    CallsAreAnswered
