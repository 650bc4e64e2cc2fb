CONSTANTS
    t1 = t1
    t2 = t2
    Kinds <- MCKinds
    Contents <- MCContents
    Inputs <- StagedInputs
    Reviewable <- MCReviewable
    Commented <- MCCommented
    MaxVersions = 2
SPECIFICATION Spec
INVARIANTS
    LiveInputsAreLive
    LineageIsTheLoop
    Inv
PROPERTIES
    HistoryOnlyGrows
    LostApprovalsCascade
CHECK_DEADLOCK FALSE
