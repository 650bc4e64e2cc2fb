CONSTANTS
    Submitted <- MCSubmitted
    Decidable <- MCDecidable
    MaxFindings = 2
    None = None
SPECIFICATION Spec
INVARIANTS
    FindingsAreExact
    OnlyRepetitionIsUnreadable
PROPERTY
    ReplayKeepsDecisions
CHECK_DEADLOCK FALSE
