CONSTANTS
    Obligations <- MCObligations
SPECIFICATION VerdictSpec
INVARIANT
    PassIsUncontradicted
PROPERTIES
    RefutationStands
    OnlyCleanRunsPromote
CHECK_DEADLOCK FALSE
