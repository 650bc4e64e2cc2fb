CONSTANTS
    Obligations <- MCObligations
SPECIFICATION VerdictSpec
INVARIANT ExhaustionIsInconclusive
CHECK_DEADLOCK FALSE
