CONSTANTS
    Flows <- MCFlows
    Contracts <- MCContracts
    Contexts <- MCContexts
    MaxDomain = 2
    None = None
SPECIFICATION CalculationsSpec
INVARIANTS
    EvaluationIsMeaning
    HolesDecideNothing
PROPERTY
    SummaryIsReached
