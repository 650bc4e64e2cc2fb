CONSTANT
    Inputs <- MCInputs
SPECIFICATION Spec
INVARIANTS
    DiagnosticsAgreeWithEmission
    ManifestIsClosed
    OnlySafeClosuresAreLowered
    CleanIsAccepted
    OneVerdict
    UnknownsAreAsked
