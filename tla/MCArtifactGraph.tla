--------------------------- MODULE MCArtifactGraph ---------------------------
(***************************************************************************)
(* Instances of ArtifactGraph for TLC.                                     *)
(***************************************************************************)
EXTENDS ArtifactGraph

CONSTANTS t1, t2

ReviewedSpec == "reviewed-elaborated-spec"
ValidationPlan == "validation-plan"

MCKinds == {OriginalSpec, ReviewedSpec, ValidationPlan, RuntimeEvidence}

\* Only the text of the source is ever compared.
MCContents == [kind \in MCKinds |-> IF kind = OriginalSpec THEN {t1, t2} ELSE {t1}]

MCReviewable == {<<OriginalSpec, 1>>, <<ReviewedSpec, 1>>, <<ReviewedSpec, 2>>, <<ValidationPlan, 1>>}
MCCommented == {<<ReviewedSpec, 1>>}

\* Each kind cites earlier kinds only, as the phases do.
StagedInputs ==
    [kind \in MCKinds |->
        CASE kind = OriginalSpec    -> {}
          [] kind = ReviewedSpec    -> {OriginalSpec}
          [] kind = ValidationPlan  -> {ReviewedSpec}
          [] kind = RuntimeEvidence -> {ReviewedSpec, ValidationPlan}]
=============================================================================
