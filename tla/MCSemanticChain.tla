-------------------------- MODULE MCSemanticChain --------------------------
(***************************************************************************)
(* Instances of SemanticChain for TLC.                                     *)
(***************************************************************************)
EXTENDS SemanticChain

CONSTANTS s1

MCSources == {s1}

MCKinds == PipelineKinds \cup SemanticKinds

MCContracts == {[holes |-> FALSE], [holes |-> TRUE]}
WholeContract == {[holes |-> FALSE]}

Claim(critical, unresolved) ==
    [required |-> "G3", methods |-> {}, unresolved |-> unresolved, critical |-> critical]

MCClaims == {Claim(TRUE, FALSE), Claim(TRUE, TRUE), Claim(FALSE, TRUE)}
ResolvedClaim == {Claim(TRUE, FALSE)}

MCBackends == {Reference, Hyperon, Hypothesis}

\* Only Hypothesis fails here: what the outcomes amount to is checked in
\* VerdictComposition.
MCReports ==
    [runtime \in Runtimes |->
        {[exit |-> Finished, seen |-> Expected]}
            \cup {outcome \in {[exit |-> Crashed, seen |-> Wrong]} : runtime = Hypothesis}]

MCReviewable == {<<Plan, 1>>}

\* Everything a plan stands on, the plan, its review and the evidence have a
\* second version.
MCReworked == {ReviewLog, ReviewedSpec, ReviewedTests}
MCQuota ==
    [kind \in Kinds |->
        IF kind \in MCReworked \cup
            {OriginalSpec, Contract, Obligation, Plan, PlanReview, RuntimeEvidence}
        THEN 2 ELSE 1]
=============================================================================
