---------------------------- MODULE SemanticChain ----------------------------
(***************************************************************************)
(* The semantic chain of one project: a contract and an obligation on the  *)
(* reviewed specification, a validation plan over both, its review, the    *)
(* evidence of the runtimes the plan authorizes, counterexamples and the   *)
(* verdict.  Every document enters through add_semantic_artifact of        *)
(* specatom_hs/projects.py, so the rules of Projects apply to all of it.   *)
(*                                                                         *)
(* Kept of the documents: whether a contract has holes; an obligation's    *)
(* required grade, methods and what is unresolved or critical in it;       *)
(* what a review decided; what a runtime saw.  As in Phases a function     *)
(* that may raise is the set of projects it returns.                       *)
(***************************************************************************)
EXTENDS Phases, Verdicts

CONSTANTS
    Sources,        \* texts of the original specification
    Contracts,      \* records [holes]
    Claims,         \* obligations, records [required, methods, unresolved, critical]
    Backends,       \* bound: the runtimes that an instance runs
    Reports,        \* bound: runtime -> what it may report here, a part of Admitted
    Reviewable,     \* bound: artifact ids that single decisions are given on
    Quota           \* bound: kind -> versions of it that an instance makes

Contract == "semantic-contract"
Obligation == "validation-obligation"
Plan == "validation-plan"
PlanReview == "validation-plan-review"
Counterexample == "counterexample"
Verdict == "validation-verdict"

SemanticKinds ==
    {Contract, Obligation, Plan, PlanReview, RuntimeEvidence, Counterexample, Verdict}

ASSUME SemanticChainAssumption ==
    /\ SemanticKinds \subseteq Kinds
    /\ Quota \in [Kinds -> 0..MaxVersions]
    /\ Backends \subseteq Runtimes
    /\ \A runtime \in Backends : Reports[runtime] \subseteq Admitted(runtime)

VARIABLE project

-----------------------------------------------------------------------------
\* Documents.

LiveIds(p, kind) == {<<kind, v>> : v \in LiveVersions(p, kind)}

AddSemantic(p, kind, content, refs) ==
    IF /\ HasCurrent(p, ReviewedSpec) /\ Current(p, ReviewedSpec) \in refs
       /\ CanAddDerived(p, kind, refs)
       /\ Len(p.artifacts[kind]) < Quota[kind]           \* bound
    THEN {AddDerived(p, kind, content, refs)}
    ELSE {}

AuthorContract(p, contract) ==
    IF HasCurrent(p, ReviewedSpec)
    THEN AddSemantic(p, Contract, contract, {Current(p, ReviewedSpec)})
    ELSE {}

AuthorObligation(p, claim) ==
    IF AllCurrent(p, {ReviewedSpec, Contract})
    THEN AddSemantic(p, Obligation, claim, {Current(p, ReviewedSpec), Current(p, Contract)})
    ELSE {}

-----------------------------------------------------------------------------
\* The plan and its review.

Authored == "authored"
EditedPlan == "edited-plan"

PlanInputs(p) == LiveIds(p, Contract) \cup LiveIds(p, Obligation)

SynthesizePlan(p) ==
    IF /\ AllCurrent(p, {ReviewedSpec, Contract, Obligation})
       /\ \A id \in PlanInputs(p) : Current(p, ReviewedSpec) \in Artifact(p, id).upstream
    THEN AddSemantic(p, Plan, Authored, {Current(p, ReviewedSpec)} \cup PlanInputs(p))
    ELSE {}

CriticalMeaningResolved(p) ==
    /\ \A id \in LiveIds(p, Contract) : ~Artifact(p, id).content.holes
    /\ \A id \in LiveIds(p, Obligation) :
         ~(Artifact(p, id).content.critical /\ Artifact(p, id).content.unresolved)

AddPlanReview(p, content) ==
    IF /\ CanAddDerived(p, PlanReview, {Current(p, Plan)})
       /\ Len(p.artifacts[PlanReview]) < Quota[PlanReview]      \* bound
    THEN {AddDerived(p, PlanReview, content, {Current(p, Plan)})}
    ELSE {}

\* A plan with the reviewer's edits cites what the plan before it cites, and
\* that plan.
EditPlan(p) == AddSemantic(p, Plan, EditedPlan, Upstream(p, Plan) \cup {Current(p, Plan)})

\* Fault: approval does not look at what is unresolved.
SubmitPlanReviewUnresolved(p, decision, edited) ==
    IF ~HasCurrent(p, Plan) \/ (edited /\ decision # Approved) THEN {} ELSE
    Then(IF edited THEN EditPlan(p) ELSE {p}, LAMBDA q :
    Then(AddPlanReview(q, [plan |-> Current(q, Plan), decision |-> decision, edited |-> edited]),
         LAMBDA r : Decided(r, Current(q, Plan), decision)))

SubmitPlanReview(p, decision, edited) ==
    IF ~HasCurrent(p, Plan) \/ (edited /\ decision # Approved) THEN {} ELSE
    Then(IF edited THEN EditPlan(p) ELSE {p}, LAMBDA q :
    Then(IF decision = Approved /\ ~CriticalMeaningResolved(q) THEN {} ELSE
            AddPlanReview(q, [plan |-> Current(q, Plan), decision |-> decision, edited |-> edited]),
         LAMBDA r : Decided(r, Current(q, Plan), decision)))

\* validate_plan_review_chain, applied by the loader and by every backend.
PlanReviewLoads(p) ==
    HasCurrent(p, PlanReview) =>
        /\ HasCurrent(p, Plan)
        /\ Upstream(p, PlanReview) = {Current(p, Plan)}
        /\ ContentOf(p, PlanReview).plan = Current(p, Plan)
        /\ p.approvals[Current(p, Plan)] = ContentOf(p, PlanReview).decision

\* Fault: any review will do.
PlanIsReviewed(p) == AllCurrent(p, {ReviewedSpec, Plan, PlanReview}) /\ PlanReviewLoads(p)

PlanIsApproved(p) ==
    /\ AllCurrent(p, {ReviewedSpec, Plan, PlanReview})
    /\ PlanReviewLoads(p)
    /\ IsApproved(p, Current(p, Plan))

-----------------------------------------------------------------------------
\* Evidence and counterexamples.

Ancestry(p) == Upstream(p, Plan) \cup {Current(p, Plan), Current(p, PlanReview)}

AddEvidence(p, runtime, outcome) ==
    AddSemantic(p, RuntimeEvidence, [runtime |-> runtime, outcome |-> outcome], Ancestry(p))

\* A failing run of Hypothesis or TLC comes with its counterexample.
AddEvidenceAndCounterexample(p, runtime, outcome) ==
    Then(AddEvidence(p, runtime, outcome), LAMBDA q :
         LET found == Current(q, RuntimeEvidence) IN
         IF Unmatched(outcome)
         THEN AddSemantic(q, Counterexample, found, Ancestry(q) \cup {found})
         ELSE {q})

\* Both runtimes of the pair, or nothing of either.
RunPair(p, outcomes) ==
    IF ~PlanIsApproved(p) THEN {} ELSE
    Then(AddEvidence(p, Reference, outcomes[Reference]), LAMBDA q :
         AddEvidence(q, Hyperon, outcomes[Hyperon]))

RunBackend(p, runtime, outcome) ==
    IF ~PlanIsApproved(p) THEN {} ELSE
    IF runtime \in {Hypothesis, TLC}
    THEN AddEvidenceAndCounterexample(p, runtime, outcome)
    ELSE AddEvidence(p, runtime, outcome)

-----------------------------------------------------------------------------
\* The verdict on an obligation from chosen evidence of different runtimes.

Separate(p, chosen) ==
    \A i, j \in chosen : Artifact(p, i).content.runtime = Artifact(p, j).content.runtime => i = j

OutcomesOf(p, chosen) ==
    [runtime \in {Artifact(p, id).content.runtime : id \in chosen} |->
        Artifact(p, CHOOSE id \in chosen : Artifact(p, id).content.runtime = runtime).content.outcome]

Composable(p, chosen) ==
    /\ PlanIsApproved(p)
    /\ HasCurrent(p, Obligation) /\ Current(p, Obligation) \in Upstream(p, Plan)
    /\ chosen # {} /\ chosen \subseteq LiveIds(p, RuntimeEvidence)
    /\ Separate(p, chosen)
    /\ \A id \in chosen : {Current(p, Plan), Current(p, Obligation)} \subseteq Artifact(p, id).upstream

CounterexamplesTo(p, chosen) ==
    {id \in LiveIds(p, Counterexample) : Artifact(p, id).content \in chosen}

ComposeVerdict(p, implementation, chosen) ==
    LET claim == ContentOf(p, Obligation)
        found == CounterexamplesTo(p, chosen)
    IN  IF ~IsLive(p, implementation) \/ ~Composable(p, chosen) THEN {} ELSE
        AddSemantic(p, Verdict,
            [status |-> Status(claim, OutcomesOf(p, chosen)),
             evidence |-> chosen, counterexamples |-> found],
            Ancestry(p) \cup {implementation} \cup chosen \cup found)

-----------------------------------------------------------------------------
ApproveSpecs ==
    [entries |-> <<[on |-> ElaboratedSpec, decision |-> Approved, targeted |-> FALSE, commented |-> FALSE],
                   [on |-> TestSpec, decision |-> Approved, targeted |-> FALSE, commented |-> FALSE]>>,
     edited |-> FALSE]

\* A project whose specifications have been reviewed and approved.
Init ==
    \E source \in Sources :
        project \in Then(SubmitElaboratedSpec(NewProject(source)), LAMBDA p :
                    Then(SubmitTestSpec(p), LAMBDA q : SubmitPhase3Review(q, ApproveSpecs)))

Author ==
    \/ \E contract \in Contracts : project' \in AuthorContract(project, contract)
    \/ \E claim \in Claims : project' \in AuthorObligation(project, claim)
    \/ project' \in SynthesizePlan(project)

ReviewThePlan ==
    \E decision \in ReviewDecisions, edited \in BOOLEAN :
        project' \in SubmitPlanReview(project, decision, edited)

Execute ==
    \/ /\ DualRuntimes \subseteq Backends
       /\ \E left \in Reports[Reference], right \in Reports[Hyperon] :
            project' \in RunPair(project, [runtime \in DualRuntimes |->
                                    IF runtime = Reference THEN left ELSE right])
    \/ \E runtime \in Backends \ DualRuntimes : \E outcome \in Reports[runtime] :
            project' \in RunBackend(project, runtime, outcome)

\* The implementation judged is any artifact; here a contract, as in the
\* evaluation vertical.
Judge ==
    \E implementation \in LiveIds(project, Contract), chosen \in SUBSET LiveIds(project, RuntimeEvidence) :
        project' \in ComposeVerdict(project, implementation, chosen)

ReviewSpecsAgain ==
    /\ Len(project.artifacts[ReviewLog]) < Quota[ReviewLog]     \* bound
    /\ project' \in SubmitPhase3Review(project, ApproveSpecs)

GiveDecision ==
    \E id \in Ids(project) \cap Reviewable, decision \in ReviewDecisions :
        project' \in Decided(project, id, decision)

ReplaceOriginal ==
    /\ CanReplaceSource(project)
    /\ Len(project.artifacts[OriginalSpec]) < Quota[OriginalSpec]   \* bound
    /\ \E source \in Sources : project' = ReplaceSource(project, source)

Next ==
    \/ Author
    \/ ReviewThePlan
    \/ Execute
    \/ Judge
    \/ ReviewSpecsAgain
    \/ GiveDecision
    \/ ReplaceOriginal

Spec == Init /\ [][Next]_project

-----------------------------------------------------------------------------
Results == {id \in Ids(project) : id[1] \in {RuntimeEvidence, Counterexample, Verdict}}

LiveResults == {id \in Results : IsLive(project, id)}

\* Every result that is current was reached under the plan, review, contract,
\* obligation and reviewed source that are current now, and the plan is still
\* approved: no order of new documents, reviews, edits and withdrawals leaves
\* evidence or a verdict standing on a plan nobody approves any more.
ResultsStandOnApprovedPlan ==
    \A id \in LiveResults :
        /\ IsApproved(project, Current(project, Plan))
        /\ \A kind \in {ReviewedSpec, Contract, Obligation, Plan, PlanReview} :
             HasCurrent(project, kind) /\ Current(project, kind) \in Artifact(project, id).lineage

\* No result is reached while the meaning of the contract, or of a critical
\* obligation, is unresolved, though it is looked at only once, when the plan
\* is approved.
ResultsHaveMeaning == LiveResults # {} => CriticalMeaningResolved(project)

\* A verdict rests on evidence that is all still current, and each piece of
\* it is about the plan and the obligation the verdict is about.
VerdictsShareAncestry ==
    HasCurrent(project, Verdict) =>
        \A id \in ContentOf(project, Verdict).evidence \cup ContentOf(project, Verdict).counterexamples :
            /\ IsLive(project, id)
            /\ {Current(project, Plan), Current(project, Obligation)}
                 \subseteq Artifact(project, id).upstream

-----------------------------------------------------------------------------
(***************************************************************************)
(* A statement of the documentation that the code does not keep.           *)
(***************************************************************************)

\* dual_runtime.py:77 "Run reviewed implementations; expectations come only
\* from the approved plan": once a plan is approved it can be run.  Every
\* backend cites what the plan cites, and add_semantic_artifact wants that
\* current.
ApprovedPlansCanRun ==
    PlanIsApproved(project) => \A id \in Ancestry(project) : IsLive(project, id)
=============================================================================
