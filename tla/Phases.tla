------------------------------- MODULE Phases -------------------------------
(***************************************************************************)
(* Phases 2 to 7 of a project: elaboration, human review, logical IR,      *)
(* compilation, sandbox hand-off, test result, traceability.  Each phase   *)
(* is a function of specatom_hs/projects.py from the immutable project to  *)
(* the next one, built from the operators of Projects.                     *)
(*                                                                         *)
(* A function that may raise is an operator whose value is the set of the  *)
(* projects it returns: one, or none when it raises.  Then chains them, so *)
(* a composite phase in which any part raises returns nothing at all.      *)
(*                                                                         *)
(* The second half is the other side of the contract: the chain rules of   *)
(* project_from_dict, which every save applies before it writes.           *)
(***************************************************************************)
EXTENDS Projects

CONSTANTS
    Documents,      \* logical-IR documents
    Flagged,        \* the documents whose structural review has a critical finding
    Reworked        \* bound: kinds that may get more than one version

ElaborationLog == "elaboration-log"
ElaboratedSpec == "elaborated-spec"
TestSpec == "test-spec"
ReviewLog == "review-log"
ReviewedSpec == "reviewed-elaborated-spec"
ReviewedTests == "reviewed-test-spec"
LogicalIRLog == "logical-ir-log"
LogicalIR == "logical-ir"
LogicalReview == "logical-review"
CompilationLog == "compilation-log"
CompilerOutput == "compiler-output"
SandboxHandoff == "sandbox-handoff"
TestResult == "test-result"
TraceabilityReport == "traceability-report"

\* The artifacts a traceability report names, in phase order in the code.
Traced ==
    {OriginalSpec, ElaboratedSpec, TestSpec, ReviewedSpec, ReviewedTests,
     LogicalIR, CompilerOutput, SandboxHandoff, TestResult}

PipelineKinds ==
    Traced \cup {ElaborationLog, ReviewLog, LogicalIRLog, LogicalReview,
                 CompilationLog, TraceabilityReport}

ASSUME PhasesAssumption ==
    /\ PipelineKinds \subseteq Kinds
    /\ Flagged \subseteq Documents
    /\ Reworked \subseteq Kinds

-----------------------------------------------------------------------------
\* Functions that may raise.

Then(results, Continue(_)) == UNION {Continue(p) : p \in results}

Derived(p, kind, content, refs) ==
    IF CanAddDerived(p, kind, refs) /\ (kind \in Reworked \/ p.artifacts[kind] = <<>>)
    THEN {AddDerived(p, kind, content, refs)}
    ELSE {}

Decided(p, id, decision) == IF CanDecide(p, id) THEN {Decide(p, id, decision)} ELSE {}

Annotated(p, id) == IF CanAnnotate(p, id) THEN {Annotate(p, id)} ELSE {}

Upstream(p, kind) == Artifact(p, Current(p, kind)).upstream
ContentOf(p, kind) == Artifact(p, Current(p, kind)).content

AllCurrent(p, kinds) == \A kind \in kinds : HasCurrent(p, kind)

-----------------------------------------------------------------------------
\* Phase 2: the specification and its tests, submitted by an author or
\* admitted together from an elaboration provider.

Drafted == "drafted"
Edited == "edited"

SubmitDerivedSpec(p, kind, input) ==
    IF HasCurrent(p, input) THEN Derived(p, kind, Drafted, {Current(p, input)}) ELSE {}

SubmitElaboratedSpec(p) == SubmitDerivedSpec(p, ElaboratedSpec, OriginalSpec)
SubmitTestSpec(p) == SubmitDerivedSpec(p, TestSpec, ElaboratedSpec)

\* The log's content is the source version the elaboration request named.
AddAdmittedElaboration(p) ==
    LET source == Current(p, OriginalSpec) IN
    IF ~HasCurrent(p, OriginalSpec) THEN {} ELSE
    Then(Derived(p, ElaborationLog, source, {source}), LAMBDA q :
    Then(Derived(q, ElaboratedSpec, Drafted, {source, Current(q, ElaborationLog)}), LAMBDA r :
         Derived(r, TestSpec, Drafted, {Current(r, ElaboratedSpec), Current(r, ElaborationLog)})))

-----------------------------------------------------------------------------
\* Phase 3: a review log is a sequence of decisions on the two specifications;
\* a targeted decision is about one section and is only kept as a comment.
\* edited: the log carries the reviewer's own text of both.

ReviewEntries ==
    [on : {ElaboratedSpec, TestSpec}, decision : ReviewDecisions,
     targeted : BOOLEAN, commented : BOOLEAN]

ValidReviewLog(review) ==
    /\ review.entries # <<>>
    /\ \A i, j \in DOMAIN review.entries :
         /\ review.entries[i].on = review.entries[j].on
         /\ review.entries[i].targeted = review.entries[j].targeted
         => i = j

RecordEntry(p, entry, id) ==
    Then(IF entry.targeted THEN {p} ELSE Decided(p, id, entry.decision), LAMBDA q :
         IF entry.commented THEN Annotated(q, id) ELSE {q})

\* The entries in order.  All remarks on sections of one specification count
\* as one entry, so a valid log has four at most.
RecordEntries(p, entries, elaborated, tests) ==
    LET Recorded(q, n) ==
            IF n \in DOMAIN entries
            THEN RecordEntry(q, entries[n], IF entries[n].on = TestSpec THEN tests ELSE elaborated)
            ELSE {q}
    IN  Then(Then(Then(Recorded(p, 1), LAMBDA q : Recorded(q, 2)),
             LAMBDA q : Recorded(q, 3)), LAMBDA q : Recorded(q, 4))

ReviewedText(text, review) == IF review.edited THEN Edited ELSE text

\* Fault: one approval is enough.
EitherApproved(p, elaborated, tests) == IsApproved(p, elaborated) \/ IsApproved(p, tests)

BothApproved(p, elaborated, tests) == IsApproved(p, elaborated) /\ IsApproved(p, tests)

SubmitPhase3Review(p, review) ==
    LET elaborated == Current(p, ElaboratedSpec)
        tests == Current(p, TestSpec)
        logged == Derived(p, ReviewLog, review, {elaborated, tests})
        decided == Then(logged, LAMBDA q : RecordEntries(q, review.entries, elaborated, tests))
        WithSnapshots(q) ==
            LET log == Current(q, ReviewLog) IN
            Then(Derived(q, ReviewedSpec, ReviewedText(Artifact(q, elaborated).content, review),
                         {elaborated, log}), LAMBDA r :
                 Derived(r, ReviewedTests, ReviewedText(Artifact(q, tests).content, review),
                         {tests, log}))
    IN  IF ~AllCurrent(p, {ElaboratedSpec, TestSpec}) \/ ~ValidReviewLog(review) THEN {} ELSE
        Then(decided, LAMBDA q :
             IF BothApproved(q, elaborated, tests) THEN WithSnapshots(q) ELSE {q})

-----------------------------------------------------------------------------
\* Phase 4: the logical IR and its structural review.  A review is the
\* document it is about and what became of its one critical finding.

Clean == "clean"
Open == "open"
Deferred == "deferred"
FindingDecisions == {"repaired", "waived", Deferred}

FirstReview(document) ==
    [document |-> document, finding |-> IF document \in Flagged THEN Open ELSE Clean]

BlocksCompilation(report) == report.finding \in {Open, Deferred}

\* Fault: the IR cites the specifications of phase 2, not the reviewed ones.
AddLogicalIRFromSpecs(p, document) ==
    IF AllCurrent(p, {ReviewedSpec, ReviewedTests})
    THEN Derived(p, LogicalIR, document, {Current(p, ElaboratedSpec), Current(p, TestSpec)})
    ELSE {}

AddLogicalIR(p, document) ==
    IF AllCurrent(p, {ReviewedSpec, ReviewedTests})
    THEN Derived(p, LogicalIR, document, {Current(p, ReviewedSpec), Current(p, ReviewedTests)})
    ELSE {}

AddLogicalIRDocument(p, document) ==
    Then(AddLogicalIR(p, document), LAMBDA q :
         Derived(q, LogicalReview, FirstReview(document), {Current(q, LogicalIR)}))

\* The interaction log names the document that came with it.
AddLogicalIRResponse(p, document) ==
    IF ~AllCurrent(p, {ReviewedSpec, ReviewedTests}) THEN {} ELSE
    Then(Derived(p, LogicalIRLog, document,
                 {Current(p, ReviewedSpec), Current(p, ReviewedTests)}), LAMBDA q :
         AddLogicalIRDocument(q, document))

\* The current IR and the review of exactly that IR.
ReviewOfCurrentIR(p) ==
    /\ AllCurrent(p, {LogicalIR, LogicalReview})
    /\ Upstream(p, LogicalReview) = {Current(p, LogicalIR)}
    /\ ContentOf(p, LogicalReview).document = ContentOf(p, LogicalIR)

DecideLogicalFinding(p, disposition) ==
    IF ReviewOfCurrentIR(p) /\ ContentOf(p, LogicalReview).finding # Clean
    THEN Derived(p, LogicalReview,
                 [ContentOf(p, LogicalReview) EXCEPT !.finding = disposition],
                 {Current(p, LogicalIR)})
    ELSE {}

-----------------------------------------------------------------------------
\* Phase 5: compilation, from the approved IR only.

\* Fault: the structural review alone admits.
AdmitCompilationUnapproved(p) ==
    ReviewOfCurrentIR(p) /\ ~BlocksCompilation(ContentOf(p, LogicalReview))

AdmitCompilation(p) ==
    /\ ReviewOfCurrentIR(p)
    /\ IsApproved(p, Current(p, LogicalIR))
    /\ ~BlocksCompilation(ContentOf(p, LogicalReview))

AddCompilerOutput(p, bundle) ==
    IF AdmitCompilation(p)
    THEN Derived(p, CompilerOutput, bundle, {Current(p, LogicalIR)})
    ELSE {}

CanBuildCompilationRequest(p) ==
    /\ AdmitCompilation(p)
    /\ AllCurrent(p, {ReviewedSpec, ReviewedTests})
    /\ Upstream(p, LogicalIR) = {Current(p, ReviewedSpec), Current(p, ReviewedTests)}

AddCompilationResponse(p, bundle) ==
    IF ~CanBuildCompilationRequest(p) THEN {} ELSE
    Then(Derived(p, CompilationLog, bundle,
                 {Current(p, ReviewedSpec), Current(p, ReviewedTests), Current(p, LogicalIR)}),
         LAMBDA q : AddCompilerOutput(q, bundle))

-----------------------------------------------------------------------------
\* Phases 6 and 7.  A hand-off names the files of the output it hands over,
\* not their text; a result names, through the request hash, the content of
\* the hand-off that was run.  Its content here is the id of that hand-off.

\* Fault: output can be handed over before it is approved.
AddSandboxHandoffUnapproved(p, files) ==
    IF HasCurrent(p, CompilerOutput) /\ files = ContentOf(p, CompilerOutput).files
    THEN Derived(p, SandboxHandoff, files, {Current(p, CompilerOutput)})
    ELSE {}

AddSandboxHandoff(p, files) ==
    IF /\ HasCurrent(p, CompilerOutput)
       /\ IsApproved(p, Current(p, CompilerOutput))
       /\ files = ContentOf(p, CompilerOutput).files
    THEN Derived(p, SandboxHandoff, files, {Current(p, CompilerOutput)})
    ELSE {}

AddTestResult(p, run) ==
    IF /\ HasCurrent(p, SandboxHandoff)
       /\ Artifact(p, run).content = ContentOf(p, SandboxHandoff)
    THEN Derived(p, TestResult, run, {Current(p, SandboxHandoff)})
    ELSE {}

ProvenanceChain(p) ==
    /\ AllCurrent(p, Traced)
    /\ Upstream(p, ElaboratedSpec) = {Current(p, OriginalSpec)}
    /\ Upstream(p, TestSpec) = {Current(p, ElaboratedSpec)}
    /\ Upstream(p, LogicalIR) = {Current(p, ReviewedSpec), Current(p, ReviewedTests)}
    /\ Upstream(p, CompilerOutput) = {Current(p, LogicalIR)}
    /\ Upstream(p, SandboxHandoff) = {Current(p, CompilerOutput)}
    /\ Upstream(p, TestResult) = {Current(p, SandboxHandoff)}

Provenance(p) == [kind \in Traced |-> Current(p, kind)]

AddTraceabilityReport(p) ==
    IF ProvenanceChain(p)
    THEN Derived(p, TraceabilityReport, Provenance(p),
                 {Current(p, CompilerOutput), Current(p, TestResult)})
    ELSE {}

-----------------------------------------------------------------------------
(***************************************************************************)
(* What project_from_dict demands of the current artifacts, rule by rule.  *)
(* The hashes and ids it recomputes hold by construction here.             *)
(***************************************************************************)
ApprovalsLoad(p) ==
    \A id \in Ids(p) : Artifact(p, id).state = Invalidated => p.approvals[id] \in {NoDecision, Void}

ElaborationLoads(p) ==
    HasCurrent(p, ElaborationLog) =>
        /\ AllCurrent(p, {OriginalSpec, ElaboratedSpec, TestSpec})
        /\ Upstream(p, ElaborationLog) = {Current(p, OriginalSpec)}
        /\ ContentOf(p, ElaborationLog) = Current(p, OriginalSpec)
        /\ Upstream(p, ElaboratedSpec) = {Current(p, OriginalSpec), Current(p, ElaborationLog)}
        /\ Upstream(p, TestSpec) = {Current(p, ElaboratedSpec), Current(p, ElaborationLog)}

ReviewLogLoads(p) ==
    HasCurrent(p, ReviewLog) =>
        /\ AllCurrent(p, {ElaboratedSpec, TestSpec})
        /\ Upstream(p, ReviewLog) = {Current(p, ElaboratedSpec), Current(p, TestSpec)}

SnapshotsLoad(p) ==
    /\ HasCurrent(p, ReviewedSpec) <=> HasCurrent(p, ReviewedTests)
    /\ HasCurrent(p, ReviewedSpec) =>
         /\ AllCurrent(p, {ReviewLog, ElaboratedSpec, TestSpec})
         /\ Upstream(p, ReviewedSpec) = {Current(p, ElaboratedSpec), Current(p, ReviewLog)}
         /\ Upstream(p, ReviewedTests) = {Current(p, TestSpec), Current(p, ReviewLog)}
         /\ ContentOf(p, ReviewedSpec) =
              ReviewedText(ContentOf(p, ElaboratedSpec), ContentOf(p, ReviewLog))
         /\ ContentOf(p, ReviewedTests) =
              ReviewedText(ContentOf(p, TestSpec), ContentOf(p, ReviewLog))
         /\ IsApproved(p, Current(p, ElaboratedSpec))
         /\ IsApproved(p, Current(p, TestSpec))

LogicalIRLogLoads(p) ==
    HasCurrent(p, LogicalIRLog) =>
        /\ AllCurrent(p, {LogicalIR, ReviewedSpec, ReviewedTests})
        /\ Upstream(p, LogicalIRLog) = {Current(p, ReviewedSpec), Current(p, ReviewedTests)}

LogicalIRLoads(p) ==
    HasCurrent(p, LogicalIR) =>
        /\ AllCurrent(p, {ReviewedSpec, ReviewedTests})
        /\ Upstream(p, LogicalIR) = {Current(p, ReviewedSpec), Current(p, ReviewedTests)}

LogicalIRLogAgrees(p) ==
    AllCurrent(p, {LogicalIRLog, LogicalIR}) =>
        ContentOf(p, LogicalIRLog) = ContentOf(p, LogicalIR)

LogicalReviewLoads(p) == HasCurrent(p, LogicalReview) => ReviewOfCurrentIR(p)

CompilationLogLoads(p) ==
    HasCurrent(p, CompilationLog) =>
        /\ AllCurrent(p, {CompilerOutput, LogicalIR, ReviewedSpec, ReviewedTests})
        /\ Upstream(p, CompilationLog) =
             {Current(p, ReviewedSpec), Current(p, ReviewedTests), Current(p, LogicalIR)}

CompilerOutputLoads(p) ==
    HasCurrent(p, CompilerOutput) =>
        /\ HasCurrent(p, LogicalIR)
        /\ Upstream(p, CompilerOutput) = {Current(p, LogicalIR)}

CompilationLogAgrees(p) ==
    AllCurrent(p, {CompilationLog, CompilerOutput}) =>
        ContentOf(p, CompilationLog) = ContentOf(p, CompilerOutput)

CompilerOutputAdmitted(p) == HasCurrent(p, CompilerOutput) => AdmitCompilation(p)

SandboxHandoffLoads(p) ==
    HasCurrent(p, SandboxHandoff) =>
        /\ HasCurrent(p, CompilerOutput)
        /\ Upstream(p, SandboxHandoff) = {Current(p, CompilerOutput)}
        /\ IsApproved(p, Current(p, CompilerOutput))
        /\ ContentOf(p, SandboxHandoff) = ContentOf(p, CompilerOutput).files

TestResultLoads(p) ==
    HasCurrent(p, TestResult) =>
        /\ HasCurrent(p, SandboxHandoff)
        /\ Upstream(p, TestResult) = {Current(p, SandboxHandoff)}
        /\ Artifact(p, ContentOf(p, TestResult)).content = ContentOf(p, SandboxHandoff)

TraceabilityLoads(p) ==
    HasCurrent(p, TraceabilityReport) =>
        /\ AllCurrent(p, Traced)
        /\ Upstream(p, TraceabilityReport) = {Current(p, CompilerOutput), Current(p, TestResult)}
        /\ ContentOf(p, TraceabilityReport) = Provenance(p)

Loads(p) ==
    /\ ApprovalsLoad(p)
    /\ ElaborationLoads(p)
    /\ ReviewLogLoads(p)
    /\ SnapshotsLoad(p)
    /\ LogicalIRLogLoads(p)
    /\ LogicalIRLoads(p)
    /\ LogicalIRLogAgrees(p)
    /\ LogicalReviewLoads(p)
    /\ CompilationLogLoads(p)
    /\ CompilerOutputLoads(p)
    /\ CompilationLogAgrees(p)
    /\ CompilerOutputAdmitted(p)
    /\ SandboxHandoffLoads(p)
    /\ TestResultLoads(p)
    /\ TraceabilityLoads(p)
=============================================================================
