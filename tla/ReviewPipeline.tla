--------------------------- MODULE ReviewPipeline ---------------------------
(***************************************************************************)
(* One project taken through the phases in memory, the way the README and  *)
(* the tests use specatom_hs.projects: any phase function, in any order,   *)
(* applied to the current value.  Nothing is saved in between, so nothing  *)
(* here is refused by a loader; the chain rules of project_from_dict are   *)
(* claims about what the phase functions themselves keep true.             *)
(***************************************************************************)
EXTENDS Phases

CONSTANTS
    Sources,        \* texts of the original specification
    Bundles,        \* compiler outputs, records [files, text]
    Reviews,        \* bound: Phase 3 review logs that an instance submits
    Reviewable,     \* bound: artifact ids that single decisions are given on
    Commented       \* bound: artifact ids that single comments are given on

ASSUME ReviewPipelineAssumption ==
    Reviews \subseteq [entries : Seq(ReviewEntries), edited : BOOLEAN]

VARIABLE project

-----------------------------------------------------------------------------
Init == \E source \in Sources : project = NewProject(source)

Elaborate ==
    \/ project' \in SubmitElaboratedSpec(project)
    \/ project' \in SubmitTestSpec(project)
    \/ project' \in AddAdmittedElaboration(project)

Review == \E review \in Reviews : project' \in SubmitPhase3Review(project, review)

BuildLogicalIR ==
    \/ \E document \in Documents :
        \/ project' \in AddLogicalIR(project, document)
        \/ project' \in AddLogicalIRDocument(project, document)
        \/ project' \in AddLogicalIRResponse(project, document)
    \/ \E disposition \in FindingDecisions : project' \in DecideLogicalFinding(project, disposition)

Compile ==
    \E bundle \in Bundles :
        \/ project' \in AddCompilerOutput(project, bundle)
        \/ project' \in AddCompilationResponse(project, bundle)

\* A result is of some hand-off that was current when its run was started.
Run ==
    \/ \E bundle \in Bundles : project' \in AddSandboxHandoff(project, bundle.files)
    \/ \E run \in Ids(project) : run[1] = SandboxHandoff /\ project' \in AddTestResult(project, run)
    \/ project' \in AddTraceabilityReport(project)

GiveDecision ==
    \E id \in Ids(project) \cap Reviewable, decision \in ReviewDecisions :
        project' \in Decided(project, id, decision)

Comment == \E id \in Ids(project) \cap Commented : project' \in Annotated(project, id)

ReplaceOriginal ==
    /\ CanReplaceSource(project)
    /\ \E source \in Sources : project' = ReplaceSource(project, source)

Next ==
    \/ Elaborate
    \/ Review
    \/ BuildLogicalIR
    \/ Compile
    \/ Run
    \/ GiveDecision
    \/ Comment
    \/ ReplaceOriginal

Spec == Init /\ [][Next]_project

-----------------------------------------------------------------------------
\* A review log is about the two current specifications, and the reviewed
\* snapshots exist only as a pair, made by that log, while both
\* specifications are still approved.
ReviewsBindCurrentSpecs ==
    /\ ApprovalsLoad(project)
    /\ ReviewLogLoads(project)
    /\ SnapshotsLoad(project)

\* The logical IR, its interaction log and its structural review all belong
\* to the current snapshots and to one another.
LogicalIRBindsSnapshots ==
    /\ LogicalIRLogLoads(project)
    /\ LogicalIRLoads(project)
    /\ LogicalReviewLoads(project)

\* Compiler output exists only under a current and approved logical IR.
OutputBindsApprovedIR ==
    /\ CompilationLogLoads(project)
    /\ CompilerOutputLoads(project)
    /\ HasCurrent(project, CompilerOutput) => IsApproved(project, Current(project, LogicalIR))

\* A hand-off, a result and a report exist only under approved output, each
\* for the one before it, and the report still names every current artifact.
RunsBindApprovedOutput ==
    /\ SandboxHandoffLoads(project)
    /\ TestResultLoads(project)
    /\ TraceabilityLoads(project)

\* End to end: whoever reads a current test result finds above it a current
\* and still approved artifact of every stage a human had to approve, and the
\* current source.  No order of revocations, resubmissions and reviews leaves
\* a result standing on anything else.
ResultsTraceToApprovals ==
    HasCurrent(project, TestResult) =>
        LET above == Artifact(project, Current(project, TestResult)).lineage IN
        /\ Current(project, OriginalSpec) \in above
        /\ \A kind \in {ElaboratedSpec, TestSpec, LogicalIR, CompilerOutput} :
             /\ HasCurrent(project, kind)
             /\ Current(project, kind) \in above
             /\ IsApproved(project, Current(project, kind))

\* README.md:212 the report "joins the exact original/elaborated/test/logical/
\* output/handoff/result chain": a project in which every one of them is
\* current has that chain, unless its specifications were elaborated by a
\* provider, which makes them cite the elaboration log as well; then no report
\* can ever be made.
ChainsAreTraceable ==
    AllCurrent(project, Traced) =>
        (ProvenanceChain(project) <=>
            \A kind \in {ElaboratedSpec, TestSpec} :
                \A id \in Upstream(project, kind) : id[1] # ElaborationLog)
=============================================================================
