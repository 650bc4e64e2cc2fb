------------------------ MODULE ReviewPipelineProofs ------------------------
(***************************************************************************)
(* The inductive invariant of ReviewPipeline is PhaseInv: each action is   *)
(* one phase function, and ProjectProofs shows that each of them keeps it. *)
(* The chain rules that the runs check follow from it.                     *)
(***************************************************************************)
EXTENDS ReviewPipeline, ProjectProofs

USE ProjectsAssumption, PhasesAssumption
USE DEF OriginalSpec, ElaborationLog, ElaboratedSpec, TestSpec, ReviewLog, ReviewedSpec,
        ReviewedTests, LogicalIRLog, LogicalIR, LogicalReview, CompilationLog,
        CompilerOutput, SandboxHandoff, TestResult, TraceabilityReport

\* Every content an artifact may have.
Texts == Sources \cup MadeTexts \cup Reviews \cup Bundles \cup {bundle.files : bundle \in Bundles}

ChainInv == PhaseInv(project, Texts)

\* A new project satisfies the invariant.
LEMMA InitChain == Init => ChainInv
  <1>1. Sources \subseteq Texts
    BY DEF Texts
  <1> QED  BY <1>1, NewProjectKeepsPhaseInv DEF Init, ChainInv

\* Every step keeps it, action by action.
LEMMA NextChain == ChainInv /\ [Next]_project => ChainInv'
  <1> SUFFICES ASSUME ChainInv, [Next]_project
               PROVE  PhaseInv(project', Texts)
    BY DEF ChainInv
  <1>1. /\ PhaseInv(project, Texts) /\ MadeTexts \subseteq Texts
        /\ Documents \subseteq Texts /\ Reviews \subseteq Texts /\ Sources \subseteq Texts
        /\ \A bundle \in Bundles : bundle \in Texts /\ bundle.files \in Texts
    BY DEF ChainInv, Texts, MadeTexts
  <1>2. CASE Elaborate
    BY <1>1, <1>2, SubmitSpecsKeepInv, AdmitElaborationKeepsInv DEF Elaborate
  <1>3. CASE Review
    <2>1. PICK review \in Reviews : project' \in SubmitPhase3Review(project, review)
      BY <1>3 DEF Review
    <2>2. review.entries \in Seq(ReviewEntries)
      BY ReviewPipelineAssumption
    <2> QED  BY <1>1, <2>1, <2>2, ReviewKeepsInv
  <1>4. CASE BuildLogicalIR
    BY <1>1, <1>4, BuildLogicalIRKeepsInv, DecideFindingKeepsInv DEF BuildLogicalIR
  <1>5. CASE Compile
    BY <1>1, <1>5, CompileKeepsInv DEF Compile
  <1>6. CASE Run
    BY <1>1, <1>6, HandoffKeepsInv, TestResultKeepsInv, ReportKeepsInv DEF Run
  <1>7. CASE GiveDecision
    BY <1>1, <1>7, DecidedKeepsInv DEF GiveDecision
  <1>8. CASE Comment
    BY <1>1, <1>8, AnnotatedKeepsInv DEF Comment
  <1>9. CASE ReplaceOriginal
    BY <1>1, <1>9, ReplaceSourceKeepsPhaseInv DEF ReplaceOriginal
  <1>10. CASE UNCHANGED project
    BY <1>1, <1>10
  <1> QED  BY <1>2, <1>3, <1>4, <1>5, <1>6, <1>7, <1>8, <1>9, <1>10 DEF Next

\* It holds of every project the phases make.
THEOREM ChainInvariant == Spec => []ChainInv
  <1>1. Init => ChainInv
    BY InitChain
  <1>2. ChainInv /\ [Next]_project => ChainInv'
    BY NextChain
  <1> QED  BY <1>1, <1>2, PTL DEF Spec

-----------------------------------------------------------------------------
\* Phase 3: a current review log is about the two current specifications, and
\* the reviewed snapshots stand, both or neither, on that log and on both
\* specifications while these are approved.
THEOREM ReviewsAreBound == Spec => []ReviewsBindCurrentSpecs
  <1>1. ChainInv => ReviewsBindCurrentSpecs
    BY ReviewRules DEF ChainInv, ReviewsBindCurrentSpecs
  <1> QED  BY <1>1, ChainInvariant, PTL

\* Phase 4: a current logical IR, the log of it and its structural review
\* belong to the current snapshots and to one another.
THEOREM LogicalIRIsBound == Spec => []LogicalIRBindsSnapshots
  <1>1. ChainInv => LogicalIRBindsSnapshots
    BY LogicalIRRules DEF ChainInv, LogicalIRBindsSnapshots
  <1> QED  BY <1>1, ChainInvariant, PTL

\* Phase 5: compiler output is current only under the current logical IR, and
\* only while that is approved.
THEOREM OutputIsBound == Spec => []OutputBindsApprovedIR
  <1>1. ChainInv => OutputBindsApprovedIR
    BY CompilationRules DEF ChainInv, OutputBindsApprovedIR
  <1> QED  BY <1>1, ChainInvariant, PTL

\* Phases 6 and 7: hand-off, result and report are current only under approved
\* output, each for the one before it, and a report names what is current.
THEOREM RunsAreBound == Spec => []RunsBindApprovedOutput
  <1>1. ChainInv => RunsBindApprovedOutput
    BY RunRules DEF ChainInv, RunsBindApprovedOutput
  <1> QED  BY <1>1, ChainInvariant, PTL

\* End to end: above a current test result is the current version of every
\* stage that a human approves, still approved, and the current source.
THEOREM ResultsAreTraced == Spec => []ResultsTraceToApprovals
  <1>1. ChainInv => ResultsTraceToApprovals
    <2> SUFFICES ASSUME ChainInv, HasCurrent(project, TestResult),
                        NEW above, above = Artifact(project, Current(project, TestResult)).lineage
                 PROVE  /\ Current(project, OriginalSpec) \in above
                        /\ \A kind \in {ElaboratedSpec, TestSpec, LogicalIR, CompilerOutput} :
                             /\ HasCurrent(project, kind)
                             /\ Current(project, kind) \in above
                             /\ IsApproved(project, Current(project, kind))
      BY DEF ResultsTraceToApprovals
    <2>1. PhaseInv(project, Texts) /\ Chain(project, Texts)
      BY DEF ChainInv, PhaseInv
    <2>2. \A kind \in {OriginalSpec, ElaboratedSpec, TestSpec, ReviewedSpec, LogicalIR,
                       CompilerOutput, SandboxHandoff} :
              HasCurrent(project, kind) /\ Current(project, kind) \in above
      <3>1. {OriginalSpec, ElaboratedSpec, TestSpec, ReviewedSpec, LogicalIR, CompilerOutput, SandboxHandoff}
              \subseteq (Traced \cup {ReviewLog}) \ {TestResult}
        BY DEF Traced
      <3> QED  BY <2>1, <3>1, ResultAncestors
    <2>3. /\ IsApproved(project, Current(project, ElaboratedSpec))
          /\ IsApproved(project, Current(project, TestSpec))
      BY <2>1, <2>2, ReviewRules DEF SnapshotsLoad
    <2>4. IsApproved(project, Current(project, LogicalIR))
      BY <2>1, <2>2, CompilationRules
    <2>5. IsApproved(project, Current(project, CompilerOutput))
      BY <2>1, <2>2, RunRules DEF SandboxHandoffLoads
    <2> QED  BY <2>2, <2>3, <2>4, <2>5
  <1> QED  BY <1>1, ChainInvariant, PTL

\* A project with every stage current has the exact chain that a report joins,
\* unless a specification cites an elaboration log.
THEOREM ChainsAreJoined == Spec => []ChainsAreTraceable
  <1>1. ChainInv => ChainsAreTraceable
    <2> SUFFICES ASSUME ChainInv, AllCurrent(project, Traced)
                 PROVE  ProvenanceChain(project) <=>
                          \A kind \in {ElaboratedSpec, TestSpec} :
                            \A id \in Upstream(project, kind) : id[1] # ElaborationLog
      BY DEF ChainsAreTraceable
    <2>1. Chain(project, Texts)
      BY DEF ChainInv, PhaseInv
    <2>2. \A kind \in Traced : HasCurrent(project, kind)
      BY DEF AllCurrent
    <2>3. \A kind : Current(project, kind)[1] = kind
      BY DEF Current
    <2>4. /\ Upstream(project, LogicalIR) = {Current(project, ReviewedSpec), Current(project, ReviewedTests)}
          /\ Upstream(project, CompilerOutput) = {Current(project, LogicalIR)}
          /\ Upstream(project, SandboxHandoff) = {Current(project, CompilerOutput)}
          /\ Upstream(project, TestResult) = {Current(project, SandboxHandoff)}
      BY <2>1, <2>2, ProgramsCite DEF Traced
    <2>5. \/ Upstream(project, ElaboratedSpec) = {Current(project, OriginalSpec)}
          \/ Upstream(project, ElaboratedSpec) =
                {Current(project, OriginalSpec), Current(project, ElaborationLog)}
      BY <2>1, <2>2, SpecificationsCite DEF Traced
    <2>6. \/ Upstream(project, TestSpec) = {Current(project, ElaboratedSpec)}
          \/ Upstream(project, TestSpec) =
                {Current(project, ElaboratedSpec), Current(project, ElaborationLog)}
      BY <2>1, <2>2, SpecificationsCite DEF Traced
    <2>7. Upstream(project, ElaboratedSpec) = {Current(project, OriginalSpec)}
            <=> \A id \in Upstream(project, ElaboratedSpec) : id[1] # ElaborationLog
      <3>1. CASE Upstream(project, ElaboratedSpec) = {Current(project, OriginalSpec)}
        BY <2>3, <3>1
      <3>2. CASE Upstream(project, ElaboratedSpec) =
                    {Current(project, OriginalSpec), Current(project, ElaborationLog)}
        <4>1. Current(project, ElaborationLog)[1] # Current(project, OriginalSpec)[1]
          BY <2>3
        <4> QED  BY <2>3, <3>2, <4>1
      <3> QED  BY <2>5, <3>1, <3>2
    <2>8. Upstream(project, TestSpec) = {Current(project, ElaboratedSpec)}
            <=> \A id \in Upstream(project, TestSpec) : id[1] # ElaborationLog
      <3>1. CASE Upstream(project, TestSpec) = {Current(project, ElaboratedSpec)}
        BY <2>3, <3>1
      <3>2. CASE Upstream(project, TestSpec) =
                    {Current(project, ElaboratedSpec), Current(project, ElaborationLog)}
        <4>1. Current(project, ElaborationLog)[1] # Current(project, ElaboratedSpec)[1]
          BY <2>3
        <4> QED  BY <2>3, <3>2, <4>1
      <3> QED  BY <2>6, <3>1, <3>2
    <2>9. ProvenanceChain(project) <=>
            /\ Upstream(project, ElaboratedSpec) = {Current(project, OriginalSpec)}
            /\ Upstream(project, TestSpec) = {Current(project, ElaboratedSpec)}
      BY <2>4 DEF ProvenanceChain
    <2> QED  BY <2>7, <2>8, <2>9
  <1> QED  BY <1>1, ChainInvariant, PTL

-----------------------------------------------------------------------------
\* Whatever phase is applied, no version, citation or comment is rewritten,
\* no invalidated version comes back, and when an approval is lost nothing
\* that was built on it, at any distance, is live after the same step.
THEOREM PhasesKeepHistory ==
    Spec => [][Extends(project, project') /\ Cascades(project, project')]_project
  <1>1. ChainInv => Settled(project)
    BY DEF ChainInv, PhaseInv, Chain, Layered, Settled
  <1>2. ASSUME Settled(project), Next
        PROVE  Follows(project, project')
    <2>1. CASE Elaborate
      BY <1>2, <2>1, ElaborationFollows DEF Elaborate
    <2>2. CASE Review
      <3>1. PICK review \in Reviews : project' \in SubmitPhase3Review(project, review)
        BY <2>2 DEF Review
      <3>2. review.entries \in Seq(ReviewEntries)
        BY ReviewPipelineAssumption
      <3> QED  BY <1>2, <3>1, <3>2, ReviewFollows
    <2>3. CASE BuildLogicalIR
      BY <1>2, <2>3, LogicalIRFollows DEF BuildLogicalIR
    <2>4. CASE Compile
      BY <1>2, <2>4, CompilationFollows DEF Compile
    <2>5. CASE Run
      BY <1>2, <2>5, RunFollows DEF Run
    <2>6. CASE GiveDecision
      BY <1>2, <2>6, DecidedFollows DEF GiveDecision
    <2>7. CASE Comment
      BY <1>2, <2>7, AnnotatedFollows DEF Comment
    <2>8. CASE ReplaceOriginal
      BY <1>2, <2>8, ReplacingFollows DEF ReplaceOriginal
    <2> QED  BY <1>2, <2>1, <2>2, <2>3, <2>4, <2>5, <2>6, <2>7, <2>8 DEF Next
  <1>3. ChainInv /\ [Next]_project => [Extends(project, project') /\ Cascades(project, project')]_project
    BY <1>1, <1>2 DEF Follows
  <1> QED  BY <1>3, ChainInvariant, PTL DEF Spec
=============================================================================
