------------------------ MODULE ProjectServiceProofs ------------------------
(***************************************************************************)
(* The safety properties of ProjectService, for any number of calls and    *)
(* any requests.  Whatever the calls do to one another, each of them saves *)
(* what one phase function made of one project it read, so what is proved  *)
(* of the functions in ProjectProofs holds of every project in flight; the *)
(* interleaving is left to an invariant that relates the marks of what a   *)
(* call has added to the project and to what the other calls have read.    *)
(***************************************************************************)
EXTENDS ProjectService, ProjectProofs

USE ProjectsAssumption, PhasesAssumption
USE DEF OriginalSpec, ElaborationLog, ElaboratedSpec, TestSpec, ReviewLog, ReviewedSpec,
        ReviewedTests, LogicalIRLog, LogicalIR, LogicalReview, CompilationLog,
        CompilerOutput, SandboxHandoff, TestResult, TraceabilityReport

-----------------------------------------------------------------------------
(***************************************************************************)
(* What a call reads and what it saves.                                    *)
(***************************************************************************)

\* The invariant of the phases, and the agreement of the two interaction logs
\* with what came with them: no part of one project refutes it.
Good(p) ==
    /\ PhaseInv(p, Texts)
    /\ LogicalIRLogAgrees(p)
    /\ CompilationLogAgrees(p)

\* A log agrees with what came with it.
Agrees(p, log, made) ==
    HasCurrent(p, log) /\ HasCurrent(p, made) => ContentOf(p, log) = ContentOf(p, made)

\* As long as neither a log nor what came with it has a new version, they agree.
LEMMA AgreementIsKept ==
    ASSUME NEW texts, NEW p, Base(p, texts), NEW q, Base(q, texts),
           NEW kinds, Adds(p, q, kinds),
           NEW log \in PipelineKinds \ kinds, NEW made \in PipelineKinds \ kinds,
           Agrees(p, log, made)
    PROVE  Agrees(q, log, made)
  <1>1. ASSUME NEW kind \in PipelineKinds \ kinds, HasCurrent(q, kind)
        PROVE  HasCurrent(p, kind) /\ ContentOf(q, kind) = ContentOf(p, kind)
    <2> DEFINE id == Current(q, kind)
    <2>1. id \in Ids(q) /\ id[1] = kind /\ IsLive(q, id)
      BY <1>1, PhaseKinds, CurrentIsLive
    <2> HIDE DEF id
    <2>2. id \in Ids(p)
      BY <1>1, <2>1 DEF Adds
    <2>3. IsLive(p, id) /\ Artifact(q, id).content = Artifact(p, id).content
      BY <2>1, <2>2 DEF Adds, Extends
    <2>4. HasCurrent(p, kind) /\ id = Current(p, kind)
      BY <1>1, <2>1, <2>3, PhaseKinds, LiveIsCurrent
    <2> QED  BY <2>3, <2>4 DEF id, ContentOf
  <1> QED  BY <1>1 DEF Agrees

\* The same of a project in flight.
LEMMA AddsKeepsGood ==
    ASSUME NEW p, Good(p), NEW q, PhaseInv(q, Texts), NEW kinds, Adds(p, q, kinds)
    PROVE  /\ {LogicalIRLog, LogicalIR} \cap kinds = {} => LogicalIRLogAgrees(q)
           /\ {CompilationLog, CompilerOutput} \cap kinds = {} => CompilationLogAgrees(q)
  <1>1. Base(p, Texts) /\ Base(q, Texts)
    BY DEF Good, PhaseInv, Chain, Layered
  <1>2. Agrees(p, LogicalIRLog, LogicalIR) /\ Agrees(p, CompilationLog, CompilerOutput)
    BY DEF Good, LogicalIRLogAgrees, CompilationLogAgrees, AllCurrent, Agrees
  <1>3. {LogicalIRLog, LogicalIR, CompilationLog, CompilerOutput} \subseteq PipelineKinds
    BY DEF PipelineKinds, Traced
  <1>4. ASSUME {LogicalIRLog, LogicalIR} \cap kinds = {} PROVE  LogicalIRLogAgrees(q)
    <2>1. Agrees(q, LogicalIRLog, LogicalIR)
      BY <1>1, <1>2, <1>3, <1>4, AgreementIsKept
    <2> QED  BY <2>1 DEF Agrees, LogicalIRLogAgrees, AllCurrent
  <1>5. ASSUME {CompilationLog, CompilerOutput} \cap kinds = {} PROVE  CompilationLogAgrees(q)
    <2>1. Agrees(q, CompilationLog, CompilerOutput)
      BY <1>1, <1>2, <1>3, <1>5, AgreementIsKept
    <2> QED  BY <2>1 DEF Agrees, CompilationLogAgrees, AllCurrent
  <1> QED  BY <1>4, <1>5

-----------------------------------------------------------------------------
(***************************************************************************)
(* Every function that a call saves the result of.                         *)
(***************************************************************************)

\* A decision and a comment add nothing, a replaced source a source.
LEMMA EditsAdd ==
    ASSUME NEW p, PhaseInv(p, Texts)
    PROVE  /\ \A id, decision : decision \in ReviewDecisions =>
                \A q \in Decided(p, id, decision) : Adds(p, q, {})
           /\ \A id : \A q \in Annotated(p, id) : Adds(p, q, {})
           /\ \A source \in Texts : CanReplaceSource(p) => Adds(p, ReplaceSource(p, source), {OriginalSpec})
  <1>1. Base(p, Texts)
    BY DEF PhaseInv, Chain, Layered
  <1>2. ASSUME NEW id, NEW decision \in ReviewDecisions, NEW q \in Decided(p, id, decision)
        PROVE  Adds(p, q, {})
    <2>1. CanDecide(p, id) /\ q = Decide(p, id, decision)
      BY <1>2 DEF Decided
    <2> QED  BY <1>1, <2>1, DecideSteps DEF Adds
  <1>3. ASSUME NEW id, NEW q \in Annotated(p, id)
        PROVE  Adds(p, q, {})
    <2>1. CanAnnotate(p, id) /\ q = Annotate(p, id)
      BY <1>3 DEF Annotated
    <2> QED  BY <1>1, <2>1, AnnotateSteps DEF Adds
  <1>4. ASSUME NEW source \in Texts, CanReplaceSource(p)
        PROVE  Adds(p, ReplaceSource(p, source), {OriginalSpec})
    BY <1>1, <1>4, ReplaceSourceSteps DEF Adds
  <1> QED  BY <1>2, <1>3, <1>4

\* A new project.
LEMMA CreateKeepsGood ==
    ASSUME NEW source \in Texts
    PROVE  Good(NewProject(source))
  <1> DEFINE p == NewProject(source)
  <1>1. PhaseInv(p, Texts)
    BY NewProjectKeepsPhaseInv
  <1>2. Base(p, Texts) /\ Ids(p) = {<<OriginalSpec, 1>>}
    BY NewProjectKeepsInv
  <1> HIDE DEF p
  <1>3. {LogicalIRLog, CompilationLog} \subseteq PipelineKinds
    BY DEF PipelineKinds, Traced
  <1>4. ~HasCurrent(p, LogicalIRLog) /\ ~HasCurrent(p, CompilationLog)
    BY <1>2, <1>3, PhaseKinds, CurrentIsLive
  <1> QED  BY <1>1, <1>4 DEF Good, LogicalIRLogAgrees, CompilationLogAgrees, AllCurrent, p

\* What a call has received is among the texts, and parsed.
LEMMA ReceivedTexts ==
    ASSUME NEW c \in Calls, NEW r \in Requests[c]
    PROVE  /\ MadeTexts \subseteq Texts /\ Bundles \subseteq Texts
           /\ \A bundle \in Bundles : bundle.files \in Texts
           /\ r.op \in {"create", "replace-source"} => r.source \in Texts
           /\ r.op = "review" => r.log \in Texts /\ r.log.entries \in Seq(ReviewEntries)
           /\ r.op = "decisions" => r.decision \in ReviewDecisions
           /\ r.op = "logical-review" => r.disposition \in FindingDecisions
  <1>1. /\ r.op \in {"create", "replace-source"} => r \in Received({"create", "replace-source"})
        /\ r.op = "review" => r \in Received({"review"})
        /\ r.op = "decisions" => r \in Received({"decisions"})
        /\ r.op = "logical-review" => r \in Received({"logical-review"})
    BY DEF Received
  <1>2. /\ MadeTexts \subseteq Texts /\ Bundles \subseteq Texts
        /\ \A bundle \in Bundles : bundle.files \in Texts
    BY DEF Texts
  <1>3. r.op \in {"create", "replace-source"} => r.source \in Texts
    BY <1>1 DEF Texts
  <1>4. r.op = "review" => r.log \in Texts /\ r.log.entries \in Seq(ReviewEntries)
    BY <1>1, ReceivedAssumption DEF Texts
  <1>5. /\ r.op = "decisions" => r.decision \in ReviewDecisions
        /\ r.op = "logical-review" => r.disposition \in FindingDecisions
    BY <1>1, ReceivedAssumption
  <1> QED  BY <1>2, <1>3, <1>4, <1>5

\* What Submit makes of a project keeps the invariant and adds neither a log of
\* an interaction nor what comes with one.
LEMMA SubmitKeepsGood ==
    ASSUME NEW p, Good(p), NEW c \in Calls, NEW r \in Requests[c],
           r.op \in Commands \cup Edits, NEW q \in Submit(p, r)
    PROVE  Good(q) /\ Extends(p, q)
  <1> DEFINE made == {LogicalIRLog, LogicalIR, CompilationLog, CompilerOutput}
  <1>1. PhaseInv(p, Texts) /\ MadeTexts \subseteq Texts
    BY ReceivedTexts DEF Good
  <1>2. SUFFICES ASSUME TRUE
                 PROVE  PhaseInv(q, Texts) /\ \E kinds : Adds(p, q, kinds) /\ made \cap kinds = {}
    BY AddsKeepsGood DEF Good, Adds
  <1>3. CASE r.op \in {"elaborated-spec", "test-spec"}
    <2>1. q \in SubmitElaboratedSpec(p) \cup SubmitTestSpec(p)
      BY <1>3 DEF Submit
    <2>2. PhaseInv(q, Texts) /\ Adds(p, q, {ElaboratedSpec, TestSpec})
      BY <1>1, <2>1, SubmitSpecsKeepInv
    <2> QED  BY <2>2
  <1>4. CASE r.op = "annotations"
    <2>1. q \in Annotated(p, r.on.id)
      BY <1>4 DEF Submit, On
    <2> QED  BY <1>1, <2>1, AnnotatedKeepsInv, EditsAdd
  <1>5. CASE r.op = "decisions"
    <2>1. q \in Decided(p, r.on.id, r.decision) /\ r.decision \in ReviewDecisions
      BY <1>5, ReceivedTexts DEF Submit, On
    <2> QED  BY <1>1, <2>1, DecidedKeepsInv, EditsAdd
  <1>6. CASE r.op = "review"
    <2>1. q \in SubmitPhase3Review(p, r.log) /\ r.log \in Texts /\ r.log.entries \in Seq(ReviewEntries)
      BY <1>6, ReceivedTexts DEF Submit
    <2>2. PhaseInv(q, Texts) /\ Adds(p, q, {ReviewLog, ReviewedSpec, ReviewedTests})
      BY <1>1, <2>1, ReviewKeepsInv
    <2> QED  BY <2>2
  <1>7. CASE r.op = "logical-review"
    <2>1. q \in DecideLogicalFinding(p, r.disposition) /\ r.disposition \in FindingDecisions
      BY <1>7, ReceivedTexts DEF Submit
    <2>2. PhaseInv(q, Texts) /\ Adds(p, q, {LogicalReview})
      BY <1>1, <2>1, DecideFindingKeepsInv
    <2> QED  BY <2>2
  <1>8. CASE r.op = "replace-source"
    <2>1. CanReplaceSource(p) /\ q = ReplaceSource(p, r.source) /\ r.source \in Texts
      BY <1>8, ReceivedTexts DEF Submit
    <2>2. PhaseInv(q, Texts) /\ Adds(p, q, {OriginalSpec})
      BY <1>1, <2>1, ReplaceSourceKeepsPhaseInv, EditsAdd
    <2> QED  BY <2>2
  <1>9. CASE r.op = "handoff"
    <2>1. PICK bundle \in Bundles : q \in AddSandboxHandoff(p, bundle.files)
      BY <1>9 DEF Submit
    <2>2. bundle.files \in Texts
      BY ReceivedTexts
    <2>3. PhaseInv(q, Texts) /\ Adds(p, q, {SandboxHandoff})
      BY <1>1, <2>1, <2>2, HandoffKeepsInv
    <2> QED  BY <2>3
  <1>10. CASE r.op = "trace-report"
    <2>1. q \in AddTraceabilityReport(p)
      BY <1>10 DEF Submit
    <2>2. PhaseInv(q, Texts) /\ Adds(p, q, {TraceabilityReport})
      BY <1>1, <2>1, ReportKeepsInv
    <2> QED  BY <2>2
  <1> QED  BY <1>3, <1>4, <1>5, <1>6, <1>7, <1>8, <1>9, <1>10 DEF Commands, Edits

\* What is stored at the start.
LEMMA StartsAreGood ==
    ASSUME NEW p \in Starts, p # Absent
    PROVE  Good(p) /\ Loads(p)
  <1>1. /\ p = [artifacts |-> p.artifacts, approvals |-> p.approvals, annotations |-> p.annotations]
        /\ p.artifacts = [kind \in Kinds |-> p.artifacts[kind]]
        /\ \A kind \in Kinds :
             /\ p.artifacts[kind] \in Seq(ArtifactRecords(Contents(p, kind)))
             /\ Len(p.artifacts[kind]) <= MaxVersions
        /\ p.approvals \in [ArtifactIds -> Decisions]
        /\ p.annotations \in SUBSET ArtifactIds
    BY StartsAssumption
  <1>2. /\ LineageClosed(p) /\ SourceIsRoot(p) /\ NewestOnly(p) /\ DecisionsFollow(p)
        /\ Ranked(p, PhaseRank) /\ InputsLive(p) /\ LineageLive(p)
        /\ Cites(p) /\ Bound(p) /\ ApprovedAbove(p)
        /\ SourceLive(p) /\ Twins(p) /\ Loads(p)
    BY StartsAssumption
  <1>3. ASSUME NEW kind \in Kinds PROVE  p.artifacts[kind] \in Seq(ArtifactRecords(Texts))
    <2>1. Contents(p, kind) \subseteq Texts
      BY DEF Texts
    <2> HIDE DEF Texts
    <2>2. ArtifactRecords(Contents(p, kind)) \subseteq ArtifactRecords(Texts)
      BY <2>1 DEF ArtifactRecords
    <2> QED  BY <1>1, <2>2
  <1>4. p.artifacts \in [Kinds -> Seq(ArtifactRecords(Texts))]
    BY <1>1, <1>3
  <1>5. p \in ProjectRecords(Texts)
    BY <1>1, <1>4 DEF ProjectRecords
  <1>6. Typed(p, Texts)
    BY <1>1, <1>5 DEF Typed
  <1>7. PhaseInv(p, Texts)
    BY <1>2, <1>6 DEF PhaseInv, Chain, Layered, Base
  <1> QED  BY <1>2, <1>7 DEF Good, Loads

\* A project that stands is not the mark of none.
LEMMA GoodIsStored ==
    ASSUME NEW p, Good(p)
    PROVE  p # Absent
  <1>1. p \in [artifacts   : [Kinds -> Seq(ArtifactRecords(Texts))],
               approvals   : [ArtifactIds -> Decisions],
               annotations : SUBSET ArtifactIds]
    BY DEF Good, PhaseInv, Chain, Layered, Base, Typed, ProjectRecords
  <1>2. "stored" \notin DOMAIN p
    BY <1>1
  <1> QED  BY <1>2 DEF Absent

-----------------------------------------------------------------------------
(***************************************************************************)
(* An answer that is admitted.                                             *)
(***************************************************************************)

\* What a project of an admitted answer owes to what was sent.
Stands(op, sent, next) ==
    /\ sent = CurrentRefs(next, Inputs(op))
    /\ {Ref(next, id) : id \in Artifact(next, Current(next, Results(op))).upstream} \subseteq sent

\* A result that cites some of its inputs, all of which stay current, stands on
\* them.
LEMMA InputsStay ==
    ASSUME NEW p, NEW q, NEW op, NEW cited, cited \subseteq Inputs(op),
           \A kind \in Inputs(op) : HasCurrent(p, kind) /\ Stays(p, q, kind),
           Upstream(q, Results(op)) = {Current(p, kind) : kind \in cited}
    PROVE  Stands(op, CurrentRefs(p, Inputs(op)), q)
  <1>1. ASSUME NEW kind \in Inputs(op)
        PROVE  HasCurrent(q, kind) /\ Current(q, kind) = Current(p, kind)
               /\ Ref(q, Current(q, kind)) = Ref(p, Current(p, kind))
    BY DEF Stays, Ref, ContentOf
  <1>2. CurrentRefs(p, Inputs(op)) = {Ref(p, Current(p, kind)) : kind \in Inputs(op)}
    BY DEF CurrentRefs
  <1>3. CurrentRefs(q, Inputs(op)) = {Ref(q, Current(q, kind)) : kind \in Inputs(op)}
    BY <1>1 DEF CurrentRefs
  <1>4. CurrentRefs(p, Inputs(op)) = CurrentRefs(q, Inputs(op))
    BY <1>1, <1>2, <1>3
  <1>5. \A id \in Upstream(q, Results(op)) : \E kind \in Inputs(op) : id = Current(q, kind)
    BY <1>1
  <1> QED  BY <1>3, <1>4, <1>5 DEF Stands, Upstream

\* The answer of each provider, admitted while what it was sent is current.
LEMMA AdmitKeepsGood ==
    ASSUME NEW p, Good(p), NEW op \in Coordinated, CanAsk(p, op),
           NEW answer \in Answers(op), NEW q \in Admit(p, op, answer)
    PROVE  Good(q) /\ Extends(p, q) /\ Stands(op, CurrentRefs(p, Inputs(op)), q)
  <1>1. PhaseInv(p, Texts) /\ Chain(p, Texts) /\ MadeTexts \subseteq Texts /\ Bundles \subseteq Texts
    BY DEF Good, PhaseInv, Texts
  <1>2. CASE op = "elaborate"
    <2>1. q \in AddAdmittedElaboration(p) /\ HasCurrent(p, OriginalSpec)
      BY <1>2 DEF Admit, CanAsk
    <2>2. /\ PhaseInv(q, Texts) /\ Adds(p, q, {ElaborationLog, ElaboratedSpec, TestSpec})
          /\ Stays(p, q, OriginalSpec) /\ Upstream(q, ElaborationLog) = {Current(p, OriginalSpec)}
      BY <1>1, <2>1, AdmitElaborationKeepsInv
    <2>3. Good(q) /\ Extends(p, q)
      <3>1. /\ {LogicalIRLog, LogicalIR} \cap {ElaborationLog, ElaboratedSpec, TestSpec} = {}
            /\ {CompilationLog, CompilerOutput} \cap {ElaborationLog, ElaboratedSpec, TestSpec} = {}
        OBVIOUS
      <3>2. LogicalIRLogAgrees(q) /\ CompilationLogAgrees(q)
        BY <2>2, <3>1, AddsKeepsGood
      <3> QED  BY <2>2, <3>2 DEF Good, Adds
    <2>4. Inputs(op) = {OriginalSpec} /\ Results(op) = ElaborationLog
      BY <1>2 DEF Inputs, Results
    <2>5. Upstream(q, ElaborationLog) = {Current(p, kind) : kind \in {OriginalSpec}}
      BY <2>2
    <2> QED  BY <2>1, <2>2, <2>3, <2>4, <2>5, InputsStay
  <1>3. CASE op = "logical-ir"
    <2>1. /\ q \in AddLogicalIRResponse(p, answer) /\ answer \in Documents
          /\ HasCurrent(p, ReviewedSpec) /\ HasCurrent(p, ReviewedTests)
      BY <1>3 DEF Admit, CanAsk, Answers, AllCurrent
    <2>2. /\ PhaseInv(q, Texts) /\ Adds(p, q, {LogicalIRLog, LogicalIR, LogicalReview})
          /\ Stays(p, q, ReviewedSpec) /\ Stays(p, q, ReviewedTests)
          /\ ContentOf(q, LogicalIRLog) = answer /\ ContentOf(q, LogicalIR) = answer
          /\ Upstream(q, LogicalIR) = {Current(p, ReviewedSpec), Current(p, ReviewedTests)}
      BY <1>1, <2>1, LogicalIRResponseKeepsInv
    <2>3. Good(q) /\ Extends(p, q)
      <3>1. CompilationLogAgrees(q)
        BY <2>2, AddsKeepsGood
      <3>2. LogicalIRLogAgrees(q)
        BY <2>2 DEF LogicalIRLogAgrees
      <3> QED  BY <2>2, <3>1, <3>2 DEF Good, Adds
    <2>4. Inputs(op) = {ReviewedSpec, ReviewedTests} /\ Results(op) = LogicalIR
      BY <1>3 DEF Inputs, Results
    <2>5. Upstream(q, LogicalIR) = {Current(p, kind) : kind \in {ReviewedSpec, ReviewedTests}}
      BY <2>2
    <2>6. \A kind \in Inputs(op) : HasCurrent(p, kind) /\ Stays(p, q, kind)
      BY <2>1, <2>2, <2>4
    <2>7. Stands(op, CurrentRefs(p, Inputs(op)), q)
      BY <2>4, <2>5, <2>6, InputsStay
    <2> QED  BY <2>3, <2>7
  <1>4. CASE op = "compile"
    <2>1. /\ q \in AddCompilationResponse(p, answer) /\ answer \in Texts
          /\ HasCurrent(p, ReviewedSpec) /\ HasCurrent(p, ReviewedTests) /\ HasCurrent(p, LogicalIR)
      BY <1>1, <1>4 DEF Admit, CanAsk, Answers, AllCurrent, CanBuildCompilationRequest,
                        AdmitCompilation, ReviewOfCurrentIR
    <2>2. /\ PhaseInv(q, Texts) /\ Adds(p, q, {CompilationLog, CompilerOutput})
          /\ Stays(p, q, ReviewedSpec) /\ Stays(p, q, ReviewedTests) /\ Stays(p, q, LogicalIR)
          /\ ContentOf(q, CompilationLog) = answer /\ ContentOf(q, CompilerOutput) = answer
          /\ Upstream(q, CompilerOutput) = {Current(p, LogicalIR)}
      BY <1>1, <2>1, CompilationResponseKeepsInv
    <2>3. Good(q) /\ Extends(p, q)
      <3>1. LogicalIRLogAgrees(q)
        BY <2>2, AddsKeepsGood
      <3>2. CompilationLogAgrees(q)
        BY <2>2 DEF CompilationLogAgrees
      <3> QED  BY <2>2, <3>1, <3>2 DEF Good, Adds
    <2>4. Inputs(op) = {ReviewedSpec, ReviewedTests, LogicalIR} /\ Results(op) = CompilerOutput
      BY <1>4 DEF Inputs, Results
    <2>5. Upstream(q, CompilerOutput) = {Current(p, kind) : kind \in {LogicalIR}}
      BY <2>2
    <2>6. \A kind \in Inputs(op) : HasCurrent(p, kind) /\ Stays(p, q, kind)
      BY <2>1, <2>2, <2>4
    <2>7. {LogicalIR} \subseteq Inputs(op)
      BY <2>4
    <2>8. Stands(op, CurrentRefs(p, Inputs(op)), q)
      BY <2>4, <2>5, <2>6, <2>7, InputsStay
    <2> QED  BY <2>3, <2>8
  <1>5. CASE op = "test"
    <2> DEFINE run == Current(p, SandboxHandoff)
    <2>1. HasCurrent(p, SandboxHandoff) /\ q \in AddTestResult(p, run)
      BY <1>5 DEF Admit, CanAsk
    <2>2. {SandboxHandoff, TestResult} \subseteq PipelineKinds
      BY DEF PipelineKinds, Traced
    <2>3. run \in Ids(p)
      BY <1>1, <2>1, <2>2, CurrentOfPhase
    <2>4. PhaseInv(q, Texts) /\ Derives(p, q, TestResult, run, {run})
      BY <1>1, <2>1, <2>3, TestResultKeepsInv
    <2> HIDE DEF run
    <2>5. Upstream(q, TestResult) = {run} /\ Stays(p, q, SandboxHandoff)
      BY <1>1, <2>1, <2>2, <2>4, DerivesStays, Ranks DEF PhaseInv
    <2>6. Adds(p, q, {TestResult})
      BY <2>4, DerivesAdds
    <2>7. Good(q) /\ Extends(p, q)
      BY <2>4, <2>6, AddsKeepsGood DEF Good, Adds
    <2>8. Inputs(op) = {SandboxHandoff} /\ Results(op) = TestResult
      BY <1>5 DEF Inputs, Results
    <2>9. Upstream(q, TestResult) = {Current(p, kind) : kind \in {SandboxHandoff}}
      BY <2>5 DEF run
    <2> QED  BY <2>1, <2>5, <2>7, <2>8, <2>9, InputsStay
  <1> QED  BY <1>2, <1>3, <1>4, <1>5 DEF Coordinated

-----------------------------------------------------------------------------
(***************************************************************************)
(* What save demands, and what the queries answer.                         *)
(***************************************************************************)

\* Of a project in flight, save can refuse two things only.
LEMMA RefusalsAreTwo ==
    ASSUME NEW p, Good(p), ~Loads(p)
    PROVE  \/ HasCurrent(p, ElaborationLog) /\ ~ElaborationLoads(p)
           \/ HasCurrent(p, CompilerOutput) /\ ~CompilerOutputAdmitted(p)
  <1>1. PhaseInv(p, Texts) /\ LogicalIRLogAgrees(p) /\ CompilationLogAgrees(p)
    BY DEF Good
  <1>2. ApprovalsLoad(p) /\ ReviewLogLoads(p) /\ SnapshotsLoad(p)
    BY <1>1, ReviewRules
  <1>3. LogicalIRLogLoads(p) /\ LogicalIRLoads(p) /\ LogicalReviewLoads(p)
    BY <1>1, LogicalIRRules
  <1>4. CompilationLogLoads(p) /\ CompilerOutputLoads(p)
    BY <1>1, CompilationRules
  <1>5. SandboxHandoffLoads(p) /\ TestResultLoads(p) /\ TraceabilityLoads(p)
    BY <1>1, RunRules
  <1>6. ~ElaborationLoads(p) \/ ~CompilerOutputAdmitted(p)
    BY <1>1, <1>2, <1>3, <1>4, <1>5 DEF Loads
  <1> QED  BY <1>6 DEF ElaborationLoads, CompilerOutputAdmitted

\* A report is only ever made of specifications without the log of an
\* elaboration, so the chain it names is the exact one for as long as it stands.
LEMMA ReportHasChain ==
    ASSUME NEW texts, NEW p, PhaseInv(p, texts), HasCurrent(p, TraceabilityReport)
    PROVE  ProvenanceChain(p)
  <1> DEFINE report == Current(p, TraceabilityReport)
             above == Artifact(p, report).lineage
  <1>1. Chain(p, texts) /\ TraceabilityLoads(p)
    BY RunRules DEF PhaseInv
  <1>2. /\ AllCurrent(p, Traced)
        /\ Upstream(p, TraceabilityReport) = {Current(p, CompilerOutput), Current(p, TestResult)}
    BY <1>1 DEF TraceabilityLoads
  <1>3. {TraceabilityReport, TestResult, ElaboratedSpec, TestSpec} \subseteq PipelineKinds
    BY DEF PipelineKinds, Traced
  <1>4. \A r \in above : r[1] # ElaborationLog /\ Artifact(p, r).upstream \subseteq above
    <2>1. /\ BoundTo(p, TraceabilityReport, ContentOf(p, TraceabilityReport),
                     Upstream(p, TraceabilityReport), above)
          /\ \A r \in above : Artifact(p, r).upstream \subseteq above
      BY <1>1, <1>3, CurrentIsBound, CurrentStands
    <2>2. \A content, upstream, lineage : BoundTo(p, TraceabilityReport, content, upstream, lineage) =>
             \A r \in lineage : r[1] # ElaborationLog
      BY DEF BoundTo
    <2> QED  BY <2>1, <2>2
  <1>5. Current(p, TestResult) \in above
    BY <1>1, <1>2, <1>3, CurrentStands
  <1>6. Artifact(p, Current(p, TestResult)).lineage \subseteq above
    <2>1. report \in Ids(p) /\ LineageClosed(p)
      BY <1>1, <1>3, CurrentOfPhase DEF Chain, Layered, Base
    <2> QED  BY <1>5, <2>1 DEF LineageClosed
  <1>7. Current(p, ElaboratedSpec) \in above /\ Current(p, TestSpec) \in above
    <2>1. HasCurrent(p, TestResult)
      BY <1>2 DEF AllCurrent, Traced
    <2>2. {ElaboratedSpec, TestSpec} \subseteq (Traced \cup {ReviewLog}) \ {TestResult}
      BY DEF Traced
    <2> QED  BY <1>1, <1>6, <2>1, <2>2, ResultAncestors
  <1> HIDE DEF report, above
  <1>8. Current(p, ElaborationLog)[1] = ElaborationLog
    BY DEF Current
  <1>9. /\ Current(p, ElaborationLog) \notin Upstream(p, ElaboratedSpec)
        /\ Current(p, ElaborationLog) \notin Upstream(p, TestSpec)
    BY <1>4, <1>7, <1>8 DEF Upstream
  <1>10. HasCurrent(p, ElaboratedSpec) /\ HasCurrent(p, TestSpec) /\ HasCurrent(p, LogicalIR)
         /\ HasCurrent(p, CompilerOutput) /\ HasCurrent(p, SandboxHandoff) /\ HasCurrent(p, TestResult)
    BY <1>2 DEF AllCurrent, Traced
  <1>11. /\ Upstream(p, ElaboratedSpec) = {Current(p, OriginalSpec)}
         /\ Upstream(p, TestSpec) = {Current(p, ElaboratedSpec)}
    BY <1>1, <1>9, <1>10, SpecificationsCite
  <1>12. /\ Upstream(p, LogicalIR) = {Current(p, ReviewedSpec), Current(p, ReviewedTests)}
         /\ Upstream(p, CompilerOutput) = {Current(p, LogicalIR)}
         /\ Upstream(p, SandboxHandoff) = {Current(p, CompilerOutput)}
         /\ Upstream(p, TestResult) = {Current(p, SandboxHandoff)}
    BY <1>1, <1>10, ProgramsCite
  <1> QED  BY <1>2, <1>11, <1>12 DEF ProvenanceChain

\* Each resource in turn: what is current can be shown.
LEMMA CurrentIsShown ==
    ASSUME NEW p, Good(p), NEW resource \in Resources, HasCurrent(p, Shown[resource]),
           resource = "compiler-output" => HasCurrent(p, CompilationLog)
    PROVE  Shows(p, resource)
  <1>1. PhaseInv(p, Texts) /\ Chain(p, Texts)
    BY DEF Good, PhaseInv
  <1>2. {ElaboratedSpec, TestSpec, ReviewLog} \subseteq PipelineKinds
    BY DEF PipelineKinds, Traced
  <1>3. CASE resource \in {"projects", "versions"}
    BY <1>3 DEF Shows
  <1>4. CASE resource = "review"
    <2>1. HasCurrent(p, TestSpec)
      BY <1>4 DEF Shown
    <2>2. /\ HasCurrent(p, ElaboratedSpec) /\ HasCurrent(p, OriginalSpec)
          /\ Current(p, ElaboratedSpec) \in Upstream(p, TestSpec)
          /\ Current(p, OriginalSpec) \in Upstream(p, ElaboratedSpec)
      BY <1>1, <2>1, SpecificationsCite
    <2> QED  BY <1>4, <2>1, <2>2 DEF Shows, ShowsDiff, AllCurrent
  <1>5. CASE resource = "review-decisions"
    <2>1. HasCurrent(p, ReviewLog)
      BY <1>5 DEF Shown
    <2>2. /\ HasCurrent(p, ElaboratedSpec) /\ HasCurrent(p, TestSpec)
          /\ Upstream(p, ReviewLog) = {Current(p, ElaboratedSpec), Current(p, TestSpec)}
      BY <1>1, <2>1, SpecificationsCite
    <2>3. ValidReviewLog(ContentOf(p, ReviewLog))
      BY <1>1, <1>2, <2>1, CurrentIsBound DEF BoundTo
    <2> QED  BY <1>5, <2>1, <2>2, <2>3 DEF Shows, ShowsDecisions, AllCurrent
  <1>6. CASE resource = "logical-review"
    <2>1. HasCurrent(p, LogicalReview)
      BY <1>6 DEF Shown
    <2>2. LogicalReviewLoads(p)
      BY <1>1, LogicalIRRules
    <2> QED  BY <1>6, <2>1, <2>2 DEF Shows, ShowsLogicalReview, LogicalReviewLoads
  <1>7. CASE resource = "compiler-output"
    <2>1. HasCurrent(p, CompilerOutput) /\ HasCurrent(p, CompilationLog)
      BY <1>7 DEF Shown
    <2>2. CompilerOutputLoads(p) /\ CompilationLogAgrees(p)
      BY <1>1, CompilationRules DEF Good
    <2> QED  BY <1>7, <2>1, <2>2 DEF Shows, ShowsOutput, CompilerOutputLoads, CompilationLogAgrees, AllCurrent
  <1>8. CASE resource = "test-result"
    <2>1. HasCurrent(p, TestResult)
      BY <1>8 DEF Shown
    <2>2. TestResultLoads(p)
      BY <1>1, RunRules
    <2> QED  BY <1>8, <2>1, <2>2 DEF Shows, ShowsResult, TestResultLoads, AllCurrent
  <1>9. CASE resource = "trace"
    <2>1. HasCurrent(p, TraceabilityReport)
      BY <1>9 DEF Shown
    <2>2. TraceabilityLoads(p) /\ ProvenanceChain(p)
      BY <1>1, <2>1, RunRules, ReportHasChain
    <2> QED  BY <1>9, <2>1, <2>2 DEF Shows, ShowsTrace, TraceabilityLoads
  <1> QED  BY <1>3, <1>4, <1>5, <1>6, <1>7, <1>8, <1>9 DEF Resources

\* A mark is never taken back: versions keep their text, comments stay, and what
\* was invalidated is not revived.
LEMMA MarksStay ==
    ASSUME NEW p, Good(p), NEW q, Good(q), Extends(p, q)
    PROVE  Marks(p) \subseteq Marks(q)
  <1>1. p \in ProjectRecords(Texts) /\ q \in ProjectRecords(Texts)
    BY DEF Good, PhaseInv, Chain, Layered, Base, Typed
  <1>2. ASSUME NEW id \in Ids(p), Artifact(p, id).state = Invalidated
        PROVE  id \in Ids(q) /\ Artifact(q, id).state = Invalidated
    <2>1. id \in Ids(q) /\ ~IsLive(q, id)
      BY <1>2 DEF Extends, IsLive, Live, Invalidated
    <2>2. Artifact(q, id) \in ArtifactRecords(Texts)
      BY <1>1, <2>1, IdsOfProject
    <2> QED  BY <2>1, <2>2 DEF IsLive, ArtifactRecords
  <1>3. ASSUME NEW id \in Ids(p)
        PROVE  id \in Ids(q) /\ Artifact(q, id).content = Artifact(p, id).content
    BY DEF Extends
  <1>4. p.annotations \subseteq q.annotations
    BY DEF Extends
  <1>5. ASSUME NEW mark \in Marks(p)  PROVE  mark \in Marks(q)
    <2>1. CASE \E id \in Ids(p) : mark = <<"version", id, Artifact(p, id).content>>
      BY <1>3, <2>1 DEF Marks
    <2>2. CASE \E id \in Ids(p) : Artifact(p, id).state = Invalidated /\ mark = <<"invalidated", id>>
      BY <1>2, <2>2 DEF Marks
    <2>3. CASE \E id \in p.annotations : mark = <<"annotated", id>>
      BY <1>4, <2>3 DEF Marks
    <2> QED  BY <1>5, <2>1, <2>2, <2>3 DEF Marks
  <1> QED  BY <1>5

-----------------------------------------------------------------------------
(***************************************************************************)
(* The inductive invariant.                                                *)
(***************************************************************************)

Saved == {"stage", "op", "sent", "base", "next", "missed"}

\* What is known of a call, however far it has come.
Sound(call) ==
    /\ call.stage \in {"asking", "admitting"} => call.op \in Coordinated
    /\ call.stage = "admitting" => call.answer \in Answers(call.op)
    /\ call.stage = "saving" =>
         /\ DOMAIN call = Saved
         /\ Good(call.next)
         /\ MarksOf(call.base) \subseteq MarksOf(call.next)
         /\ call.op \in Coordinated => Stands(call.op, call.sent, call.next)

Lost(c) == \E d \in Calls : Succeeded(d) /\ c \in calls[d].missed

\* The marks of a call that has succeeded are in the project, and in what every
\* other call has read that did not miss it; or they are lost to an overlap.
Kept(c) ==
    \/ Lost(c)
    \/ /\ calls[c].added \subseteq MarksOf(project)
       /\ \A d \in Calls : calls[d].stage = "saving" =>
            c \in calls[d].missed \/ calls[c].added \subseteq MarksOf(calls[d].base)

ServiceInv ==
    /\ project # Absent => Good(project) /\ Loads(project)
    /\ DOMAIN calls = Calls
    /\ \A c \in Calls : Sound(calls[c])
    /\ \A c \in Calls : calls[c].stage \in {"asking", "admitting"} => project # Absent
    /\ \A c \in Calls : Succeeded(c) => Kept(c)

\* At the start every call is idle.
LEMMA InitService == Init => ServiceInv
  <1> SUFFICES ASSUME Init
               PROVE  ServiceInv
    OBVIOUS
  <1>1. project # Absent => Good(project) /\ Loads(project)
    BY StartsAreGood DEF Init
  <1>2. DOMAIN calls = Calls /\ \A c \in Calls : calls[c].stage = "idle"
    BY DEF Init, Idle
  <1> QED  BY <1>1, <1>2 DEF ServiceInv, Sound, Succeeded

\* A step of one call that stores nothing: the project is as it was, and what
\* the call has now read, if it is to be saved, is that project.
LEMMA BecomeKeepsInv ==
    ASSUME ServiceInv, NEW c \in Calls, calls[c].stage # "replied",
           NEW call, Become(c, call), Sound(call), "added" \notin DOMAIN call,
           call.stage \in {"asking", "admitting"} => project # Absent,
           call.stage = "saving" => call.base = project
    PROVE  ServiceInv'
  <1>1. /\ project' = project /\ DOMAIN calls = Calls /\ DOMAIN calls' = Calls
        /\ calls'[c] = call /\ \A d \in Calls \ {c} : calls'[d] = calls[d]
    BY DEF Become, ServiceInv
  <1>2. \A d \in Calls :
            Sound(calls'[d]) /\ (calls'[d].stage \in {"asking", "admitting"} => project' # Absent)
    BY <1>1 DEF ServiceInv
  <1>3. /\ ~Succeeded(c) /\ ~Succeeded(c)'
        /\ \A d \in Calls \ {c} : Succeeded(d)' <=> Succeeded(d)
    BY <1>1 DEF Succeeded
  <1>4. \A d \in Calls : Lost(d) => Lost(d)'
    BY <1>1, <1>3 DEF Lost
  <1>5. ASSUME NEW d \in Calls, Succeeded(d)' PROVE  Kept(d)'
    <2>1. Succeeded(d) /\ Kept(d) /\ calls'[d] = calls[d]
      BY <1>1, <1>3, <1>5 DEF ServiceInv
    <2>2. CASE Lost(d)
      BY <1>4, <2>2 DEF Kept
    <2>3. CASE ~Lost(d)
      <3>1. calls[d].added \subseteq MarksOf(project)
        BY <2>1, <2>3 DEF Kept
      <3>2. ASSUME NEW e \in Calls, calls'[e].stage = "saving"
            PROVE  d \in calls'[e].missed \/ calls[d].added \subseteq MarksOf(calls'[e].base)
        <4>1. CASE e = c
          BY <1>1, <3>1, <3>2, <4>1
        <4>2. CASE e # c
          BY <1>1, <2>1, <2>3, <3>2, <4>2 DEF Kept
        <4> QED  BY <4>1, <4>2
      <3> QED  BY <1>1, <2>1, <3>1, <3>2 DEF Kept
    <2> QED  BY <2>2, <2>3
  <1> QED  BY <1>1, <1>2, <1>5 DEF ServiceInv

\* A reply that acknowledges nothing.
LEMMA ReplyKeepsInv ==
    ASSUME ServiceInv, NEW c \in Calls, calls[c].stage # "replied",
           NEW status, Become(c, Replied(status))
    PROVE  ServiceInv'
  <1>1. Sound(Replied(status)) /\ "added" \notin DOMAIN Replied(status) /\ Replied(status).stage = "replied"
    BY DEF Sound, Replied
  <1> QED  BY <1>1, BecomeKeepsInv

\* What one phase function made of the project is to be saved.
LEMMA SavingKeepsInv ==
    ASSUME ServiceInv, NEW c \in Calls, calls[c].stage # "replied",
           NEW op, NEW sent, NEW next, Good(next),
           project = Absent \/ (Good(project) /\ Extends(project, next)),
           op \in Coordinated => Stands(op, sent, next),
           Become(c, Saving(op, sent, next))
    PROVE  ServiceInv'
  <1> DEFINE call == Saving(op, sent, next)
  <1>1. /\ call.stage = "saving" /\ call.op = op /\ call.sent = sent
        /\ call.base = project /\ call.next = next /\ DOMAIN call = Saved
        /\ "added" \notin DOMAIN call
    BY DEF Saving, Saved
  <1>2. MarksOf(project) \subseteq MarksOf(next)
    <2>1. next # Absent
      BY GoodIsStored
    <2> QED  BY <2>1, MarksStay DEF MarksOf
  <1> HIDE DEF call
  <1>3. Sound(call)
    BY <1>1, <1>2 DEF Sound
  <1> QED  BY <1>1, <1>3, BecomeKeepsInv DEF call

-----------------------------------------------------------------------------
(***************************************************************************)
(* Every step keeps it.                                                    *)
(***************************************************************************)

\* A call that arrives.
LEMMA ReceiveKeepsInv ==
    ASSUME ServiceInv, NEW c \in Calls, Receive(c)
    PROVE  ServiceInv'
  <1>1. PICK r \in Requests[c] :
            \/ ReceiveMalformed(c, r) \/ ReceiveCreate(c, r) \/ ReceiveSubmission(c, r)
            \/ ReceiveQuery(c, r) \/ Ask(c, r)
    BY DEF Receive
  <1>2. calls[c].stage # "replied"
    BY <1>1 DEF ReceiveMalformed, ReceiveCreate, ReceiveSubmission, ReceiveQuery, Ask, Arrives
  <1>3. CASE ReceiveMalformed(c, r)
    BY <1>2, <1>3, ReplyKeepsInv DEF ReceiveMalformed
  <1>4. CASE ReceiveCreate(c, r)
    <2>1. CASE project # Absent
      BY <1>2, <1>4, <2>1, ReplyKeepsInv DEF ReceiveCreate
    <2>2. CASE project = Absent
      <3>1. r.op = "create" /\ Become(c, Saving(r.op, {}, NewProject(r.source)))
        BY <1>4, <2>2 DEF ReceiveCreate
      <3>2. Good(NewProject(r.source))
        BY <3>1, ReceivedTexts, CreateKeepsGood
      <3>3. r.op \notin Coordinated
        BY <3>1 DEF Coordinated
      <3>4. project = Absent \/ (Good(project) /\ Extends(project, NewProject(r.source)))
        BY <2>2
      <3> QED  BY <1>2, <3>1, <3>2, <3>3, <3>4, SavingKeepsInv
    <2> QED  BY <2>1, <2>2
  <1>5. CASE ReceiveSubmission(c, r)
    <2>1. r.op \in Commands \cup Edits /\ r.op \notin Coordinated
      BY <1>5 DEF ReceiveSubmission, Commands, Edits, Coordinated
    <2>2. CASE \E status : Become(c, Replied(status))
      BY <1>2, <2>2, ReplyKeepsInv
    <2>3. CASE project # Absent /\ \E next \in Submit(project, r) : Become(c, Saving(r.op, {}, next))
      <3>1. PICK next \in Submit(project, r) : Become(c, Saving(r.op, {}, next))
        BY <2>3
      <3>2. Good(project)
        BY <2>3 DEF ServiceInv
      <3>3. Good(next) /\ Extends(project, next)
        BY <2>1, <3>2, SubmitKeepsGood
      <3> QED  BY <1>2, <2>1, <3>1, <3>2, <3>3, SavingKeepsInv
    <2> QED  BY <1>5, <2>2, <2>3 DEF ReceiveSubmission, SaveOrRefuse
  <1>6. CASE ReceiveQuery(c, r)
    BY <1>2, <1>6, ReplyKeepsInv DEF ReceiveQuery
  <1>7. CASE Ask(c, r)
    <2>1. r.op \in Coordinated
      BY <1>7 DEF Ask
    <2>2. CASE \E status : Become(c, Replied(status))
      BY <1>2, <2>2, ReplyKeepsInv
    <2>3. CASE project # Absent /\ Become(c, Asking(r, CurrentRefs(project, Inputs(r.op))))
      <3> DEFINE call == Asking(r, CurrentRefs(project, Inputs(r.op)))
      <3>1. Sound(call) /\ "added" \notin DOMAIN call /\ call.stage # "saving"
        BY <2>1 DEF Sound, Asking
      <3> HIDE DEF call
      <3> QED  BY <1>2, <2>3, <3>1, BecomeKeepsInv DEF call
    <2> QED  BY <1>7, <2>2, <2>3 DEF Ask
  <1> QED  BY <1>1, <1>3, <1>4, <1>5, <1>6, <1>7

\* The provider answers.
LEMMA AnswerKeepsInv ==
    ASSUME ServiceInv, NEW c \in Calls, Answer(c)
    PROVE  ServiceInv'
  <1>1. calls[c].stage = "asking" /\ calls[c].op \in Coordinated
    BY DEF Answer, ServiceInv, Sound
  <1>2. CASE \E status : Become(c, Replied(status))
    BY <1>1, <1>2, ReplyKeepsInv
  <1>3. CASE \E answer \in Answers(calls[c].op) : Become(c, Admitting(calls[c], answer))
    <2>1. PICK answer \in Answers(calls[c].op) : Become(c, Admitting(calls[c], answer))
      BY <1>3
    <2> DEFINE call == Admitting(calls[c], answer)
    <2>2. Sound(call) /\ "added" \notin DOMAIN call /\ call.stage # "saving"
      BY <1>1 DEF Sound, Admitting
    <2>3. project # Absent
      BY <1>1 DEF ServiceInv
    <2> HIDE DEF call
    <2> QED  BY <1>1, <2>1, <2>2, <2>3, BecomeKeepsInv DEF call
  <1> QED  BY <1>2, <1>3 DEF Answer

\* The answer is admitted, if all that was sent is still current.
LEMMA AdmitAnswerKeepsInv ==
    ASSUME ServiceInv, NEW c \in Calls, AdmitAnswer(c)
    PROVE  ServiceInv'
  <1> DEFINE op == calls[c].op
             sent == calls[c].sent
             answer == calls[c].answer
  <1>1. calls[c].stage = "admitting" /\ op \in Coordinated /\ answer \in Answers(op)
    BY DEF AdmitAnswer, ServiceInv, Sound
  <1>2. CASE \E status : Become(c, Replied(status))
    BY <1>1, <1>2, ReplyKeepsInv
  <1>3. CASE /\ CanAsk(project, op) /\ CurrentRefs(project, Inputs(op)) = sent
             /\ \E next \in Admit(project, op, answer) : Become(c, Saving(op, sent, next))
    <2>1. PICK next \in Admit(project, op, answer) : Become(c, Saving(op, sent, next))
      BY <1>3
    <2>2. project # Absent
      BY <1>1 DEF ServiceInv
    <2>3. Good(project)
      BY <2>2 DEF ServiceInv
    <2> HIDE DEF op, sent, answer
    <2>4. Good(next) /\ Extends(project, next) /\ Stands(op, sent, next)
      BY <1>1, <1>3, <2>1, <2>3, AdmitKeepsGood
    <2> QED  BY <1>1, <2>1, <2>3, <2>4, SavingKeepsInv
  <1> QED  BY <1>2, <1>3 DEF AdmitAnswer, SaveOrRefuse

\* What is read before a save and what is stored by it: a call that has
\* succeeded before is in what this call read, or this call missed it, and its
\* update is lost now.
LEMMA StoreKeepsInv ==
    ASSUME ServiceInv, NEW c \in Calls, calls[c].stage = "saving", Loads(calls[c].next), Store(c)
    PROVE  ServiceInv'
  <1> DEFINE call == calls[c]
  <1>1. /\ DOMAIN call = Saved /\ Good(call.next) /\ Loads(call.next)
        /\ MarksOf(call.base) \subseteq MarksOf(call.next)
    BY DEF ServiceInv, Sound
  <1>2. /\ project' = call.next /\ DOMAIN calls' = Calls /\ calls'[c] = Acknowledged(call)
        /\ \A d \in Calls \ {c} : calls'[d] = Noticed(c, d)
    BY DEF Store
  <1>3. /\ calls'[c].stage = "replied" /\ "added" \in DOMAIN calls'[c]
        /\ calls'[c].status \in {"200", "201"}
        /\ calls'[c].missed = call.missed
        /\ calls'[c].added \subseteq Marks(call.next)
    BY <1>2 DEF Acknowledged
  <1>4. ASSUME NEW d \in Calls \ {c}, calls[d].stage # "saving"
        PROVE  calls'[d] = calls[d]
    BY <1>2, <1>4 DEF Noticed
  <1>5. ASSUME NEW d \in Calls \ {c}, calls[d].stage = "saving"
        PROVE  /\ calls'[d].stage = "saving" /\ DOMAIN calls'[d] = Saved
               /\ calls'[d].op = calls[d].op /\ calls'[d].sent = calls[d].sent
               /\ calls'[d].base = calls[d].base /\ calls'[d].next = calls[d].next
               /\ calls'[d].missed = calls[d].missed \cup {c}
    <2>1. DOMAIN calls[d] = Saved
      BY <1>5 DEF ServiceInv, Sound
    <2>2. calls'[d] = [calls[d] EXCEPT !.missed = @ \cup {c}]
      BY <1>2, <1>5 DEF Noticed
    <2> QED  BY <1>5, <2>1, <2>2 DEF Saved
  <1> HIDE DEF call
  <1>6. project' # Absent /\ Good(project') /\ Loads(project') /\ MarksOf(project') = Marks(call.next)
    BY <1>1, <1>2, GoodIsStored DEF MarksOf
  <1>7. ASSUME NEW d \in Calls PROVE  Sound(calls'[d])
    <2>1. CASE d = c
      BY <1>3, <2>1 DEF Sound
    <2>2. CASE d # c /\ calls[d].stage # "saving"
      BY <1>4, <2>2 DEF ServiceInv
    <2>3. CASE d # c /\ calls[d].stage = "saving"
      BY <1>5, <2>3 DEF ServiceInv, Sound
    <2> QED  BY <2>1, <2>2, <2>3
  <1>8. Succeeded(c)' /\ \A d \in Calls \ {c} : Succeeded(d)' <=> Succeeded(d)
    BY <1>3, <1>4, <1>5 DEF Succeeded
  <1>9. \A d \in Calls \ {c} : Succeeded(d) => calls'[d] = calls[d]
    BY <1>4 DEF Succeeded
  <1>10. \A d : Lost(d) => Lost(d)'
    <2>1. ~Succeeded(c)
      BY DEF Succeeded
    <2> QED  BY <1>8, <1>9, <2>1 DEF Lost
  <1>11. Kept(c)'
    <2>1. calls'[c].added \subseteq MarksOf(project')
      BY <1>3, <1>6
    <2>2. \A d \in Calls : calls'[d].stage = "saving" => c \in calls'[d].missed
      BY <1>3, <1>4, <1>5
    <2> QED  BY <2>1, <2>2 DEF Kept
  <1>12. ASSUME NEW d \in Calls \ {c}, Succeeded(d) PROVE  Kept(d)'
    <2>1. Kept(d) /\ calls'[d] = calls[d]
      BY <1>9, <1>12 DEF ServiceInv
    <2>2. CASE Lost(d)
      BY <1>10, <2>2 DEF Kept
    <2>3. CASE d \in call.missed
      BY <1>3, <1>8, <2>3 DEF Kept, Lost
    <2>4. CASE ~Lost(d) /\ d \notin call.missed
      <3>1. calls[d].added \subseteq MarksOf(call.base)
        BY <2>1, <2>4 DEF Kept, call
      <3>2. calls[d].added \subseteq MarksOf(project')
        BY <1>1, <1>2, <3>1
      <3>3. ASSUME NEW e \in Calls, calls'[e].stage = "saving"
            PROVE  d \in calls'[e].missed \/ calls[d].added \subseteq MarksOf(calls'[e].base)
        <4>1. e # c /\ calls[e].stage = "saving"
          BY <1>3, <1>4, <3>3
        <4>2. d \in calls[e].missed \/ calls[d].added \subseteq MarksOf(calls[e].base)
          BY <2>1, <2>4, <4>1 DEF Kept
        <4> QED  BY <1>5, <4>1, <4>2
      <3> QED  BY <2>1, <3>2, <3>3 DEF Kept
    <2> QED  BY <2>2, <2>3, <2>4
  <1> QED  BY <1>2, <1>6, <1>7, <1>8, <1>11, <1>12 DEF ServiceInv

\* The project is saved, or the save is refused.
LEMMA SaveKeepsInv ==
    ASSUME ServiceInv, NEW c \in Calls, Save(c)
    PROVE  ServiceInv'
  <1>1. calls[c].stage = "saving"
    BY DEF Save
  <1>2. CASE \E status : Become(c, Replied(status))
    BY <1>1, <1>2, ReplyKeepsInv
  <1>3. CASE Loads(calls[c].next) /\ Store(c)
    BY <1>1, <1>3, StoreKeepsInv
  <1> QED  BY <1>2, <1>3 DEF Save

\* Every step.
LEMMA NextService == ServiceInv /\ [Next]_vars => ServiceInv'
  <1> SUFFICES ASSUME ServiceInv, [Next]_vars
               PROVE  ServiceInv'
    OBVIOUS
  <1>1. ASSUME NEW c \in Calls, Receive(c) \/ Proceed(c)
        PROVE  ServiceInv'
    BY <1>1, ReceiveKeepsInv, AnswerKeepsInv, AdmitAnswerKeepsInv, SaveKeepsInv DEF Proceed
  <1>2. ASSUME UNCHANGED vars
        PROVE  ServiceInv'
    BY <1>2 DEF vars, ServiceInv, Kept, Lost, Succeeded
  <1> QED  BY <1>1, <1>2 DEF Next, Rest

\* The invariant of the service.
THEOREM ServiceInvariant == Spec => []ServiceInv
  <1> QED  BY InitService, NextService, PTL DEF Spec

-----------------------------------------------------------------------------
(***************************************************************************)
(* What the runs check.                                                    *)
(***************************************************************************)

\* An acknowledged update is only ever lost to a call that overlapped with it,
\* whatever the calls are, however many, and in whatever order they save.
THEOREM UpdatesSurvive == Spec => []LossNeedsOverlap
  <1>1. ServiceInv => LossNeedsOverlap
    BY DEF ServiceInv, Kept, Lost, LossNeedsOverlap
  <1> QED  BY <1>1, ServiceInvariant, PTL

\* What is saved of an answer stands on exactly what the provider was sent.
THEOREM AnswersStandOnRequests == Spec => []ResultsStandOnWhatWasSent
  <1>1. ServiceInv => ResultsStandOnWhatWasSent
    BY DEF ServiceInv, Sound, Stands, ResultsStandOnWhatWasSent
  <1> QED  BY <1>1, ServiceInvariant, PTL

\* The stored project always loads, and only two rules of project_from_dict can
\* refuse what a phase function has accepted: the others follow from what the
\* functions keep true.
THEOREM RefusalsAreKnown == Spec => []RefusedSavesAreKnown
  <1>1. ServiceInv => RefusedSavesAreKnown
    BY RefusalsAreTwo DEF ServiceInv, Sound, RefusedSavesAreKnown
  <1> QED  BY <1>1, ServiceInvariant, PTL

\* Every query about a current artifact of the stored project is answered with
\* it, however the project came to be stored.
THEOREM StoredIsShown == Spec => []StoredArtifactsAreShown
  <1>1. ServiceInv => StoredArtifactsAreShown
    BY CurrentIsShown DEF ServiceInv, StoredArtifactsAreShown
  <1> QED  BY <1>1, ServiceInvariant, PTL
=============================================================================
