---------------------------- MODULE ProjectQueries ----------------------------
(***************************************************************************)
(* ProjectQueryService and the GET routes of ReadOnlyProjectApplication:   *)
(* which resource of a stored project is answered and which is refused.    *)
(* What an answer shows is left out, down to this: whether it is made of   *)
(* the current artifacts, correctly bound to one another.                  *)
(***************************************************************************)
EXTENDS Phases

Resources ==
    {"projects", "versions", "review", "review-decisions", "logical-review",
     "compiler-output", "test-result", "trace"}

\* The artifact a resource is about.
Shown ==
    [resource \in Resources |->
        CASE resource \in {"projects", "versions"} -> OriginalSpec
          [] resource = "review" -> TestSpec
          [] resource = "review-decisions" -> ReviewLog
          [] resource = "logical-review" -> LogicalReview
          [] resource = "compiler-output" -> CompilerOutput
          [] resource = "test-result" -> TestResult
          [] resource = "trace" -> TraceabilityReport]

\* build_phase3_review_diff.
ShowsDiff(p) ==
    /\ AllCurrent(p, {OriginalSpec, ElaboratedSpec, TestSpec})
    /\ Current(p, OriginalSpec) \in Upstream(p, ElaboratedSpec)
    /\ Current(p, ElaboratedSpec) \in Upstream(p, TestSpec)

ShowsDecisions(p) ==
    /\ AllCurrent(p, {ReviewLog, ElaboratedSpec, TestSpec})
    /\ Upstream(p, ReviewLog) = {Current(p, ElaboratedSpec), Current(p, TestSpec)}
    /\ ValidReviewLog(ContentOf(p, ReviewLog))

ShowsLogicalReview(p) == ReviewOfCurrentIR(p)

\* Output is shown only with the log of the interaction that made it.
ShowsOutput(p) ==
    /\ AllCurrent(p, {CompilerOutput, CompilationLog, LogicalIR})
    /\ Upstream(p, CompilerOutput) = {Current(p, LogicalIR)}
    /\ ContentOf(p, CompilationLog) = ContentOf(p, CompilerOutput)

\* Fault: the result is looked for under the output, not the hand-off.
ShowsResultOfOutput(p) ==
    /\ AllCurrent(p, {TestResult, SandboxHandoff})
    /\ Upstream(p, TestResult) = {Current(p, CompilerOutput)}
    /\ Artifact(p, ContentOf(p, TestResult)).content = ContentOf(p, SandboxHandoff)

ShowsResult(p) ==
    /\ AllCurrent(p, {TestResult, SandboxHandoff})
    /\ Upstream(p, TestResult) = {Current(p, SandboxHandoff)}
    /\ Artifact(p, ContentOf(p, TestResult)).content = ContentOf(p, SandboxHandoff)

ShowsTrace(p) ==
    /\ HasCurrent(p, TraceabilityReport)
    /\ ProvenanceChain(p)
    /\ Upstream(p, TraceabilityReport) = {Current(p, CompilerOutput), Current(p, TestResult)}
    /\ ContentOf(p, TraceabilityReport) = Provenance(p)

Shows(p, resource) ==
    CASE resource \in {"projects", "versions"} -> TRUE
      [] resource = "review" -> ShowsDiff(p)
      [] resource = "review-decisions" -> ShowsDecisions(p)
      [] resource = "logical-review" -> ShowsLogicalReview(p)
      [] resource = "compiler-output" -> ShowsOutput(p)
      [] resource = "test-result" -> ShowsResult(p)
      [] resource = "trace" -> ShowsTrace(p)
=============================================================================
