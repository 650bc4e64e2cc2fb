--------------------------- MODULE PhaseInvariants ---------------------------
(***************************************************************************)
(* What the phase functions keep true of a project, one version at a time: *)
(* which kinds a version cites, how its content is tied to the content of  *)
(* what it cites, which approvals a live version stands under, and which   *)
(* live versions do without one another.  The chain rules of               *)
(* project_from_dict, which are about the current versions, follow.        *)
(***************************************************************************)
EXTENDS Phases, ProjectInvariants

\* The kinds that a version of a kind cites.  Only specifications that a
\* provider elaborated cite the log of it.
Citations ==
    {<<OriginalSpec, {}>>,
     <<ElaborationLog, {OriginalSpec}>>,
     <<ElaboratedSpec, {OriginalSpec}>>,
     <<ElaboratedSpec, {OriginalSpec, ElaborationLog}>>,
     <<TestSpec, {ElaboratedSpec}>>,
     <<TestSpec, {ElaboratedSpec, ElaborationLog}>>,
     <<ReviewLog, {ElaboratedSpec, TestSpec}>>,
     <<ReviewedSpec, {ElaboratedSpec, ReviewLog}>>,
     <<ReviewedTests, {TestSpec, ReviewLog}>>,
     <<LogicalIRLog, {ReviewedSpec, ReviewedTests}>>,
     <<LogicalIR, {ReviewedSpec, ReviewedTests}>>,
     <<LogicalReview, {LogicalIR}>>,
     <<CompilationLog, {ReviewedSpec, ReviewedTests, LogicalIR}>>,
     <<CompilerOutput, {LogicalIR}>>,
     <<SandboxHandoff, {CompilerOutput}>>,
     <<TestResult, {SandboxHandoff}>>,
     <<TraceabilityReport, {CompilerOutput, TestResult}>>}

\* Phase order: every kind is above the kinds it cites.
PhaseRank ==
    [kind \in Kinds |->
        CASE kind = ElaborationLog -> 1
          [] kind = ElaboratedSpec -> 2
          [] kind = TestSpec -> 3
          [] kind = ReviewLog -> 4
          [] kind \in {ReviewedSpec, ReviewedTests} -> 5
          [] kind \in {LogicalIRLog, LogicalIR} -> 6
          [] kind \in {LogicalReview, CompilationLog, CompilerOutput} -> 7
          [] kind = SandboxHandoff -> 8
          [] kind = TestResult -> 9
          [] kind = TraceabilityReport -> 10
          [] OTHER -> 0]

KindsOf(ids) == {id[1] : id \in ids}

Cites(p) == \A id \in Ids(p) : <<id[1], KindsOf(Artifact(p, id).upstream)>> \in Citations

LogicalReviews == [document : Documents, finding : {Clean, Open} \cup FindingDecisions]

\* How the content of a version of a kind is tied to what it cites.
BoundTo(p, kind, content, upstream, lineage) ==
    /\ kind = ReviewLog => ValidReviewLog(content)
    /\ kind = ReviewedSpec =>
         \A spec, log \in upstream : spec[1] = ElaboratedSpec /\ log[1] = ReviewLog =>
            content = ReviewedText(Artifact(p, spec).content, Artifact(p, log).content)
    /\ kind = ReviewedTests =>
         \A tests, log \in upstream : tests[1] = TestSpec /\ log[1] = ReviewLog =>
            content = ReviewedText(Artifact(p, tests).content, Artifact(p, log).content)
    /\ kind = LogicalIR => content \in Documents
    /\ kind = LogicalReview =>
         /\ content \in LogicalReviews
         /\ \A ir \in upstream : content.document = Artifact(p, ir).content
    /\ kind = SandboxHandoff =>
         \A output \in upstream : content = Artifact(p, output).content.files
    /\ kind = TestResult =>
         /\ content \in Ids(p)
         /\ \A handoff \in upstream : Artifact(p, content).content = Artifact(p, handoff).content
    /\ kind = TraceabilityReport =>
         /\ content = [traced \in Traced |-> content[traced]]
         /\ \A traced \in Traced : content[traced] \in lineage /\ content[traced][1] = traced
         /\ \A r \in lineage : r[1] # ElaborationLog

Bound(p) ==
    \A id \in Ids(p) :
        BoundTo(p, id[1], Artifact(p, id).content, Artifact(p, id).upstream, Artifact(p, id).lineage)

\* The contents that the phase functions make themselves.
MadeTexts ==
    {Drafted, Edited} \cup ArtifactIds \cup Documents \cup LogicalReviews \cup [Traced -> ArtifactIds]

\* Which kinds stand, at whatever distance, on the approval of which.
StandsOn ==
    ({ReviewedSpec, ReviewedTests} \X {ElaboratedSpec, TestSpec})
        \cup {<<CompilerOutput, LogicalIR>>, <<SandboxHandoff, CompilerOutput>>}

ApprovedAbove(p) ==
    \A id \in Ids(p) : IsLive(p, id) =>
        \A r \in Artifact(p, id).lineage : <<id[1], r[1]>> \in StandsOn => IsApproved(p, r)

Chain(p, texts) ==
    /\ Layered(p, PhaseRank, texts)
    /\ LineageLive(p)
    /\ Cites(p)
    /\ Bound(p)
    /\ ApprovedAbove(p)

\* The current version of a kind is the same in q as in p.
Stays(p, q, kind) ==
    /\ HasCurrent(q, kind)
    /\ Current(q, kind) = Current(p, kind)
    /\ ContentOf(q, kind) = ContentOf(p, kind)
    /\ Upstream(q, kind) = Upstream(p, kind)

\* A live version of the one kind comes with a live version of the other that
\* is built on nothing else than it is: what takes away the second takes away
\* the first.
Twin(p, kind, other) ==
    \A id \in Ids(p) : IsLive(p, id) /\ id[1] = kind =>
        \E twin \in Ids(p) :
            /\ IsLive(p, twin) /\ twin[1] = other
            /\ Artifact(p, twin).lineage \subseteq Artifact(p, id).lineage

Twins(p) ==
    /\ Twin(p, ReviewedSpec, ReviewedTests)
    /\ Twin(p, ReviewedTests, ReviewedSpec)
    /\ Twin(p, LogicalIRLog, LogicalIR)
    /\ Twin(p, CompilationLog, CompilerOutput)

PhaseInv(p, texts) == Chain(p, texts) /\ SourceLive(p) /\ Twins(p)
=============================================================================
