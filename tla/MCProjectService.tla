--------------------------- MODULE MCProjectService ---------------------------
(***************************************************************************)
(* Instances of ProjectService for TLC.                                    *)
(***************************************************************************)
EXTENDS ProjectService

CONSTANTS s1, s2, d1, d2, x1, x2, files

MCFlagged == {d2}
MCDocuments == {d1, d2}
MCBundles == {[files |-> files, text |-> x1], [files |-> files, text |-> x2]}

Entry(on, decision) == [on |-> on, decision |-> decision, targeted |-> FALSE, commented |-> FALSE]
Log(spec, tests) == [entries |-> <<Entry(ElaboratedSpec, spec), Entry(TestSpec, tests)>>, edited |-> FALSE]

-----------------------------------------------------------------------------
\* Projects that calls may find, each made by the phases before it.

The(results) == CHOOSE p \in results : TRUE
And(p, Continue(_)) == The(Continue(p))

Created == NewProject(s1)
Elaborated == The(AddAdmittedElaboration(Created))
Written == And(The(SubmitElaboratedSpec(Created)), SubmitTestSpec)
Reviewed(p) == The(SubmitPhase3Review(p, Log(Approved, Approved)))
ApprovedIn(p, kind) == The(Decided(p, Current(p, kind), Approved))
WithIR(p, document) == ApprovedIn(The(AddLogicalIRResponse(p, document)), LogicalIR)
Waived(p) == The(DecideLogicalFinding(p, "waived"))
CompiledFrom(p) == ApprovedIn(The(AddCompilationResponse(p, [files |-> files, text |-> x1])), CompilerOutput)
HandedOver(p) == The(AddSandboxHandoff(p, files))

WaivedOutput == CompiledFrom(Waived(WithIR(Reviewed(Elaborated), d2)))
HandedOverOutput == HandedOver(CompiledFrom(WithIR(Reviewed(Written), d1)))

MCStarts == {Absent, Elaborated, WaivedOutput, HandedOverOutput}

-----------------------------------------------------------------------------
\* Requests about what those projects hold.

First(kind, held) == [id |-> <<kind, 1>>, content |-> held]

TheSource == First(OriginalSpec, s1)
TheSpec == First(ElaboratedSpec, Drafted)
TheTests == First(TestSpec, Drafted)
TheOutput == First(CompilerOutput, [files |-> files, text |-> x1])
TheIRs == {First(LogicalIR, d1), First(LogicalIR, d2)}
TheReviews ==
    {First(LogicalReview, [document |-> d1, finding |-> Clean]),
     [id |-> <<LogicalReview, 2>>, content |-> [document |-> d2, finding |-> "waived"]]}

\* These are the current artifacts of the projects in MCStarts.
ASSUME RequestsAssumption ==
    {TheSource, TheSpec, TheTests, TheOutput} \cup TheIRs \cup TheReviews =
        UNION {CurrentRefs(p, {OriginalSpec, ElaboratedSpec, TestSpec, LogicalIR, LogicalReview, CompilerOutput})
                 : p \in MCStarts \ {Absent}}

Creations == [op : {"create"}, source : {s1}]
Malformed == [op : {"malformed"}, status : {"400", "405"}]
Queries == [op : {"get"}, resource : {"trace"}]
Asks == [op : Coordinated]
Submissions ==
    [op : {"elaborated-spec"}, on : {TheSource}]
        \cup [op : {"test-spec"}, on : {TheSpec}]
        \cup [op : {"review"}, on : {TheSpec}, tests : {TheTests},
              log : {Log(Approved, Approved), Log(Withheld, Approved)}]
Verdicts ==
    [op : {"decisions"}, decision : {Withheld},
     on : {TheTests, TheOutput} \cup TheIRs]
        \cup [op : {"logical-review"}, on : TheIRs, review : TheReviews,
              disposition : {"waived", Deferred}]
Remarks == [op : {"annotations"}, on : {TheSpec}]
EditsMade ==
    [op : {"replace-source"}, source : {s2}] \cup [op : {"handoff", "trace-report"}]

Everything == Creations \cup Asks \cup Submissions \cup Verdicts \cup Remarks \cup EditsMade
Few == [op : {"annotations"}, on : {TheSource}]

\* Two calls of any kind, and a third one.
MCRequests == <<Everything, Everything \cup Malformed \cup Queries, Few>>

MCReworked == PipelineKinds
=============================================================================
