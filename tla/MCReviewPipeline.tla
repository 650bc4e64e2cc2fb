-------------------------- MODULE MCReviewPipeline --------------------------
(***************************************************************************)
(* Instances of ReviewPipeline for TLC.                                    *)
(***************************************************************************)
EXTENDS ReviewPipeline

CONSTANTS s1, s2, d1, d2, x1, x2, files

MCSources == {s1, s2}
OneSource == {s1}

\* d2 has a critical finding.
MCFlagged == {d2}

\* Two outputs with the same file paths and different text.
MCBundles == {[files |-> files, text |-> x1], [files |-> files, text |-> x2]}
OneDocument == {d1}
FlaggedDocument == {d2}
NoneFlagged == {}
OneBundle == {[files |-> files, text |-> x1]}

Entry(on, decision) == [on |-> on, decision |-> decision, targeted |-> FALSE, commented |-> FALSE]
Remark(on) == [on |-> on, decision |-> Withheld, targeted |-> TRUE, commented |-> TRUE]

ApproveBoth == <<Entry(ElaboratedSpec, Approved), Entry(TestSpec, Approved)>>
RejectSpec == <<Entry(ElaboratedSpec, Withheld)>>
RejectSpecRemarkTests == <<Entry(ElaboratedSpec, Withheld), Remark(TestSpec)>>

Unedited(entries) == [entries |-> entries, edited |-> FALSE]
WithEdits(entries) == [entries |-> entries, edited |-> TRUE]

ReviewableKinds == {ElaboratedSpec, TestSpec, LogicalIR, CompilerOutput}
MCReviewable == ReviewableKinds \X {1}
BackReviewable == {LogicalIR, CompilerOutput} \X (1..MaxVersions)
\* A comment on the last artifact of all, to keep the instances small.
MCCommented == {<<TraceabilityReport, 1>>}

\* Rework of the specifications: every later stage gets one version, which a
\* cascade can reach.
FrontReworked == {OriginalSpec, ElaboratedSpec, TestSpec, ReviewLog, ReviewedSpec, ReviewedTests}
FrontReviews == {WithEdits(ApproveBoth), WithEdits(RejectSpec), Unedited(RejectSpecRemarkTests)}

\* Rework from the logical IR on.
BackReworked == {LogicalIR, LogicalReview, CompilerOutput, SandboxHandoff, TestResult}
BackReviews == {Unedited(ApproveBoth)}
=============================================================================
