---------------------------- MODULE ArtifactGraph ----------------------------
(***************************************************************************)
(* One project under every operation of specatom_hs/projects.py that does  *)
(* not belong to a particular phase: deriving an artifact from references, *)
(* deciding on it, annotating it, replacing the source.  The phases add    *)
(* guards of their own (ReviewPipeline); what is promised here holds for   *)
(* all of them.                                                            *)
(*                                                                         *)
(* Inputs says which kinds the callers cite as upstream of a kind.  The    *)
(* graph is Staged when no kind can, through any chain of citations, be    *)
(* built on its own kind; the theorems that need it say so.                *)
(***************************************************************************)
EXTENDS ProjectInvariants

CONSTANTS
    Contents,       \* kind -> the texts it may have, told apart by their hash
    Inputs,         \* kind -> the kinds it is derived from
    Reviewable,     \* bound: artifact ids that decisions are given on
    Commented       \* bound: artifact ids that comments are given on

ASSUME ArtifactGraphAssumption ==
    /\ DOMAIN Contents = Kinds
    /\ Inputs \in [Kinds -> SUBSET Kinds]

Staged ==
    \E rank \in [Kinds -> Nat] :
        \A kind \in Kinds : \A input \in Inputs[kind] : rank[input] < rank[kind]

VARIABLE project

-----------------------------------------------------------------------------
Init == \E content \in Contents[OriginalSpec] : project = NewProject(content)

\* add_artifact, add_semantic_artifact and every phase's own transition end
\* in this step; replace_source alone versions the source.
AddDerivedArtifact(kind, content, refs) ==
    /\ kind # OriginalSpec
    /\ CanAddDerived(project, kind, refs)
    /\ project' = AddDerived(project, kind, content, refs)

DecideArtifact(id, decision) ==
    /\ CanDecide(project, id)
    /\ project' = Decide(project, id, decision)

AnnotateArtifact(id) ==
    /\ CanAnnotate(project, id)
    /\ project' = Annotate(project, id)

ReplaceOriginal(content) ==
    /\ CanReplaceSource(project)
    /\ project' = ReplaceSource(project, content)

References(kind) == SUBSET {id \in Ids(project) : id[1] \in Inputs[kind]}

Next ==
    \/ \E kind \in Kinds : \E content \in Contents[kind], refs \in References(kind) :
            AddDerivedArtifact(kind, content, refs)
    \/ \E id \in Ids(project) \cap Reviewable, decision \in ReviewDecisions : DecideArtifact(id, decision)
    \/ \E id \in Ids(project) \cap Commented : AnnotateArtifact(id)
    \/ \E content \in Contents[OriginalSpec] : ReplaceOriginal(content)

Spec == Init /\ [][Next]_project

-----------------------------------------------------------------------------
Texts == UNION {Contents[kind] : kind \in Kinds}

-----------------------------------------------------------------------------
(***************************************************************************)
(* Safety.                                                                 *)
(***************************************************************************)

TypeOK == Typed(project, Texts)

\* Project.current picks one version of a kind; for every kind but evidence
\* there is never a second live version it could be confused with, and the
\* live one is the newest ever created: no older version comes back to the
\* front when the newer one is invalidated.
OnlyNewestIsLive == NewestOnly(project)

\* replace_source never meets its "project has no current original source"
\* error: no cascade reaches the source without a new one taking its place.
SourceIsLive == SourceLive(project)

\* project_from_dict refuses a project in which an invalidated artifact still
\* has an active decision; no sequence of operations produces one, whatever
\* order decisions, revocations and new versions come in.  Conversely a
\* decision is voided only with its artifact.
DecisionsMatchStates == DecisionsFollow(project)

\* Whatever is live was built from artifacts that are still live: a stale
\* input anywhere upstream has taken everything downstream with it.
LiveInputsAreLive == InputsLive(project)

\* _invalidate_from stops, and what it then has is every artifact whose
\* lineage meets the ids it began with, wherever it begins: with one artifact,
\* as a new version does, or with all its direct dependents, as a revocation does.
LineageIsTheLoop ==
    \A id \in Ids(project) :
        /\ LoopFrom(project, {id}) = Reached(project, {id})
        /\ LoopFrom(project, DirectDependents(project, id)) =
             Reached(project, DirectDependents(project, id))

\* The strengthening the proofs use: what _invalidate_from walks is the whole
\* of an artifact's ancestry, nothing is its own ancestor, and a source has none.
Inv ==
    /\ Base(project, Texts)
    /\ Acyclic(project)
    /\ SourceLive(project)

\* The history is immutable: an operation never drops or rewrites a version
\* and never brings an invalidated one back.
HistoryOnlyGrows == [][Extends(project, project')]_project

\* An approval that is lost, by a later decision or because the artifact was
\* invalidated, takes every artifact derived from it, at any distance, with
\* it in the same step.
LostApprovalsCascade == [][Cascades(project, project')]_project

\* Evidence is an append-only set: recording one more run of a tool leaves
\* every artifact and decision as it was.
EvidenceIsIndependent == [][AddsEvidence(project, project')]_project
=============================================================================
