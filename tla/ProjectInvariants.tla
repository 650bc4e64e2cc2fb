-------------------------- MODULE ProjectInvariants --------------------------
(***************************************************************************)
(* What is claimed of one project value, whatever functions made it, and   *)
(* of two project values of which the second was made from the first.      *)
(* They are predicates on projects, not on a variable, so that the proofs  *)
(* can follow them through a composition of functions; texts is the set of *)
(* the contents that artifacts may have.                                   *)
(***************************************************************************)
EXTENDS Projects

ArtifactRecords(texts) ==
    [content  : texts,
     upstream : SUBSET ArtifactIds,
     lineage  : SUBSET ArtifactIds,
     state    : {Live, Invalidated}]

ProjectRecords(texts) ==
    [artifacts   : [Kinds -> Seq(ArtifactRecords(texts))],
     approvals   : [ArtifactIds -> Decisions],
     annotations : SUBSET ArtifactIds]

Typed(p, texts) ==
    /\ p \in ProjectRecords(texts)
    /\ \A kind \in Kinds : Len(p.artifacts[kind]) <= MaxVersions

NewestOnly(p) ==
    \A kind \in Kinds \ {RuntimeEvidence} :
        \A v \in DOMAIN p.artifacts[kind] :
            p.artifacts[kind][v].state = Live => v = Len(p.artifacts[kind])

SourceLive(p) ==
    LET versions == p.artifacts[OriginalSpec] IN
    Len(versions) > 0 /\ versions[Len(versions)].state = Live

DecisionsFollow(p) ==
    \A id \in ArtifactIds :
        /\ p.approvals[id] # NoDecision => id \in Ids(p)
        /\ id \in Ids(p) =>
             \/ p.approvals[id] = NoDecision
             \/ (p.approvals[id] = Void) <=> (Artifact(p, id).state = Invalidated)

InputsLive(p) ==
    \A id \in Ids(p) :
        IsLive(p, id) => \A r \in Artifact(p, id).upstream : IsLive(p, r)

\* The same at any distance.
LineageLive(p) ==
    \A id \in Ids(p) :
        IsLive(p, id) => \A r \in Artifact(p, id).lineage : IsLive(p, r)

\* All that a version citing refs is built on, at any distance.
Above(p, refs) == refs \cup UNION {Artifact(p, r).lineage : r \in refs}

\* Lineage is the transitive upstream: closed, and no larger than that.
LineageClosed(p) ==
    \A id \in Ids(p) :
        /\ Artifact(p, id).upstream \subseteq Artifact(p, id).lineage
        /\ Artifact(p, id).lineage \subseteq Ids(p)
        /\ \A r \in Artifact(p, id).lineage :
             /\ Artifact(p, r).lineage \subseteq Artifact(p, id).lineage
             /\ \/ r \in Artifact(p, id).upstream
                \/ \E s \in Artifact(p, id).lineage : r \in Artifact(p, s).upstream

\* Nothing is built on itself, lineage is what the direct inputs and their
\* lineages are, and there are finitely many artifacts.
Acyclic(p) ==
    /\ IsFiniteSet(Ids(p))
    /\ \A id \in Ids(p) :
         /\ id \notin Artifact(p, id).lineage
         /\ Artifact(p, id).lineage = Above(p, Artifact(p, id).upstream)

SourceIsRoot(p) ==
    \A id \in Ids(p) : id[1] = OriginalSpec => Artifact(p, id).lineage = {}

\* All of it but that there is a live source, which ReplaceSource takes away
\* for a moment.
Base(p, texts) ==
    /\ Typed(p, texts)
    /\ LineageClosed(p)
    /\ SourceIsRoot(p)
    /\ NewestOnly(p)
    /\ DecisionsFollow(p)

\* Along every lineage the rank of the kind falls, so superseding a kind
\* cannot reach what its new version is built on.
Ranked(p, rank) ==
    \A id \in Ids(p) : \A r \in Artifact(p, id).lineage : rank[r[1]] < rank[id[1]]

Layered(p, rank, texts) == Base(p, texts) /\ Ranked(p, rank) /\ InputsLive(p)

-----------------------------------------------------------------------------
\* q has every version p has, with the same text and upstream, and every
\* comment, and revives none.
Extends(p, q) ==
    /\ \A id \in Ids(p) :
         /\ id \in Ids(q)
         /\ Artifact(q, id).content = Artifact(p, id).content
         /\ Artifact(q, id).upstream = Artifact(p, id).upstream
         /\ Artifact(q, id).lineage = Artifact(p, id).lineage
         /\ IsLive(q, id) => IsLive(p, id)
    /\ p.annotations \subseteq q.annotations

\* What q has beyond p is of these kinds.
Adds(p, q, kinds) ==
    Extends(p, q) /\ \A id \in Ids(q) \ Ids(p) : id[1] \in kinds

\* Of every artifact whose approval p has and q has not, nothing derived is
\* live in q.
Cascades(p, q) ==
    \A id \in Ids(p) :
        IsApproved(p, id) /\ ~IsApproved(q, id) =>
            \A other \in Ids(p) :
                id \in Artifact(p, other).lineage => ~IsLive(q, other)

\* What q invalidates of p is built on c, or is c; and all that is built on c.
FallsBelow(p, q, c) ==
    \A id \in Ids(p) :
        /\ c \in Artifact(p, id).lineage => ~IsLive(q, id)
        /\ IsLive(p, id) /\ ~IsLive(q, id) => id = c \/ c \in Artifact(p, id).lineage

\* What is still live in q has the decision it had in p.
KeepsDecisions(p, q) ==
    \A id \in Ids(p) : IsLive(q, id) => q.approvals[id] = p.approvals[id]

\* q is p with one more version of a kind, which is the only live one now.
Derives(p, q, kind, content, refs) ==
    LET new == Current(q, kind) IN
    /\ new[1] = kind /\ new \notin Ids(p)
    /\ Ids(q) = Ids(p) \cup {new}
    /\ HasCurrent(q, kind) /\ IsLive(q, new)
    /\ Artifact(q, new).content = content
    /\ Artifact(q, new).upstream = refs
    /\ Artifact(q, new).lineage = refs \cup UNION {Artifact(p, r).lineage : r \in refs}
    /\ \A id \in Ids(p) : IsLive(q, id) => id[1] # kind
    /\ Extends(p, q) /\ KeepsDecisions(p, q)
    /\ \/ HasCurrent(p, kind) /\ FallsBelow(p, q, Current(p, kind))
       \/ ~HasCurrent(p, kind) /\ \A id \in Ids(p) : IsLive(p, id) => IsLive(q, id)

\* If q has new evidence, all that p has is as it was.
AddsEvidence(p, q) ==
    (\E id \in Ids(q) \ Ids(p) : id[1] = RuntimeEvidence) =>
        \A id \in Ids(p) :
            /\ Artifact(q, id) = Artifact(p, id)
            /\ q.approvals[id] = p.approvals[id]
=============================================================================
