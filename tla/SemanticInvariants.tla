-------------------------- MODULE SemanticInvariants --------------------------
(***************************************************************************)
(* What keeps the results of the semantic chain on the plan they came      *)
(* from, one version at a time.  What a version is founded on is written   *)
(* into it for good.  What it stands on changes, and is claimed of live    *)
(* versions alone: all of it is live, but that a plan with edits, and the  *)
(* review of one, outlive the plan before.                                 *)
(***************************************************************************)
EXTENDS SemanticChain, ProjectInvariants

ResultKinds == {RuntimeEvidence, Counterexample, Verdict}

\* Every kind is above the kinds it cites.  Only plans cite their own kind.
SemanticRank ==
    [kind \in Kinds |->
        CASE kind = ElaboratedSpec -> 1
          [] kind = TestSpec -> 2
          [] kind = ReviewLog -> 3
          [] kind \in {ReviewedSpec, ReviewedTests} -> 4
          [] kind = Contract -> 5
          [] kind = Obligation -> 6
          [] kind = Plan -> 7
          [] kind = PlanReview -> 8
          [] kind = RuntimeEvidence -> 9
          [] kind = Counterexample -> 10
          [] kind = Verdict -> 11
          [] OTHER -> 0]

Precedes(r, id) ==
    \/ SemanticRank[r[1]] < SemanticRank[id[1]]
    \/ r[1] = Plan /\ id[1] = Plan /\ r[2] < id[2]

PlanNeeds == {ReviewedSpec, Contract, Obligation}

\* The kinds a version of a kind cites at least.
Needs(kind) ==
    CASE kind = Plan -> PlanNeeds
      [] kind = PlanReview -> {Plan}
      [] kind \in ResultKinds -> PlanNeeds \cup {Plan, PlanReview}
      [] OTHER -> {}

\* Nothing in the meaning of a contract or obligation is open.
Resolved(p, id) ==
    /\ id[1] = Contract => ~Artifact(p, id).content.holes
    /\ id[1] = Obligation =>
         ~(Artifact(p, id).content.critical /\ Artifact(p, id).content.unresolved)

\* What a version of a kind, with this content, may be built on.
FoundedOn(p, kind, content, upstream) ==
    /\ Needs(kind) \subseteq {r[1] : r \in upstream}
    /\ kind = Plan => \A r \in Above(p, upstream) : r[1] = Plan => r \in upstream
    /\ kind = PlanReview /\ content.decision = Approved =>
         \A r \in Above(p, upstream) : Resolved(p, r)
    /\ kind \in ResultKinds =>
         \A r \in Above(p, upstream) :
            r[1] = PlanReview => Artifact(p, r).content.decision = Approved
    /\ kind = Verdict =>
         \A r \in content.evidence \cup content.counterexamples :
            r \in upstream /\ r[1] \in {RuntimeEvidence, Counterexample}

Founded(p, id) ==
    LET a == Artifact(p, id) IN
    /\ a.lineage = Above(p, a.upstream)
    /\ \A r \in a.lineage : Precedes(r, id)
    /\ FoundedOn(p, id[1], a.content, a.upstream)

\* What a live version of a kind with this lineage finds there now.
StandsOnLive(p, kind, lineage) ==
    \A r \in lineage :
        /\ IsLive(p, r) \/ (kind \in {Plan, PlanReview} /\ r[1] = Plan)
        /\ kind \in ResultKinds /\ r[1] = Plan => IsApproved(p, r)

SemanticInv(p) ==
    \A id \in Ids(p) :
        /\ Founded(p, id)
        /\ IsLive(p, id) => StandsOnLive(p, id[1], Artifact(p, id).lineage)

\* The contents of a project of this chain.
SemanticTexts ==
    Sources \cup {Drafted, Edited, ApproveSpecs, Authored, EditedPlan} \cup Contracts \cup Claims
        \cup [plan : ArtifactIds, decision : ReviewDecisions, edited : BOOLEAN]
        \cup ArtifactIds
        \cup (UNION {[runtime : {runtime}, outcome : Reports[runtime]] : runtime \in Backends})
        \cup [status : {"pass", "fail", "blocked", "unknown"},
            evidence : SUBSET ArtifactIds, counterexamples : SUBSET ArtifactIds]
=============================================================================
