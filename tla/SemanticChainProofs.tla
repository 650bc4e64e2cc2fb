------------------------- MODULE SemanticChainProofs -------------------------
(***************************************************************************)
(* The safety properties of SemanticChain, for any kinds, documents,       *)
(* runtimes, reports and bounds.                                           *)
(***************************************************************************)
EXTENDS SemanticInvariants, ProjectProofs, VerdictComposition

USE ProjectsAssumption
USE DEF OriginalSpec, RuntimeEvidence, ElaboratedSpec, TestSpec, ReviewLog, ReviewedSpec,
        ReviewedTests, Contract, Obligation, Plan, PlanReview, Counterexample, Verdict

\* The projects of the semantic chain.
Sound(p) == Base(p, SemanticTexts) /\ SemanticInv(p)

\* The kinds of the chain are kinds of the instance, each with its rank.
LEMMA SemanticRanks ==
    /\ {OriginalSpec, ElaboratedSpec, TestSpec, ReviewLog, ReviewedSpec, ReviewedTests,
        Contract, Obligation, Plan, PlanReview, RuntimeEvidence, Counterexample, Verdict} \subseteq Kinds
    /\ SemanticRank \in [Kinds -> Nat]
    /\ SemanticRank[OriginalSpec] = 0 /\ SemanticRank[ElaboratedSpec] = 1
    /\ SemanticRank[TestSpec] = 2 /\ SemanticRank[ReviewLog] = 3
    /\ SemanticRank[ReviewedSpec] = 4 /\ SemanticRank[ReviewedTests] = 4
    /\ SemanticRank[Contract] = 5 /\ SemanticRank[Obligation] = 6
    /\ SemanticRank[Plan] = 7 /\ SemanticRank[PlanReview] = 8
    /\ SemanticRank[RuntimeEvidence] = 9 /\ SemanticRank[Counterexample] = 10
    /\ SemanticRank[Verdict] = 11
  <1>1. {OriginalSpec, ElaboratedSpec, TestSpec, ReviewLog, ReviewedSpec, ReviewedTests,
         Contract, Obligation, Plan, PlanReview, RuntimeEvidence, Counterexample, Verdict} \subseteq Kinds
    BY PhasesAssumption, SemanticChainAssumption DEF PipelineKinds, Traced, SemanticKinds
  <1>2. SemanticRank \in [Kinds -> Nat]
    BY DEF SemanticRank
  <1> QED  BY <1>1, <1>2 DEF SemanticRank

-----------------------------------------------------------------------------
(***************************************************************************)
(* One version, one decision, one source.                                  *)
(***************************************************************************)

\* What a version is founded on is not rewritten.
LEMMA FoundedIsKept ==
    ASSUME NEW texts, NEW p, Base(p, texts), NEW q, Extends(p, q),
           NEW id \in Ids(p), Founded(p, id)
    PROVE  Founded(q, id) /\ Artifact(q, id).lineage = Artifact(p, id).lineage
  <1>1. \A r \in Ids(p) : /\ Artifact(q, r).content = Artifact(p, r).content
                          /\ Artifact(q, r).upstream = Artifact(p, r).upstream
                          /\ Artifact(q, r).lineage = Artifact(p, r).lineage
    BY DEF Extends
  <1>2. /\ Artifact(p, id).upstream \subseteq Ids(p)
        /\ Artifact(p, id).lineage \subseteq Ids(p)
    BY DEF Base, LineageClosed
  <1>3. Above(q, Artifact(p, id).upstream) = Above(p, Artifact(p, id).upstream)
    BY <1>1, <1>2 DEF Above
  <1>4. Above(p, Artifact(p, id).upstream) \subseteq Ids(p)
    BY <1>2 DEF Founded
  <1>5. FoundedOn(q, id[1], Artifact(p, id).content, Artifact(p, id).upstream)
    <2>1. FoundedOn(p, id[1], Artifact(p, id).content, Artifact(p, id).upstream)
      BY DEF Founded
    <2>2. \A r \in Above(p, Artifact(p, id).upstream) : Resolved(p, r) => Resolved(q, r)
      BY <1>1, <1>4 DEF Resolved
    <2> QED  BY <1>1, <1>3, <1>4, <2>1, <2>2 DEF FoundedOn
  <1> QED  BY <1>1, <1>3, <1>5 DEF Founded

\* An invalidation that takes all that is built on what it takes keeps the
\* chain sound.
LEMMA FallsKeepSound ==
    ASSUME NEW p, Sound(p), NEW q, Base(q, SemanticTexts), Ids(q) = Ids(p),
           Extends(p, q), Cascades(p, q),
           \A id \in Ids(p) : IsLive(q, id) =>
               \A r \in Artifact(p, id).lineage : IsLive(p, r) => IsLive(q, r)
    PROVE  Sound(q)
  <1> SUFFICES ASSUME NEW id \in Ids(p)
               PROVE  /\ Founded(q, id)
                      /\ IsLive(q, id) => StandsOnLive(q, id[1], Artifact(q, id).lineage)
    BY DEF Sound, SemanticInv
  <1>1. Founded(q, id) /\ Artifact(q, id).lineage = Artifact(p, id).lineage
    BY FoundedIsKept DEF Sound, SemanticInv
  <1>2. ASSUME IsLive(q, id) PROVE StandsOnLive(q, id[1], Artifact(p, id).lineage)
    <2>1. IsLive(p, id)
      BY <1>2 DEF Extends
    <2>2. StandsOnLive(p, id[1], Artifact(p, id).lineage)
      BY <2>1 DEF Sound, SemanticInv
    <2>3. Artifact(p, id).lineage \subseteq Ids(p)
      BY DEF Sound, Base, LineageClosed
    <2>4. \A r \in Artifact(p, id).lineage : IsApproved(p, r) => IsApproved(q, r)
      BY <1>2, <2>3 DEF Cascades
    <2> QED  BY <1>2, <2>2, <2>4 DEF StandsOnLive
  <1> QED  BY <1>1, <1>2

\* So does the invalidation of one artifact.
LEMMA InvalidateFromIsSound ==
    ASSUME NEW p, Sound(p), NEW seed
    PROVE  Sound(InvalidateFrom(p, seed))
  <1> DEFINE q == InvalidateFrom(p, seed)
  <1>1. Base(p, SemanticTexts)
    BY DEF Sound
  <1>2. Base(q, SemanticTexts) /\ Cascades(p, q)
    BY <1>1, InvalidateFromKeepsBase, InvalidateFromCascades
  <1>3. /\ Extends(p, q)
        /\ Ids(q) = Ids(p)
        /\ \A id \in Ids(p) : /\ id \in Reached(p, seed) => ~IsLive(q, id)
                              /\ id \notin Reached(p, seed) => (IsLive(q, id) <=> IsLive(p, id))
    BY <1>1, InvalidateFromExtends
  <1>4. ASSUME NEW id \in Ids(p), IsLive(q, id), NEW r \in Artifact(p, id).lineage, IsLive(p, r)
        PROVE  IsLive(q, r)
    <2>1. r \in Ids(p)
      BY <1>4 DEF IsLive
    <2>2. r \notin Reached(p, seed)
      BY <1>1, <1>3, <1>4, ReachedIsClosed
    <2> QED  BY <1>3, <1>4, <2>1, <2>2
  <1> HIDE DEF q
  <1>5. Sound(q)
    BY <1>2, <1>3, <1>4, FallsKeepSound
  <1> QED  BY <1>5 DEF q

\* So does a decision.
LEMMA DecideIsSound ==
    ASSUME NEW p, Sound(p), NEW id, NEW decision \in ReviewDecisions, NEW q \in Decided(p, id, decision)
    PROVE  Sound(q) /\ Ids(q) = Ids(p) /\ Extends(p, q)
  <1> DEFINE s == [p EXCEPT !.approvals[id] = decision]
             seed == DirectDependents(s, id)
  <1>1. Base(p, SemanticTexts) /\ CanDecide(p, id) /\ q = Decide(p, id, decision)
    BY DEF Sound, Decided
  <1>2. Base(s, SemanticTexts) /\ s.artifacts = p.artifacts
    BY <1>1, DecideApprovals
  <1>3. Extends(p, q) /\ Cascades(p, q) /\ Ids(q) = Ids(p)
    BY <1>1, DecideSteps
  <1> HIDE DEF s
  <1>4. /\ Ids(s) = Ids(p)
        /\ \A r : Artifact(s, r) = Artifact(p, r)
        /\ \A r : IsLive(s, r) <=> IsLive(p, r)
    BY <1>2 DEF Ids, Artifact, IsLive
  <1>5. CASE q = s
    BY <1>2, <1>3, <1>4, <1>5, FallsKeepSound
  <1>6. CASE q = InvalidateFrom(s, seed)
    <2>1. Base(q, SemanticTexts)
      BY <1>2, <1>6, InvalidateFromKeepsBase
    <2>2. \A r \in Ids(p) : /\ r \in Reached(s, seed) => ~IsLive(q, r)
                            /\ r \notin Reached(s, seed) => (IsLive(q, r) <=> IsLive(p, r))
      BY <1>2, <1>4, <1>6, InvalidateFromExtends
    <2>3. ASSUME NEW other \in Ids(p), IsLive(q, other), NEW r \in Artifact(p, other).lineage, IsLive(p, r)
          PROVE  IsLive(q, r)
      <3>1. r \in Ids(p)
        BY <2>3 DEF IsLive
      <3>2. r \notin Reached(s, seed)
        BY <1>2, <1>4, <2>2, <2>3, ReachedIsClosed
      <3> QED  BY <2>2, <2>3, <3>1, <3>2
    <2> QED  BY <1>3, <2>1, <2>3, FallsKeepSound
  <1>7. q = s \/ q = InvalidateFrom(s, seed)
    BY <1>1 DEF Decide, s, seed
  <1> QED  BY <1>3, <1>5, <1>6, <1>7

\* The rank of a kind falls along every lineage.
LEMMA PrecedesIsTransitive ==
    ASSUME NEW texts, NEW p, Base(p, texts), NEW r \in Ids(p), NEW s \in Ids(p), NEW id \in ArtifactIds,
           Precedes(r, s), Precedes(s, id)
    PROVE  Precedes(r, id)
  <1>1. /\ r[1] \in Kinds /\ s[1] \in Kinds /\ id[1] \in Kinds
        /\ r[2] \in Nat /\ s[2] \in Nat /\ id[2] \in Nat
    BY IdsOfProject DEF Base, Typed, ArtifactIds
  <1>2. SemanticRank[r[1]] \in Nat /\ SemanticRank[s[1]] \in Nat /\ SemanticRank[id[1]] \in Nat
    BY <1>1, SemanticRanks
  <1> QED  BY <1>1, <1>2 DEF Precedes

\* What a new version of a kind may cite: kinds below its own, and a plan the
\* plan before it.
MayCite(kind, refs) ==
    \A r \in refs : SemanticRank[r[1]] < SemanticRank[kind] \/ (r[1] = Plan /\ kind = Plan)

\* All it is built on is above it then.
LEMMA CitedPrecede ==
    ASSUME NEW p, Sound(p), NEW kind \in Kinds, NEW refs \in SUBSET Ids(p), MayCite(kind, refs),
           NEW new, new = <<kind, Len(p.artifacts[kind]) + 1>>, new \in ArtifactIds,
           NEW r \in Above(p, refs)
    PROVE  Precedes(r, new) /\ r \in Ids(p)
  <1>1. Base(p, SemanticTexts) /\ Typed(p, SemanticTexts) /\ p \in ProjectRecords(SemanticTexts)
    BY DEF Sound, Base, Typed
  <1>2. ASSUME NEW s \in refs PROVE Precedes(s, new)
    <2>1. CASE s[1] = Plan /\ kind = Plan
      <3>1. s[2] \in 1..Len(p.artifacts[Plan]) /\ Len(p.artifacts[Plan]) \in Nat
        BY <1>1, <2>1, IdsOfProject
      <3> QED  BY <2>1, <3>1 DEF Precedes
    <2> QED  BY <2>1 DEF MayCite, Precedes
  <1>3. ASSUME NEW s \in refs, r \in Artifact(p, s).lineage PROVE Precedes(r, new) /\ r \in Ids(p)
    <2>1. r \in Ids(p) /\ Precedes(r, s)
      BY <1>1, <1>3 DEF Sound, SemanticInv, Founded, Base, LineageClosed
    <2> QED  BY <1>1, <1>2, <2>1, PrecedesIsTransitive
  <1> QED  BY <1>2, <1>3 DEF Above

\* A version founded on what is there, once no live one of its kind is left.
LEMMA AppendedIsSound ==
    ASSUME NEW p, Sound(p), NEW kind \in Kinds, NEW content \in SemanticTexts,
           NEW refs \in SUBSET Ids(p), Len(p.artifacts[kind]) < MaxVersions,
           kind = OriginalSpec => refs = {},
           kind # RuntimeEvidence => ~HasCurrent(p, kind),
           MayCite(kind, refs), FoundedOn(p, kind, content, refs),
           StandsOnLive(p, kind, Above(p, refs))
    PROVE  Sound(Appended(p, kind, content, refs))
  <1> DEFINE q == Appended(p, kind, content, refs)
             new == <<kind, Len(p.artifacts[kind]) + 1>>
  <1>1. Base(p, SemanticTexts) /\ Typed(p, SemanticTexts)
    BY DEF Sound, Base
  <1>2. Base(q, SemanticTexts)
    BY <1>1, AppendedKeepsBase
  <1>3. /\ Ids(q) = Ids(p) \cup {new}
        /\ new \notin Ids(p)
        /\ new \in ArtifactIds
        /\ Artifact(q, new).content = content
        /\ Artifact(q, new).upstream = refs
        /\ Artifact(q, new).lineage = Above(p, refs)
        /\ \A id \in Ids(p) : Artifact(q, id) = Artifact(p, id)
        /\ q.approvals = p.approvals
        /\ q.annotations = p.annotations
    <2>1. Above(p, refs) = refs \cup UNION {Artifact(p, r).lineage : r \in refs}
      BY DEF Above
    <2> QED  BY <1>1, <2>1, AppendedProject
  <1> HIDE DEF q
  <1>4. \A r \in Above(p, refs) : Precedes(r, new) /\ r \in Ids(p)
    BY <1>3, CitedPrecede
  <1> HIDE DEF new
  <1>5. \A id \in Ids(p) : IsLive(q, id) <=> IsLive(p, id)
    BY <1>3 DEF IsLive
  <1>6. Extends(p, q)
    BY <1>3, <1>5 DEF Extends
  <1>7. Above(q, refs) = Above(p, refs)
    BY <1>3 DEF Above
  <1>8. Founded(q, new)
    <2>1. FoundedOn(q, kind, content, refs)
      <3>1. \A r \in Above(p, refs) : Resolved(p, r) => Resolved(q, r)
        BY <1>3, <1>4 DEF Resolved
      <3> QED  BY <1>3, <1>4, <1>7, <3>1 DEF FoundedOn
    <2> QED  BY <1>3, <1>4, <1>7, <2>1 DEF Founded, new
  <1>9. StandsOnLive(q, kind, Above(p, refs))
    BY <1>3, <1>4, <1>5 DEF StandsOnLive, IsApproved
  <1>10. ASSUME NEW id \in Ids(p)
         PROVE  /\ Founded(q, id)
                /\ IsLive(q, id) => StandsOnLive(q, id[1], Artifact(q, id).lineage)
    <2>1. Founded(q, id)
      BY <1>1, <1>6, FoundedIsKept DEF Sound, SemanticInv
    <2>2. Artifact(p, id).lineage \subseteq Ids(p)
      BY <1>1 DEF Base, LineageClosed
    <2>3. ASSUME IsLive(q, id) PROVE StandsOnLive(q, id[1], Artifact(p, id).lineage)
      <3>1. StandsOnLive(p, id[1], Artifact(p, id).lineage)
        BY <1>5, <2>3 DEF Sound, SemanticInv
      <3> QED  BY <1>3, <1>5, <2>2, <3>1 DEF StandsOnLive, IsApproved
    <2> QED  BY <1>3, <2>1, <2>3
  <1>11. SemanticInv(q)
    BY <1>3, <1>8, <1>9, <1>10 DEF SemanticInv, new
  <1> QED  BY <1>2, <1>11 DEF Sound, q

\* Superseding the version before it takes nothing it is built on, but the
\* plan that a plan with edits cites.
LEMMA CitedSurvive ==
    ASSUME NEW p, Sound(p), NEW kind \in Kinds \ {RuntimeEvidence}, HasCurrent(p, kind),
           Len(p.artifacts[kind]) < MaxVersions,
           NEW refs \in SUBSET Ids(p), MayCite(kind, refs),
           NEW r \in Above(p, refs), IsLive(p, r), r[1] # Plan \/ kind # Plan
    PROVE  IsLive(InvalidateFrom(p, {Current(p, kind)}), r)
  <1> DEFINE c == Current(p, kind)
             new == <<kind, Len(p.artifacts[kind]) + 1>>
  <1>1. Base(p, SemanticTexts) /\ Typed(p, SemanticTexts) /\ p \in ProjectRecords(SemanticTexts)
    BY DEF Sound, Base, Typed
  <1>2. c = <<kind, Len(p.artifacts[kind])>> /\ c \in Ids(p)
    BY <1>1, CurrentIsNewest DEF IsLive
  <1>3. Len(p.artifacts[kind]) \in Nat
    BY <1>1, <1>2, IdsOfProject
  <1>4. new \in ArtifactIds
    BY <1>3 DEF ArtifactIds
  <1>5. Precedes(r, new) /\ r \in Ids(p)
    BY <1>4, CitedPrecede
  <1>6. SemanticRank[r[1]] < SemanticRank[kind]
    BY <1>5 DEF Precedes
  <1>7. SemanticRank[kind] \in Nat /\ SemanticRank[r[1]] \in Nat
    BY <1>1, <1>5, SemanticRanks, IdsOfProject
  <1>8. r # c /\ c \notin Artifact(p, r).lineage
    <2>1. r # c
      BY <1>2, <1>6, <1>7
    <2>2. ASSUME c \in Artifact(p, r).lineage PROVE FALSE
      <3>1. Precedes(c, r)
        BY <1>5, <2>2 DEF Sound, SemanticInv, Founded
      <3>2. c[1] = kind
        BY <1>2
      <3> QED  BY <1>6, <1>7, <3>1, <3>2 DEF Precedes
    <2> QED  BY <2>1, <2>2
  <1>9. r \notin Reached(p, {c})
    BY <1>8 DEF Reached
  <1> QED  BY <1>1, <1>5, <1>9, InvalidateFromExtends

\* A derivation.
LEMMA AddDerivedIsSound ==
    ASSUME NEW p, Sound(p), NEW kind \in Kinds \ {OriginalSpec}, NEW content \in SemanticTexts,
           NEW refs, CanAddDerived(p, kind, refs),
           MayCite(kind, refs), FoundedOn(p, kind, content, refs),
           StandsOnLive(p, kind, Above(p, refs))
    PROVE  Sound(AddDerived(p, kind, content, refs))
  <1> DEFINE superseded == kind # RuntimeEvidence /\ HasCurrent(p, kind)
             kept == IF superseded THEN InvalidateFrom(p, {Current(p, kind)}) ELSE p
  <1>1. /\ Base(p, SemanticTexts)
        /\ refs \in SUBSET Ids(p) /\ Len(p.artifacts[kind]) < MaxVersions
    BY DEF Sound, CanAddDerived, IsLive
  <1>2. CASE ~superseded
    <2>1. AddDerived(p, kind, content, refs) = Appended(p, kind, content, refs)
      BY <1>2 DEF AddDerived
    <2> QED  BY <1>1, <1>2, <2>1, AppendedIsSound
  <1>3. CASE superseded
    <2> DEFINE c == Current(p, kind)
               q == InvalidateFrom(p, {c})
    <2>1. AddDerived(p, kind, content, refs) = Appended(q, kind, content, refs)
      BY <1>3 DEF AddDerived
    <2>2. Sound(q) /\ ~HasCurrent(q, kind)
      BY <1>1, <1>3, InvalidateFromIsSound, SupersededIsGone
    <2>3. Extends(p, q) /\ Ids(q) = Ids(p) /\ KeepsDecisions(p, q)
      BY <1>1, InvalidateFromExtends, InvalidateFromFalls
    <2>4. Len(q.artifacts[kind]) = Len(p.artifacts[kind])
      BY <1>1, InvalidateFromProject DEF Base, Typed
    <2>5. \A r \in Above(p, refs) : r \in Ids(p)
      BY <1>1 DEF Above, Base, LineageClosed
    <2>6. \A r \in Above(p, refs) : IsLive(p, r) /\ (r[1] # Plan \/ kind # Plan) => IsLive(q, r)
      BY <1>1, <1>3, CitedSurvive
    <2> HIDE DEF q, c
    <2>7. \A r \in Ids(p) : /\ Artifact(q, r).content = Artifact(p, r).content
                            /\ Artifact(q, r).lineage = Artifact(p, r).lineage
      BY <2>3 DEF Extends
    <2>8. Above(q, refs) = Above(p, refs)
      BY <1>1, <2>7 DEF Above
    <2>9. FoundedOn(q, kind, content, refs)
      <3>1. \A r \in Above(p, refs) : Resolved(p, r) => Resolved(q, r)
        BY <2>5, <2>7 DEF Resolved
      <3> QED  BY <2>5, <2>7, <2>8, <3>1 DEF FoundedOn
    <2>10. StandsOnLive(q, kind, Above(p, refs))
      <3> SUFFICES ASSUME NEW r \in Above(p, refs)
                   PROVE  /\ IsLive(q, r) \/ (kind \in {Plan, PlanReview} /\ r[1] = Plan)
                          /\ kind \in ResultKinds /\ r[1] = Plan => IsApproved(q, r)
        BY DEF StandsOnLive
      <3>1. /\ IsLive(p, r) \/ (kind \in {Plan, PlanReview} /\ r[1] = Plan)
            /\ kind \in ResultKinds /\ r[1] = Plan => IsApproved(p, r)
        BY DEF StandsOnLive
      <3>2. IsLive(q, r) \/ (kind \in {Plan, PlanReview} /\ r[1] = Plan)
        BY <2>6, <3>1
      <3>3. ASSUME kind \in ResultKinds, r[1] = Plan PROVE IsApproved(q, r)
        <4>1. IsLive(q, r)
          BY <3>2, <3>3 DEF ResultKinds
        <4> QED  BY <2>3, <2>5, <3>1, <3>3, <4>1 DEF KeepsDecisions, IsApproved
      <3> QED  BY <3>2, <3>3
    <2> QED  BY <1>1, <2>1, <2>2, <2>3, <2>4, <2>8, <2>9, <2>10, AppendedIsSound
  <1> QED  BY <1>2, <1>3

\* A new source takes everything with it.
LEMMA ReplaceSourceIsSound ==
    ASSUME NEW p, Sound(p), CanReplaceSource(p), NEW source \in SemanticTexts
    PROVE  Sound(ReplaceSource(p, source))
  <1> DEFINE c == Current(p, OriginalSpec)
             q == InvalidateFrom(p, {c})
  <1>1. Base(p, SemanticTexts) /\ HasCurrent(p, OriginalSpec) /\ Len(p.artifacts[OriginalSpec]) < MaxVersions
    BY DEF Sound, CanReplaceSource
  <1>2. Sound(q) /\ ~HasCurrent(q, OriginalSpec)
    BY <1>1, InvalidateFromIsSound, SupersededIsGone
  <1>3. Len(q.artifacts[OriginalSpec]) = Len(p.artifacts[OriginalSpec])
    BY <1>1, InvalidateFromProject DEF Base, Typed
  <1>4. /\ MayCite(OriginalSpec, {}) /\ Above(q, {}) = {}
        /\ StandsOnLive(q, OriginalSpec, {})
    BY DEF MayCite, Above, StandsOnLive
  <1>5. FoundedOn(q, OriginalSpec, source, {})
    BY DEF FoundedOn, Needs, ResultKinds
  <1> HIDE DEF q, c
  <1>6. Sound(Appended(q, OriginalSpec, source, {}))
    BY <1>1, <1>2, <1>3, <1>4, <1>5, AppendedIsSound
  <1> QED  BY <1>6 DEF ReplaceSource, q, c

\* A new project has nothing else.
LEMMA NewProjectIsSound ==
    ASSUME NEW source \in SemanticTexts
    PROVE  Sound(NewProject(source))
  <1> DEFINE p == NewProject(source)
             id == <<OriginalSpec, 1>>
  <1>1. Base(p, SemanticTexts) /\ Ids(p) = {id}
    BY NewProjectKeepsInv
  <1>2. Artifact(p, id).lineage = {} /\ Artifact(p, id).upstream = {}
    BY <1>1 DEF Base, SourceIsRoot, LineageClosed
  <1> HIDE DEF p
  <1>3. FoundedOn(p, OriginalSpec, Artifact(p, id).content, {}) /\ Above(p, {}) = {}
    BY DEF FoundedOn, Needs, ResultKinds, Above
  <1>4. Founded(p, id) /\ StandsOnLive(p, OriginalSpec, Artifact(p, id).lineage)
    BY <1>2, <1>3 DEF Founded, StandsOnLive
  <1>5. Sound(p)
    BY <1>1, <1>4 DEF Sound, SemanticInv
  <1> QED  BY <1>5 DEF p

-----------------------------------------------------------------------------
(***************************************************************************)
(* Below the plan: specifications, their review, contracts, obligations.   *)
(***************************************************************************)

BelowPlan ==
    {OriginalSpec, ElaboratedSpec, TestSpec, ReviewLog, ReviewedSpec, ReviewedTests,
     Contract, Obligation}

\* Down there all is live that a live version is built on.
LEMMA BelowIsLive ==
    ASSUME NEW p, Sound(p), NEW refs,
           \A r \in refs : IsLive(p, r) /\ r[1] \notin {Plan, PlanReview},
           NEW r \in Above(p, refs)
    PROVE  IsLive(p, r)
  <1>1. ASSUME NEW s \in refs, r \in Artifact(p, s).lineage PROVE IsLive(p, r)
    <2>1. s \in Ids(p) /\ IsLive(p, s) /\ s[1] \notin {Plan, PlanReview}
      BY DEF IsLive
    <2> QED  BY <1>1, <2>1 DEF Sound, SemanticInv, StandsOnLive
  <1> QED  BY <1>1 DEF Above

\* A derivation there needs no condition.
LEMMA DerivationBelowPlan ==
    ASSUME NEW p, Sound(p), NEW kind \in BelowPlan \ {OriginalSpec}, NEW content \in SemanticTexts,
           NEW refs, CanAddDerived(p, kind, refs),
           \A r \in refs : r[1] \in BelowPlan /\ SemanticRank[r[1]] < SemanticRank[kind]
    PROVE  Sound(AddDerived(p, kind, content, refs))
  <1>1. kind \in Kinds \ {OriginalSpec} /\ kind \notin {Plan, PlanReview} \cup ResultKinds
    BY SemanticRanks DEF BelowPlan, ResultKinds
  <1>2. MayCite(kind, refs)
    BY DEF MayCite
  <1>3. FoundedOn(p, kind, content, refs)
    BY <1>1 DEF FoundedOn, Needs, ResultKinds
  <1>4. \A r \in refs : IsLive(p, r) /\ r[1] \notin {Plan, PlanReview}
    BY DEF CanAddDerived, BelowPlan
  <1>5. StandsOnLive(p, kind, Above(p, refs))
    BY <1>1, <1>4, BelowIsLive DEF StandsOnLive
  <1> QED  BY <1>1, <1>2, <1>3, <1>5, AddDerivedIsSound

\* As the phases derive.
LEMMA DerivedIsSound ==
    ASSUME NEW p, Sound(p), NEW kind \in BelowPlan \ {OriginalSpec}, NEW content \in SemanticTexts,
           NEW refs, \A r \in refs : r[1] \in BelowPlan /\ SemanticRank[r[1]] < SemanticRank[kind],
           NEW q \in Derived(p, kind, content, refs)
    PROVE  Sound(q)
  <1>1. CanAddDerived(p, kind, refs) /\ q = AddDerived(p, kind, content, refs)
    BY DEF Derived
  <1> QED  BY <1>1, DerivationBelowPlan

\* Phase 2.
LEMMA SubmitSpecsAreSound ==
    ASSUME NEW p, Sound(p), NEW q \in SubmitElaboratedSpec(p) \cup SubmitTestSpec(p)
    PROVE  Sound(q)
  <1>1. Drafted \in SemanticTexts
    BY DEF SemanticTexts
  <1>2. CASE q \in SubmitElaboratedSpec(p)
    <2>1. q \in Derived(p, ElaboratedSpec, Drafted, {Current(p, OriginalSpec)})
      BY <1>2 DEF SubmitElaboratedSpec, SubmitDerivedSpec
    <2>2. Current(p, OriginalSpec)[1] = OriginalSpec
      BY DEF Current
    <2> QED  BY <1>1, <2>1, <2>2, SemanticRanks, DerivedIsSound DEF BelowPlan
  <1>3. CASE q \in SubmitTestSpec(p)
    <2>1. q \in Derived(p, TestSpec, Drafted, {Current(p, ElaboratedSpec)})
      BY <1>3 DEF SubmitTestSpec, SubmitDerivedSpec
    <2>2. Current(p, ElaboratedSpec)[1] = ElaboratedSpec
      BY DEF Current
    <2> QED  BY <1>1, <2>1, <2>2, SemanticRanks, DerivedIsSound DEF BelowPlan
  <1> QED  BY <1>2, <1>3

\* The decisions of the review log, one after the other.
LEMMA RecordEntriesAreSound ==
    ASSUME NEW p, Sound(p), NEW elaborated, NEW tests,
           NEW q \in RecordEntries(p, ApproveSpecs.entries, elaborated, tests)
    PROVE  Sound(q) /\ Ids(q) = Ids(p) /\ Extends(p, q)
  <1> DEFINE entries == ApproveSpecs.entries
             Recorded(r, n) ==
                IF n \in DOMAIN entries
                THEN RecordEntry(r, entries[n], IF entries[n].on = TestSpec THEN tests ELSE elaborated)
                ELSE {r}
  <1>1. PICK a, b, c : /\ a \in Recorded(p, 1) /\ b \in Recorded(a, 2)
                       /\ c \in Recorded(b, 3) /\ q \in Recorded(c, 4)
    <2> DEFINE As == Recorded(p, 1)
               Bs == UNION {Recorded(r, 2) : r \in As}
               Cs == UNION {Recorded(r, 3) : r \in Bs}
    <2>1. q \in UNION {Recorded(r, 4) : r \in Cs}
      BY DEF RecordEntries, Then
    <2> HIDE DEF Recorded
    <2> QED  BY <2>1
  <1>2. \A n \in DOMAIN entries : /\ entries[n].decision \in ReviewDecisions
                                  /\ ~entries[n].targeted /\ ~entries[n].commented
    BY DEF ApproveSpecs, ReviewDecisions
  <1>3. ASSUME NEW r, Sound(r), Ids(r) = Ids(p), Extends(p, r), NEW n, NEW s \in Recorded(r, n)
        PROVE  Sound(s) /\ Ids(s) = Ids(p) /\ Extends(p, s)
    <2>1. CASE s = r
      BY <1>3, <2>1
    <2>2. CASE /\ n \in DOMAIN entries
               /\ s \in RecordEntry(r, entries[n], IF entries[n].on = TestSpec THEN tests ELSE elaborated)
      <3>1. s \in Decided(r, IF entries[n].on = TestSpec THEN tests ELSE elaborated, entries[n].decision)
        BY <1>2, <2>2 DEF RecordEntry, Then
      <3>2. Sound(s) /\ Ids(s) = Ids(r) /\ Extends(r, s)
        BY <1>2, <1>3, <2>2, <3>1, DecideIsSound
      <3>3. Extends(p, s)
        BY <1>3, <3>2 DEF Extends
      <3> QED  BY <1>3, <3>2, <3>3
    <2> QED  BY <1>3, <2>1, <2>2
  <1>4. Extends(p, p)
    BY DEF Extends
  <1> HIDE DEF Recorded
  <1>5. Sound(a) /\ Ids(a) = Ids(p) /\ Extends(p, a)
    BY <1>1, <1>3, <1>4
  <1>6. Sound(b) /\ Ids(b) = Ids(p) /\ Extends(p, b)
    BY <1>1, <1>3, <1>5
  <1>7. Sound(c) /\ Ids(c) = Ids(p) /\ Extends(p, c)
    BY <1>1, <1>3, <1>6
  <1> QED  BY <1>1, <1>3, <1>7

\* Phase 3.
LEMMA ReviewIsSound ==
    ASSUME NEW p, Sound(p), NEW review, review = ApproveSpecs, NEW s \in SubmitPhase3Review(p, review)
    PROVE  Sound(s)
  <1> DEFINE es == Current(p, ElaboratedSpec)
             ts == Current(p, TestSpec)
             WithSnapshots(q) ==
                LET log == Current(q, ReviewLog) IN
                Then(Derived(q, ReviewedSpec, ReviewedText(Artifact(q, es).content, review), {es, log}),
                     LAMBDA r : Derived(r, ReviewedTests, ReviewedText(Artifact(q, ts).content, review), {ts, log}))
  <1>1. es[1] = ElaboratedSpec /\ ts[1] = TestSpec
    BY DEF Current
  <1>2. HasCurrent(p, ElaboratedSpec) /\ HasCurrent(p, TestSpec)
    BY DEF SubmitPhase3Review, AllCurrent
  <1>3. es \in Ids(p) /\ ts \in Ids(p)
    BY <1>2, SemanticRanks, CurrentIsLive DEF Sound
  <1>4. PICK logged, q :
           /\ logged \in Derived(p, ReviewLog, review, {es, ts})
           /\ q \in RecordEntries(logged, review.entries, es, ts)
           /\ s \in IF BothApproved(q, es, ts) THEN WithSnapshots(q) ELSE {q}
    <2> DEFINE Logs == Derived(p, ReviewLog, review, {es, ts})
               Decideds == UNION {RecordEntries(r, review.entries, es, ts) : r \in Logs}
               Last(r) == IF BothApproved(r, es, ts) THEN WithSnapshots(r) ELSE {r}
    <2>1. s \in UNION {Last(r) : r \in Decideds}
      BY DEF SubmitPhase3Review, Then
    <2> HIDE DEF Last, Logs
    <2>2. PICK q \in Decideds : s \in Last(q)
      BY <2>1
    <2>3. PICK logged \in Logs : q \in RecordEntries(logged, review.entries, es, ts)
      BY <2>2
    <2> QED  BY <2>2, <2>3 DEF Last, Logs
  <1>5. Sound(logged)
    <2>1. review \in SemanticTexts
      BY DEF SemanticTexts
    <2> QED  BY <1>1, <1>4, <2>1, SemanticRanks, DerivedIsSound DEF BelowPlan
  <1>6. es \in Ids(logged) /\ ts \in Ids(logged)
    <2>1. CanAddDerived(p, ReviewLog, {es, ts}) /\ logged = AddDerived(p, ReviewLog, review, {es, ts})
      BY <1>4 DEF Derived
    <2>2. review \in SemanticTexts
      BY DEF SemanticTexts
    <2>3. Extends(p, logged)
      BY <2>1, <2>2, SemanticRanks, AddDerivedSteps DEF Sound
    <2> QED  BY <1>3, <2>3 DEF Extends
  <1> HIDE DEF es, ts
  <1> DEFINE text(r, id) == ReviewedText(Artifact(r, id).content, review)
  <1>7. Sound(q) /\ Ids(q) = Ids(logged)
    BY <1>4, <1>5, RecordEntriesAreSound
  <1>8. ASSUME NEW id \in Ids(q) PROVE text(q, id) \in SemanticTexts
    <2>1. Artifact(q, id).content \in SemanticTexts
      BY <1>7, IdsOfProject DEF Sound, Base, Typed, ArtifactRecords
    <2> QED  BY <2>1 DEF ReviewedText, SemanticTexts
  <1>9. CASE s \in WithSnapshots(q)
    <2> DEFINE log == Current(q, ReviewLog)
    <2>1. PICK r : /\ r \in Derived(q, ReviewedSpec, text(q, es), {es, log})
                   /\ s \in Derived(r, ReviewedTests, text(q, ts), {ts, log})
      BY <1>9 DEF Then
    <2>2. log[1] = ReviewLog
      BY DEF Current
    <2> HIDE DEF log
    <2>3. text(q, es) \in SemanticTexts /\ text(q, ts) \in SemanticTexts
      BY <1>6, <1>7, <1>8
    <2> HIDE DEF text
    <2>4. Sound(r)
      BY <1>1, <1>7, <2>1, <2>2, <2>3, SemanticRanks, DerivedIsSound DEF BelowPlan
    <2> QED  BY <1>1, <2>1, <2>2, <2>3, <2>4, SemanticRanks, DerivedIsSound DEF BelowPlan
  <1> QED  BY <1>4, <1>7, <1>9

-----------------------------------------------------------------------------
(***************************************************************************)
(* The plan and its review.                                                *)
(***************************************************************************)

\* The ids in LiveIds are those of the live versions.
LEMMA LiveIdsAreLive ==
    ASSUME NEW p, Sound(p), NEW kind \in Kinds
    PROVE  /\ \A id \in LiveIds(p, kind) : id[1] = kind /\ IsLive(p, id)
           /\ \A id : IsLive(p, id) /\ id[1] = kind => id \in LiveIds(p, kind)
           /\ HasCurrent(p, kind) => \E id \in LiveIds(p, kind) : TRUE
  <1>1. Base(p, SemanticTexts) /\ Typed(p, SemanticTexts) /\ p \in ProjectRecords(SemanticTexts)
    BY DEF Sound, Base, Typed
  <1>2. ASSUME NEW id \in LiveIds(p, kind) PROVE id[1] = kind /\ IsLive(p, id)
    <2>1. PICK v \in LiveVersions(p, kind) : id = <<kind, v>>
      BY DEF LiveIds
    <2>2. v \in DOMAIN p.artifacts[kind] /\ p.artifacts[kind][v].state = Live
      BY <2>1 DEF LiveVersions
    <2> QED  BY <1>1, <2>1, <2>2, VersionIsId DEF IsLive
  <1>3. ASSUME NEW id, IsLive(p, id), id[1] = kind PROVE id \in LiveIds(p, kind)
    <2>1. id \in Ids(p) /\ Artifact(p, id).state = Live
      BY <1>3 DEF IsLive
    <2>2. id = <<kind, id[2]>> /\ id[2] \in DOMAIN p.artifacts[kind] /\ p.artifacts[kind][id[2]].state = Live
      BY <1>1, <1>3, <2>1, IdsOfProject
    <2> QED  BY <2>2 DEF LiveIds, LiveVersions
  <1>4. ASSUME HasCurrent(p, kind) PROVE \E id \in LiveIds(p, kind) : TRUE
    BY <1>4 DEF HasCurrent, LiveIds
  <1> QED  BY <1>2, <1>3, <1>4

\* Contracts and obligations.
LEMMA AuthorIsSound ==
    ASSUME NEW p, Sound(p)
    PROVE  /\ \A contract \in Contracts : \A q \in AuthorContract(p, contract) : Sound(q)
           /\ \A claim \in Claims : \A q \in AuthorObligation(p, claim) : Sound(q)
  <1>1. \A kind : Current(p, kind)[1] = kind
    BY DEF Current
  <1>2. ASSUME NEW contract \in Contracts, NEW q \in AuthorContract(p, contract) PROVE Sound(q)
    <2>1. /\ CanAddDerived(p, Contract, {Current(p, ReviewedSpec)})
          /\ q = AddDerived(p, Contract, contract, {Current(p, ReviewedSpec)})
      BY <1>2 DEF AuthorContract, AddSemantic
    <2>2. contract \in SemanticTexts
      BY DEF SemanticTexts
    <2> QED  BY <1>1, <2>1, <2>2, SemanticRanks, DerivationBelowPlan DEF BelowPlan
  <1>3. ASSUME NEW claim \in Claims, NEW q \in AuthorObligation(p, claim) PROVE Sound(q)
    <2>1. /\ CanAddDerived(p, Obligation, {Current(p, ReviewedSpec), Current(p, Contract)})
          /\ q = AddDerived(p, Obligation, claim, {Current(p, ReviewedSpec), Current(p, Contract)})
      BY <1>3 DEF AuthorObligation, AddSemantic
    <2>2. claim \in SemanticTexts
      BY DEF SemanticTexts
    <2> QED  BY <1>1, <2>1, <2>2, SemanticRanks, DerivationBelowPlan DEF BelowPlan
  <1> QED  BY <1>2, <1>3

\* A plan of its own stands on the reviewed specification, the contract and
\* the obligation, which are below all plans.
LEMMA SynthesizePlanIsSound ==
    ASSUME NEW p, Sound(p), NEW q \in SynthesizePlan(p)
    PROVE  Sound(q)
  <1> DEFINE refs == {Current(p, ReviewedSpec)} \cup PlanInputs(p)
  <1>1. /\ HasCurrent(p, Contract) /\ HasCurrent(p, Obligation)
        /\ CanAddDerived(p, Plan, refs) /\ q = AddDerived(p, Plan, Authored, refs)
    BY DEF SynthesizePlan, AddSemantic, AllCurrent
  <1>2. \A kind : Current(p, kind)[1] = kind
    BY DEF Current
  <1>3. PICK c \in LiveIds(p, Contract), o \in LiveIds(p, Obligation) : c[1] = Contract /\ o[1] = Obligation
    BY <1>1, SemanticRanks, LiveIdsAreLive
  <1>4. \A r \in refs : IsLive(p, r) /\ r[1] \in {ReviewedSpec, Contract, Obligation}
    BY <1>1, <1>2, SemanticRanks, LiveIdsAreLive DEF PlanInputs, CanAddDerived
  <1>5. PlanNeeds \subseteq {r[1] : r \in refs}
    <2>1. c \in refs /\ o \in refs /\ Current(p, ReviewedSpec) \in refs
      BY <1>3 DEF PlanInputs
    <2> QED  BY <1>2, <1>3, <2>1 DEF PlanNeeds
  <1> HIDE DEF refs
  <1>6. MayCite(Plan, refs)
    BY <1>4, SemanticRanks DEF MayCite
  <1>7. ASSUME NEW r \in Above(p, refs) PROVE IsLive(p, r) /\ (r[1] = Plan => r \in refs)
    <2>1. IsLive(p, r)
      BY <1>4, BelowIsLive
    <2>2. ASSUME NEW s \in refs, r \in Artifact(p, s).lineage PROVE r[1] # Plan
      <3>1. s \in Ids(p) /\ s[1] \in {ReviewedSpec, Contract, Obligation}
        BY <1>4 DEF IsLive
      <3>2. Precedes(r, s)
        BY <2>2, <3>1 DEF Sound, SemanticInv, Founded
      <3> QED  BY <3>1, <3>2, SemanticRanks DEF Precedes
    <2> QED  BY <2>1, <2>2 DEF Above
  <1>8. FoundedOn(p, Plan, Authored, refs)
    BY <1>5, <1>7 DEF FoundedOn, Needs, ResultKinds
  <1>9. StandsOnLive(p, Plan, Above(p, refs))
    BY <1>7 DEF StandsOnLive, ResultKinds
  <1>10. Authored \in SemanticTexts
    BY DEF SemanticTexts
  <1> QED  BY <1>1, <1>6, <1>8, <1>9, <1>10, SemanticRanks, AddDerivedIsSound DEF refs

\* What a live plan is built on.
LEMMA PlanStands ==
    ASSUME NEW p, Sound(p), NEW plan, IsLive(p, plan), plan[1] = Plan
    PROVE  /\ plan \in Ids(p) /\ plan = Current(p, Plan) /\ HasCurrent(p, Plan)
           /\ Artifact(p, plan).lineage = Above(p, Artifact(p, plan).upstream)
           /\ PlanNeeds \subseteq {r[1] : r \in Artifact(p, plan).upstream}
           /\ MayCite(Plan, Artifact(p, plan).upstream)
           /\ \A r \in Artifact(p, plan).lineage : IF r[1] = Plan
                                                     THEN r \in Artifact(p, plan).upstream
                                                     ELSE IsLive(p, r)
  <1>1. plan \in Ids(p) /\ plan = Current(p, Plan) /\ HasCurrent(p, Plan)
    BY LiveIsCurrent DEF Sound
  <1>2. Founded(p, plan) /\ StandsOnLive(p, Plan, Artifact(p, plan).lineage)
    BY <1>1 DEF Sound, SemanticInv
  <1>3. MayCite(Plan, Artifact(p, plan).upstream)
    <2>1. \A r \in Artifact(p, plan).upstream : Precedes(r, plan)
      BY <1>2 DEF Founded, Above
    <2> QED  BY <2>1 DEF Precedes, MayCite
  <1>4. PlanNeeds \subseteq {r[1] : r \in Artifact(p, plan).upstream}
    BY <1>2 DEF Founded, FoundedOn, Needs
  <1>5. Artifact(p, plan).lineage = Above(p, Artifact(p, plan).upstream)
    BY <1>2 DEF Founded
  <1>6. \A r \in Artifact(p, plan).lineage : r[1] = Plan => r \in Artifact(p, plan).upstream
    BY <1>2, <1>5 DEF Founded, FoundedOn
  <1>7. \A r \in Artifact(p, plan).lineage : r[1] # Plan => IsLive(p, r)
    BY <1>2 DEF StandsOnLive
  <1> QED  BY <1>1, <1>3, <1>4, <1>5, <1>6, <1>7

\* A plan with edits is built on the plan before and all that this is built on.
LEMMA EditPlanIsSound ==
    ASSUME NEW p, Sound(p), NEW q \in EditPlan(p)
    PROVE  Sound(q)
  <1> DEFINE plan == Current(p, Plan)
             refs == Upstream(p, Plan) \cup {plan}
  <1>1. CanAddDerived(p, Plan, refs) /\ q = AddDerived(p, Plan, EditedPlan, refs)
    BY DEF EditPlan, AddSemantic
  <1>2. plan[1] = Plan
    BY DEF Current
  <1>3. Upstream(p, Plan) = Artifact(p, plan).upstream
    BY DEF Upstream
  <1>4. IsLive(p, plan) /\ plan \in refs /\ refs = Artifact(p, plan).upstream \cup {plan}
    BY <1>1, <1>3 DEF CanAddDerived
  <1> HIDE DEF plan, refs
  <1>5. Above(p, refs) = {plan} \cup Artifact(p, plan).lineage
    BY <1>2, <1>4, PlanStands DEF Above
  <1>6. MayCite(Plan, refs)
    BY <1>2, <1>4, PlanStands DEF MayCite
  <1>7. FoundedOn(p, Plan, EditedPlan, refs)
    <2>1. PlanNeeds \subseteq {r[1] : r \in refs}
      BY <1>2, <1>4, PlanStands
    <2>2. \A r \in Above(p, refs) : r[1] = Plan => r \in refs
      BY <1>2, <1>4, <1>5, PlanStands
    <2> QED  BY <2>1, <2>2 DEF FoundedOn, Needs, ResultKinds
  <1>8. StandsOnLive(p, Plan, Above(p, refs))
    BY <1>2, <1>4, <1>5, PlanStands DEF StandsOnLive, ResultKinds
  <1>9. EditedPlan \in SemanticTexts
    BY DEF SemanticTexts
  <1> QED  BY <1>1, <1>6, <1>7, <1>8, <1>9, SemanticRanks, AddDerivedIsSound

\* A review of the current plan; one that approves finds everything resolved.
LEMMA AddPlanReviewIsSound ==
    ASSUME NEW p, Sound(p), NEW decision \in ReviewDecisions, NEW edited \in BOOLEAN,
           decision = Approved => CriticalMeaningResolved(p),
           NEW q \in AddPlanReview(p, [plan |-> Current(p, Plan), decision |-> decision, edited |-> edited])
    PROVE  Sound(q)
  <1> DEFINE plan == Current(p, Plan)
             content == [plan |-> plan, decision |-> decision, edited |-> edited]
  <1>1. CanAddDerived(p, PlanReview, {plan}) /\ q = AddDerived(p, PlanReview, content, {plan})
    BY DEF AddPlanReview
  <1>2. plan[1] = Plan
    BY DEF Current
  <1>3. IsLive(p, plan)
    BY <1>1 DEF CanAddDerived
  <1>4. content \in SemanticTexts /\ content.decision = decision
    <2>1. plan \in ArtifactIds
      BY <1>3 DEF IsLive, Ids
    <2> QED  BY <2>1 DEF SemanticTexts
  <1> HIDE DEF plan, content
  <1>5. Above(p, {plan}) = {plan} \cup Artifact(p, plan).lineage
    BY DEF Above
  <1>6. MayCite(PlanReview, {plan})
    BY <1>2, SemanticRanks DEF MayCite
  <1>7. ASSUME decision = Approved, NEW r \in Above(p, {plan}) PROVE Resolved(p, r)
    <2>1. CASE r[1] \in {Contract, Obligation}
      <3>1. IsLive(p, r)
        BY <1>2, <1>3, <1>5, <2>1, PlanStands
      <3>2. r \in LiveIds(p, r[1])
        BY <2>1, <3>1, SemanticRanks, LiveIdsAreLive
      <3> QED  BY <1>7, <3>2 DEF CriticalMeaningResolved, Resolved
    <2>2. CASE r[1] \notin {Contract, Obligation}
      BY <2>2 DEF Resolved
    <2> QED  BY <2>1, <2>2
  <1>8. FoundedOn(p, PlanReview, content, {plan})
    BY <1>2, <1>4, <1>7 DEF FoundedOn, Needs, ResultKinds
  <1>9. StandsOnLive(p, PlanReview, Above(p, {plan}))
    BY <1>2, <1>3, <1>5, PlanStands DEF StandsOnLive, ResultKinds
  <1> QED  BY <1>1, <1>4, <1>6, <1>8, <1>9, SemanticRanks, AddDerivedIsSound

\* The whole of submit_plan_review: edits, review, decision.
LEMMA SubmitPlanReviewIsSound ==
    ASSUME NEW p, Sound(p), NEW decision \in ReviewDecisions, NEW edited \in BOOLEAN,
           NEW s \in SubmitPlanReview(p, decision, edited)
    PROVE  Sound(s)
  <1> DEFINE content(q) == [plan |-> Current(q, Plan), decision |-> decision, edited |-> edited]
             Edits == IF edited THEN EditPlan(p) ELSE {p}
             Reviews(q) == IF decision = Approved /\ ~CriticalMeaningResolved(q) THEN {}
                           ELSE AddPlanReview(q, content(q))
             Outcome(q) == UNION {Decided(r, Current(q, Plan), decision) : r \in Reviews(q)}
  <1>1. s \in UNION {Outcome(q) : q \in Edits}
    BY DEF SubmitPlanReview, Then
  <1> HIDE DEF Outcome, Edits
  <1>2. PICK q \in Edits : s \in Outcome(q)
    BY <1>1
  <1>3. PICK r \in Reviews(q) : s \in Decided(r, Current(q, Plan), decision)
    BY <1>2 DEF Outcome
  <1>4. Sound(q)
    BY <1>2, EditPlanIsSound DEF Edits
  <1>5. Sound(r)
    BY <1>3, <1>4, AddPlanReviewIsSound
  <1> QED  BY <1>3, <1>5, DecideIsSound

-----------------------------------------------------------------------------
(***************************************************************************)
(* Results: a plan that is approved, with all that it cites still live.    *)
(***************************************************************************)

\* What a live review of a plan is built on: the plan, and what this is.
LEMMA PlanReviewStands ==
    ASSUME NEW p, Sound(p), PlanIsApproved(p),
           NEW review, IsLive(p, review), review[1] = PlanReview
    PROVE  /\ review \in Ids(p)
           /\ Artifact(p, review).content.decision = Approved
           /\ Artifact(p, review).lineage =
                {Current(p, Plan)} \cup Artifact(p, Current(p, Plan)).lineage
  <1>1. review \in Ids(p) /\ review = Current(p, PlanReview)
    BY LiveIsCurrent DEF Sound
  <1>2. /\ HasCurrent(p, PlanReview) /\ PlanReviewLoads(p)
        /\ IsApproved(p, Current(p, Plan))
    BY DEF PlanIsApproved, AllCurrent
  <1>3. /\ Artifact(p, review).upstream = {Current(p, Plan)}
        /\ Artifact(p, review).content.decision = Approved
    BY <1>1, <1>2 DEF PlanReviewLoads, Upstream, ContentOf, IsApproved
  <1>4. Artifact(p, review).lineage = Above(p, {Current(p, Plan)})
    BY <1>1, <1>3 DEF Sound, SemanticInv, Founded
  <1> QED  BY <1>1, <1>3, <1>4 DEF Above

\* Evidence, counterexamples and verdicts all cite what the plan cites, the
\* plan and its review; where that is live, all that it is built on is.
LEMMA ResultIsSound ==
    ASSUME NEW p, Sound(p), PlanIsApproved(p), NEW kind \in ResultKinds, NEW content \in SemanticTexts,
           NEW refs, CanAddDerived(p, kind, refs), Ancestry(p) \subseteq refs,
           \A r \in refs : r \in Ancestry(p) \/
                            (/\ r[1] \in {Contract, RuntimeEvidence, Counterexample}
                             /\ SemanticRank[r[1]] < SemanticRank[kind]),
           kind = Verdict => \A r \in content.evidence \cup content.counterexamples :
                                r \in refs /\ r[1] \in {RuntimeEvidence, Counterexample}
    PROVE  Sound(AddDerived(p, kind, content, refs))
  <1> DEFINE plan == Current(p, Plan)
             review == Current(p, PlanReview)
  <1>1. plan[1] = Plan /\ review[1] = PlanReview
    BY DEF Current
  <1> DEFINE extra == {r \in refs : /\ r[1] \in {Contract, RuntimeEvidence, Counterexample}
                                    /\ SemanticRank[r[1]] < SemanticRank[kind]}
  <1>2. refs = Artifact(p, plan).upstream \cup {plan, review} \cup extra
    BY DEF Ancestry, Upstream
  <1>3. \A r \in refs : IsLive(p, r)
    BY DEF CanAddDerived
  <1>4. IsApproved(p, plan)
    BY DEF PlanIsApproved
  <1>5. \A r : IsLive(p, r) /\ r[1] = PlanReview =>
            /\ r \in Ids(p) /\ Artifact(p, r).content.decision = Approved
            /\ Artifact(p, r).lineage = {plan} \cup Artifact(p, plan).lineage
    BY PlanReviewStands
  <1>6. \A r : IsLive(p, r) /\ r[1] = Plan => r = plan
    BY PlanStands
  <1> HIDE DEF plan, review
  <1>7. \A r \in Artifact(p, plan).lineage : IsLive(p, r)
    BY <1>1, <1>2, <1>3, PlanStands
  <1>8. ASSUME NEW r \in Above(p, refs) PROVE IsLive(p, r)
    <2>1. ASSUME NEW s \in refs, r \in Artifact(p, s).lineage PROVE IsLive(p, r)
      <3>1. CASE s[1] = Plan
        BY <1>3, <1>6, <1>7, <2>1, <3>1
      <3>2. CASE s[1] = PlanReview
        BY <1>2, <1>3, <1>5, <1>7, <2>1, <3>2
      <3>3. CASE s[1] \notin {Plan, PlanReview}
        <4>1. IsLive(p, s) /\ s \in Ids(p)
          BY <1>3 DEF IsLive
        <4> QED  BY <2>1, <3>3, <4>1 DEF Sound, SemanticInv, StandsOnLive
      <3> QED  BY <3>1, <3>2, <3>3
    <2> QED  BY <1>3, <2>1 DEF Above
  <1>9. MayCite(kind, refs)
    <2>1. 9 <= SemanticRank[kind] /\ SemanticRank[kind] \in Nat
      BY SemanticRanks DEF ResultKinds
    <2>2. ASSUME NEW r \in Artifact(p, plan).upstream PROVE SemanticRank[r[1]] < SemanticRank[kind]
      <3>1. MayCite(Plan, Artifact(p, plan).upstream)
        BY <1>1, <1>2, <1>3, PlanStands
      <3>2. SemanticRank[r[1]] \in Nat
        <4>1. r[1] \in Kinds
          BY <1>2, <1>3, LiveIdsAreLive, IdsOfProject DEF IsLive, Sound, Base, Typed
        <4> QED  BY <4>1, SemanticRanks
      <3> QED  BY <2>1, <3>1, <3>2, SemanticRanks DEF MayCite
    <2> QED  BY <1>1, <1>2, <2>1, <2>2, SemanticRanks DEF MayCite
  <1>10. FoundedOn(p, kind, content, refs)
    <2>1. Needs(kind) \subseteq {r[1] : r \in refs}
      <3>1. Needs(kind) = PlanNeeds \cup {Plan, PlanReview}
        BY DEF Needs, ResultKinds
      <3>2. PlanNeeds \subseteq {r[1] : r \in Artifact(p, plan).upstream}
        BY <1>1, <1>2, <1>3, PlanStands
      <3> QED  BY <1>1, <1>2, <3>1, <3>2
    <2>2. \A r \in Above(p, refs) : r[1] = PlanReview => Artifact(p, r).content.decision = Approved
      BY <1>5, <1>8
    <2> QED  BY <2>1, <2>2 DEF FoundedOn, ResultKinds
  <1>11. StandsOnLive(p, kind, Above(p, refs))
    BY <1>4, <1>6, <1>8 DEF StandsOnLive
  <1> QED  BY <1>9, <1>10, <1>11, SemanticRanks, AddDerivedIsSound DEF ResultKinds

\* What a runtime reports is a text of the chain.
LEMMA ReportsAreTexts ==
    \A runtime \in Backends : \A outcome \in Reports[runtime] :
        [runtime |-> runtime, outcome |-> outcome] \in SemanticTexts
  BY DEF SemanticTexts

\* A piece of evidence cites what the plan cites, the plan and its review.
LEMMA AddEvidenceIsSound ==
    ASSUME NEW p, Sound(p), PlanIsApproved(p), NEW content \in SemanticTexts,
           CanAddDerived(p, RuntimeEvidence, Ancestry(p))
    PROVE  Sound(AddDerived(p, RuntimeEvidence, content, Ancestry(p)))
  <1>1. RuntimeEvidence \in ResultKinds /\ RuntimeEvidence # Verdict
    BY DEF ResultKinds
  <1> QED  BY <1>1, ResultIsSound

\* A new version of a kind leaves the versions there are, and their approvals.
LEMMA AppendedKeepsRest ==
    ASSUME NEW p, Sound(p), NEW kind \in Kinds, NEW content \in SemanticTexts,
           NEW refs \in SUBSET Ids(p), Len(p.artifacts[kind]) < MaxVersions
    PROVE  /\ \A id \in Ids(p) : Artifact(Appended(p, kind, content, refs), id) = Artifact(p, id)
           /\ Appended(p, kind, content, refs).approvals = p.approvals
           /\ \A k \in Kinds \ {kind} :
                 Appended(p, kind, content, refs).artifacts[k] = p.artifacts[k]
  <1> DEFINE q == Appended(p, kind, content, refs)
             new == <<kind, Len(p.artifacts[kind]) + 1>>
  <1>1. Typed(p, SemanticTexts) /\ p \in ProjectRecords(SemanticTexts)
    BY DEF Sound, Base, Typed
  <1>2. /\ Ids(q) = Ids(p) \cup {new}
        /\ new \notin Ids(p)
        /\ new \in ArtifactIds
        /\ Artifact(q, new).content = content
        /\ Artifact(q, new).upstream = refs
        /\ Artifact(q, new).lineage = refs \cup UNION {Artifact(p, r).lineage : r \in refs}
        /\ \A id \in Ids(p) : Artifact(q, id) = Artifact(p, id)
        /\ q.approvals = p.approvals
        /\ q.annotations = p.annotations
    BY <1>1, AppendedProject, SMTT(60)
  <1>3. ASSUME NEW k \in Kinds \ {kind} PROVE q.artifacts[k] = p.artifacts[k]
    BY <1>1, AppendedElsewhere
  <1> QED  BY <1>2, <1>3

\* Evidence leaves the plan as it was, so that more can be added.
LEMMA EvidenceIsSound ==
    ASSUME NEW p, Sound(p), PlanIsApproved(p), NEW content \in SemanticTexts,
           NEW q \in AddSemantic(p, RuntimeEvidence, content, Ancestry(p))
    PROVE  Sound(q) /\ PlanIsApproved(q) /\ Ancestry(q) = Ancestry(p)
  <1>1. CanAddDerived(p, RuntimeEvidence, Ancestry(p)) /\ q = AddDerived(p, RuntimeEvidence, content, Ancestry(p))
    BY DEF AddSemantic
  <1>3. Sound(q)
    BY <1>1, AddEvidenceIsSound
  <1>4. q = Appended(p, RuntimeEvidence, content, Ancestry(p))
    BY <1>1 DEF AddDerived
  <1>5. /\ \A id \in Ids(p) : Artifact(q, id) = Artifact(p, id)
        /\ q.approvals = p.approvals
        /\ \A k \in Kinds \ {RuntimeEvidence} : q.artifacts[k] = p.artifacts[k]
    <2>1. Ancestry(p) \in SUBSET Ids(p) /\ Len(p.artifacts[RuntimeEvidence]) < MaxVersions
      BY <1>1 DEF CanAddDerived, IsLive
    <2>2. RuntimeEvidence \in Kinds
      BY SemanticRanks
    <2> QED  BY <1>4, <2>1, <2>2, AppendedKeepsRest
  <1>6. ASSUME NEW k \in {ReviewedSpec, Plan, PlanReview}
        PROVE  /\ HasCurrent(q, k) <=> HasCurrent(p, k)
               /\ Current(q, k) = Current(p, k)
               /\ Artifact(q, Current(q, k)) = Artifact(p, Current(p, k))
    <2>1. q.artifacts[k] = p.artifacts[k]
      BY <1>5, SemanticRanks
    <2>2. LiveVersions(q, k) = LiveVersions(p, k)
      BY <2>1 DEF LiveVersions
    <2>3. Current(q, k) = Current(p, k) /\ Current(p, k)[1] = k
      BY <2>2 DEF Current
    <2> QED  BY <2>1, <2>2, <2>3 DEF HasCurrent, Artifact
  <1>7. Ancestry(q) = Ancestry(p)
    BY <1>6 DEF Ancestry, Upstream
  <1>8. PlanIsApproved(q)
    BY <1>5, <1>6 DEF PlanIsApproved, PlanReviewLoads, AllCurrent, Upstream, ContentOf, IsApproved
  <1> QED  BY <1>3, <1>7, <1>8

\* A run of the pair adds the evidence of both.
LEMMA RunPairIsSound ==
    ASSUME NEW p, Sound(p), DualRuntimes \subseteq Backends, NEW outcomes,
           \A runtime \in DualRuntimes : outcomes[runtime] \in Reports[runtime],
           NEW r \in RunPair(p, outcomes)
    PROVE  Sound(r)
  <1> DEFINE First == AddEvidence(p, Reference, outcomes[Reference])
             Second(q) == AddEvidence(q, Hyperon, outcomes[Hyperon])
  <1>1. PlanIsApproved(p) /\ r \in UNION {Second(q) : q \in First}
    BY DEF RunPair, Then
  <1>2. /\ [runtime |-> Reference, outcome |-> outcomes[Reference]] \in SemanticTexts
        /\ [runtime |-> Hyperon, outcome |-> outcomes[Hyperon]] \in SemanticTexts
    <2>1. Reference \in DualRuntimes /\ Hyperon \in DualRuntimes
      BY DEF DualRuntimes
    <2> QED  BY <2>1, ReportsAreTexts
  <1>3. PICK q \in First : r \in Second(q)
    BY <1>1
  <1>4. Sound(q) /\ PlanIsApproved(q)
    BY <1>1, <1>2, <1>3, EvidenceIsSound DEF AddEvidence
  <1> QED  BY <1>2, <1>3, <1>4, EvidenceIsSound DEF AddEvidence

\* A run of one runtime, with its counterexample.
LEMMA RunBackendIsSound ==
    ASSUME NEW p, Sound(p), NEW runtime \in Backends, NEW outcome \in Reports[runtime],
           NEW r \in RunBackend(p, runtime, outcome)
    PROVE  Sound(r)
  <1> DEFINE found(q) == Current(q, RuntimeEvidence)
             Second(q) == IF Unmatched(outcome)
                          THEN AddSemantic(q, Counterexample, found(q), Ancestry(q) \cup {found(q)})
                          ELSE {q}
  <1>1. /\ PlanIsApproved(p)
        /\ r \in IF runtime \in {Hypothesis, TLC}
                 THEN AddEvidenceAndCounterexample(p, runtime, outcome)
                 ELSE AddEvidence(p, runtime, outcome)
    BY DEF RunBackend
  <1>2. CASE r \in AddEvidence(p, runtime, outcome)
    BY <1>1, <1>2, ReportsAreTexts, EvidenceIsSound DEF AddEvidence
  <1>3. CASE r \in AddEvidenceAndCounterexample(p, runtime, outcome)
    <2>1. r \in UNION {Second(q) : q \in AddEvidence(p, runtime, outcome)}
      BY <1>3 DEF AddEvidenceAndCounterexample, Then
    <2>2. PICK q \in AddEvidence(p, runtime, outcome) : r \in Second(q)
      BY <2>1
    <2>3. Sound(q) /\ PlanIsApproved(q)
      BY <1>1, <2>2, ReportsAreTexts, EvidenceIsSound DEF AddEvidence
    <2>4. CASE r \in AddSemantic(q, Counterexample, found(q), Ancestry(q) \cup {found(q)})
      <3>1. /\ CanAddDerived(q, Counterexample, Ancestry(q) \cup {found(q)})
            /\ r = AddDerived(q, Counterexample, found(q), Ancestry(q) \cup {found(q)})
        BY <2>4 DEF AddSemantic
      <3>2. found(q)[1] = RuntimeEvidence
        BY DEF Current
      <3>3. found(q) \in SemanticTexts
        BY <3>1 DEF CanAddDerived, IsLive, Ids, SemanticTexts
      <3>4. Counterexample \in ResultKinds
        BY DEF ResultKinds
      <3> HIDE DEF found
      <3> QED  BY <2>3, <3>1, <3>2, <3>3, <3>4, SemanticRanks, ResultIsSound
    <2> QED  BY <2>2, <2>3, <2>4
  <1> QED  BY <1>1, <1>2, <1>3

\* A verdict.
LEMMA ComposeVerdictIsSound ==
    ASSUME NEW p, Sound(p), NEW implementation \in LiveIds(p, Contract),
           NEW chosen, NEW q \in ComposeVerdict(p, implementation, chosen)
    PROVE  Sound(q)
  <1> DEFINE found == CounterexamplesTo(p, chosen)
             status == Status(ContentOf(p, Obligation), OutcomesOf(p, chosen))
             content == [status |-> status, evidence |-> chosen, counterexamples |-> found]
             extra == {implementation} \cup chosen \cup found
             refs == Ancestry(p) \cup extra
  <1>1. /\ PlanIsApproved(p) /\ chosen \subseteq LiveIds(p, RuntimeEvidence)
        /\ CanAddDerived(p, Verdict, refs) /\ q = AddDerived(p, Verdict, content, refs)
    <2>1. Ancestry(p) \cup {implementation} \cup chosen \cup found = refs
      OBVIOUS
    <2>2. Composable(p, chosen)
      BY DEF ComposeVerdict
    <2>3. q \in AddSemantic(p, Verdict, content, Ancestry(p) \cup {implementation} \cup chosen \cup found)
      BY <2>2 DEF ComposeVerdict
    <2> HIDE DEF content, refs, found
    <2> QED  BY <2>1, <2>2, <2>3 DEF Composable, AddSemantic
  <1>2. found \subseteq LiveIds(p, Counterexample)
    BY DEF CounterexamplesTo
  <1>3. \A r \in extra : /\ r[1] \in {Contract, RuntimeEvidence, Counterexample}
                         /\ SemanticRank[r[1]] < SemanticRank[Verdict]
    BY <1>1, <1>2, SemanticRanks, LiveIdsAreLive
  <1>4. \A r \in chosen \cup found : r \in refs /\ r[1] \in {RuntimeEvidence, Counterexample}
    BY <1>1, <1>2, SemanticRanks, LiveIdsAreLive
  <1>5. content \in SemanticTexts
    <2>1. status \in {"pass", "fail", "blocked", "unknown"}
      BY DEF Status
    <2>2. chosen \subseteq ArtifactIds /\ found \subseteq ArtifactIds
      BY <1>1, <1>4 DEF CanAddDerived, IsLive, Ids
    <2> HIDE DEF status, found
    <2> QED  BY <2>1, <2>2 DEF SemanticTexts
  <1>6. content.evidence = chosen /\ content.counterexamples = found
    OBVIOUS
  <1>7. Verdict \in ResultKinds
    BY DEF ResultKinds
  <1> HIDE DEF content, found, extra
  <1> QED  BY <1>1, <1>3, <1>4, <1>5, <1>6, <1>7, ResultIsSound

-----------------------------------------------------------------------------
(***************************************************************************)
(* The invariant of the chain.                                             *)
(***************************************************************************)

ChainSound == Sound(project)

\* The chain starts from a project whose specifications are reviewed.
LEMMA InitIsSound == Init => ChainSound
  <1> SUFFICES ASSUME NEW source \in Sources,
                      project \in Then(SubmitElaboratedSpec(NewProject(source)), LAMBDA p :
                                  Then(SubmitTestSpec(p), LAMBDA q : SubmitPhase3Review(q, ApproveSpecs)))
               PROVE  Sound(project)
    BY DEF Init, ChainSound
  <1> DEFINE Elaborated == SubmitElaboratedSpec(NewProject(source))
             Tested == UNION {SubmitTestSpec(p) : p \in Elaborated}
             Reviewed(q) == SubmitPhase3Review(q, ApproveSpecs)
  <1>1. project \in UNION {Reviewed(q) : q \in Tested}
    BY DEF Then
  <1> HIDE DEF Elaborated, Reviewed
  <1>2. PICK q \in Tested : project \in Reviewed(q)
    BY <1>1
  <1>3. PICK p \in Elaborated : q \in SubmitTestSpec(p)
    BY <1>2
  <1>4. Sound(NewProject(source))
    BY NewProjectIsSound DEF SemanticTexts
  <1>5. Sound(p)
    BY <1>3, <1>4, SubmitSpecsAreSound DEF Elaborated
  <1>6. Sound(q)
    BY <1>3, <1>5, SubmitSpecsAreSound
  <1> QED  BY <1>2, <1>6, ReviewIsSound DEF Reviewed

\* Every step keeps it, action by action.
LEMMA NextIsSound == ChainSound /\ [Next]_project => ChainSound'
  <1> SUFFICES ASSUME Sound(project), [Next]_project
               PROVE  Sound(project')
    BY DEF ChainSound
  <1>1. CASE Author
    BY <1>1, AuthorIsSound, SynthesizePlanIsSound DEF Author
  <1>2. CASE ReviewThePlan
    BY <1>2, SubmitPlanReviewIsSound DEF ReviewThePlan
  <1>3. CASE Execute
    <2>1. ASSUME DualRuntimes \subseteq Backends,
                 NEW left \in Reports[Reference], NEW right \in Reports[Hyperon],
                 project' \in RunPair(project, [runtime \in DualRuntimes |->
                                        IF runtime = Reference THEN left ELSE right])
          PROVE  Sound(project')
      <3> DEFINE outcomes == [runtime \in DualRuntimes |->
                                IF runtime = Reference THEN left ELSE right]
      <3>1. \A runtime \in DualRuntimes : outcomes[runtime] \in Reports[runtime]
        BY DEF DualRuntimes
      <3>2. project' \in RunPair(project, outcomes)
        BY <2>1
      <3> HIDE DEF outcomes
      <3> QED  BY <2>1, <3>1, <3>2, RunPairIsSound
    <2>2. ASSUME NEW runtime \in Backends, NEW outcome \in Reports[runtime],
                 project' \in RunBackend(project, runtime, outcome)
          PROVE  Sound(project')
      BY <2>2, RunBackendIsSound
    <2> QED  BY <1>3, <2>1, <2>2 DEF Execute
  <1>4. CASE Judge
    BY <1>4, ComposeVerdictIsSound DEF Judge
  <1>5. CASE ReviewSpecsAgain
    BY <1>5, ReviewIsSound DEF ReviewSpecsAgain
  <1>6. CASE GiveDecision
    BY <1>6, DecideIsSound DEF GiveDecision
  <1>7. CASE ReplaceOriginal
    <2>1. Sources \subseteq SemanticTexts
      BY DEF SemanticTexts
    <2> QED  BY <1>7, <2>1, ReplaceSourceIsSound DEF ReplaceOriginal
  <1>8. CASE UNCHANGED project
    BY <1>8
  <1> QED  BY <1>1, <1>2, <1>3, <1>4, <1>5, <1>6, <1>7, <1>8 DEF Next

\* It holds of every project of the chain.
THEOREM SoundInvariant == Spec => []ChainSound
  <1>1. Init => ChainSound
    BY InitIsSound
  <1>2. ChainSound /\ [Next]_project => ChainSound'
    BY NextIsSound
  <1> QED  BY <1>1, <1>2, PTL DEF Spec

-----------------------------------------------------------------------------
\* What a live result stands on: all of it live, the plan approved, and the
\* current version of every kind that it needs.
LEMMA ResultStands ==
    ASSUME NEW p, Sound(p), NEW id, IsLive(p, id), id[1] \in ResultKinds
    PROVE  /\ id \in Ids(p)
           /\ Artifact(p, id).lineage = Above(p, Artifact(p, id).upstream)
           /\ \A r \in Artifact(p, id).lineage : IsLive(p, r) /\ (r[1] = Plan => IsApproved(p, r))
           /\ \A kind \in PlanNeeds \cup {Plan, PlanReview} :
                /\ HasCurrent(p, kind)
                /\ Current(p, kind) \in Artifact(p, id).upstream
                /\ Current(p, kind) \in Artifact(p, id).lineage
  <1>1. id \in Ids(p) /\ Founded(p, id)
    BY DEF IsLive, Sound, SemanticInv
  <1>2. Artifact(p, id).lineage = Above(p, Artifact(p, id).upstream)
    BY <1>1 DEF Founded
  <1>3. \A r \in Artifact(p, id).lineage : IsLive(p, r) /\ (r[1] = Plan => IsApproved(p, r))
    BY <1>1 DEF Sound, SemanticInv, StandsOnLive, ResultKinds
  <1>4. ASSUME NEW kind \in PlanNeeds \cup {Plan, PlanReview}
        PROVE  /\ HasCurrent(p, kind)
               /\ Current(p, kind) \in Artifact(p, id).upstream
               /\ Current(p, kind) \in Artifact(p, id).lineage
    <2>1. Needs(id[1]) = PlanNeeds \cup {Plan, PlanReview}
      BY DEF Needs, ResultKinds
    <2>2. PICK r \in Artifact(p, id).upstream : r[1] = kind
      BY <1>1, <2>1 DEF Founded, FoundedOn
    <2>3. r \in Artifact(p, id).lineage
      BY <1>2 DEF Above
    <2>4. kind # RuntimeEvidence
      BY DEF PlanNeeds
    <2> QED  BY <1>3, <2>2, <2>3, <2>4, LiveIsCurrent DEF Sound
  <1> QED  BY <1>1, <1>2, <1>3, <1>4

\* Every live result was reached under the plan, review, contract, obligation
\* and reviewed source that are current, and the plan is still approved.
THEOREM ResultsStand == Spec => []ResultsStandOnApprovedPlan
  <1>1. ChainSound => ResultsStandOnApprovedPlan
    <2> SUFFICES ASSUME Sound(project), NEW id \in LiveResults
                 PROVE  /\ IsApproved(project, Current(project, Plan))
                        /\ \A kind \in {ReviewedSpec, Contract, Obligation, Plan, PlanReview} :
                             HasCurrent(project, kind) /\ Current(project, kind) \in Artifact(project, id).lineage
      BY DEF ChainSound, ResultsStandOnApprovedPlan
    <2>1. IsLive(project, id) /\ id[1] \in ResultKinds
      BY DEF LiveResults, Results, ResultKinds
    <2>2. Current(project, Plan)[1] = Plan
      BY DEF Current
    <2>3. PlanNeeds \cup {Plan, PlanReview} = {ReviewedSpec, Contract, Obligation, Plan, PlanReview}
      BY DEF PlanNeeds
    <2> QED  BY <2>1, <2>2, <2>3, ResultStands
  <1> QED  BY <1>1, SoundInvariant, PTL

\* No live result was reached while the meaning of the contract or of a
\* critical obligation is open: the review that it stands on looked.
THEOREM ResultsMean == Spec => []ResultsHaveMeaning
  <1>1. ChainSound => ResultsHaveMeaning
    <2> SUFFICES ASSUME Sound(project), NEW id \in LiveResults
                 PROVE  CriticalMeaningResolved(project)
      BY DEF ChainSound, ResultsHaveMeaning
    <2> DEFINE review == Current(project, PlanReview)
               Below(r) == Artifact(project, r).lineage
    <2>1. IsLive(project, id) /\ id[1] \in ResultKinds
      BY DEF LiveResults, Results, ResultKinds
    <2>2. review[1] = PlanReview
      BY DEF Current
    <2>3. review \in Below(id) /\ (\A r \in Below(id) : IsLive(project, r))
      BY <2>1, ResultStands
    <2>4. /\ Below(review) = Above(project, Artifact(project, review).upstream)
          /\ FoundedOn(project, PlanReview, Artifact(project, review).content, Artifact(project, review).upstream)
          /\ Below(review) \subseteq Below(id)
      <3>1. review \in Ids(project)
        BY <2>3 DEF IsLive
      <3>2. Founded(project, review)
        BY <3>1 DEF Sound, SemanticInv
      <3>3. Below(review) \subseteq Below(id)
        BY <2>1, <2>3 DEF IsLive, Sound, Base, LineageClosed
      <3> QED  BY <2>2, <3>2, <3>3 DEF Founded
    <2> HIDE DEF review
    <2>5. Artifact(project, review).content.decision = Approved
      <3>1. /\ id \in Ids(project) /\ Founded(project, id)
            /\ Below(id) = Above(project, Artifact(project, id).upstream)
        BY <2>1, ResultStands DEF Sound, SemanticInv
      <3> QED  BY <2>1, <2>2, <2>3, <3>1 DEF Founded, FoundedOn
    <2>6. \A r \in Below(review) : Resolved(project, r)
      BY <2>4, <2>5 DEF FoundedOn
    <2>7. ASSUME NEW kind \in {Contract, Obligation}, NEW live \in LiveIds(project, kind)
          PROVE  live[1] = kind /\ Resolved(project, live)
      <3>1. PICK plan \in Artifact(project, review).upstream : plan[1] = Plan
        BY <2>4 DEF FoundedOn, Needs, ResultKinds
      <3>2. plan \in Below(review) /\ IsLive(project, plan)
        BY <2>3, <2>4, <3>1 DEF Above
      <3>3. PICK r \in Artifact(project, plan).upstream : r[1] = kind
        BY <3>1, <3>2, PlanStands DEF PlanNeeds
      <3>4. r \in Below(review)
        <4>1. plan \in Ids(project) /\ review \in Ids(project)
          BY <2>3, <3>2 DEF IsLive
        <4> QED  BY <3>2, <3>3, <4>1 DEF Sound, Base, LineageClosed
      <3>5. r = Current(project, kind)
        BY <2>3, <2>4, <3>3, <3>4, LiveIsCurrent DEF Sound
      <3>6. live[1] = kind /\ IsLive(project, live)
        BY SemanticRanks, LiveIdsAreLive
      <3>7. live = Current(project, kind)
        BY <3>6, LiveIsCurrent DEF Sound
      <3> QED  BY <2>6, <3>4, <3>5, <3>6, <3>7
    <2> QED  BY <2>7 DEF CriticalMeaningResolved, Resolved
  <1> QED  BY <1>1, SoundInvariant, PTL

\* The evidence and the counterexamples of the current verdict are live, and
\* each of them cites the plan and the obligation that the verdict is about.
THEOREM VerdictsShare == Spec => []VerdictsShareAncestry
  <1>1. ChainSound => VerdictsShareAncestry
    <2> DEFINE verdict == Current(project, Verdict)
    <2> SUFFICES ASSUME Sound(project), HasCurrent(project, Verdict),
                        NEW id \in Artifact(project, verdict).content.evidence
                                     \cup Artifact(project, verdict).content.counterexamples
                 PROVE  /\ IsLive(project, id)
                        /\ {Current(project, Plan), Current(project, Obligation)}
                             \subseteq Artifact(project, id).upstream
      BY DEF ChainSound, VerdictsShareAncestry, ContentOf
    <2>1. IsLive(project, verdict) /\ verdict[1] = Verdict
      BY SemanticRanks, CurrentIsLive DEF Sound
    <2> HIDE DEF verdict
    <2>2. /\ verdict \in Ids(project) /\ Founded(project, verdict)
          /\ Artifact(project, verdict).lineage = Above(project, Artifact(project, verdict).upstream)
          /\ \A r \in Artifact(project, verdict).lineage : IsLive(project, r)
      BY <2>1, ResultStands DEF ResultKinds, Sound, SemanticInv
    <2>3. id \in Artifact(project, verdict).upstream /\ id[1] \in {RuntimeEvidence, Counterexample}
      BY <2>1, <2>2 DEF Founded, FoundedOn
    <2>4. IsLive(project, id) /\ id[1] \in ResultKinds
      BY <2>2, <2>3 DEF Above, ResultKinds
    <2> QED  BY <2>4, ResultStands DEF PlanNeeds
  <1> QED  BY <1>1, SoundInvariant, PTL

-----------------------------------------------------------------------------
(***************************************************************************)
(* What a step of the chain does to the past.                              *)
(***************************************************************************)

\* A document.
LEMMA AddSemanticFollows ==
    ASSUME NEW p, Settled(p), NEW kind \in SemanticKinds, NEW content, NEW refs,
           NEW q \in AddSemantic(p, kind, content, refs)
    PROVE  Follows(p, q)
  <1>1. CanAddDerived(p, kind, refs) /\ q = AddDerived(p, kind, content, refs)
    BY DEF AddSemantic
  <1>2. kind \in Kinds \ {OriginalSpec}
    BY SemanticChainAssumption DEF SemanticKinds
  <1> QED  BY <1>1, <1>2, DerivingFollows

\* Contracts, obligations and plans.
LEMMA AuthorFollows ==
    ASSUME Settled(project), Author
    PROVE  Follows(project, project')
  <1>1. {Contract, Obligation, Plan} \subseteq SemanticKinds
    BY DEF SemanticKinds
  <1>2. CASE \E contract \in Contracts : project' \in AuthorContract(project, contract)
    BY <1>1, <1>2, AddSemanticFollows DEF AuthorContract
  <1>3. CASE \E claim \in Claims : project' \in AuthorObligation(project, claim)
    BY <1>1, <1>3, AddSemanticFollows DEF AuthorObligation
  <1>4. CASE project' \in SynthesizePlan(project)
    BY <1>1, <1>4, AddSemanticFollows DEF SynthesizePlan
  <1> QED  BY <1>2, <1>3, <1>4 DEF Author

\* A review of the plan: the edited plan, the review, the decision.
LEMMA PlanReviewFollows ==
    ASSUME NEW p, Settled(p), NEW decision \in ReviewDecisions, NEW edited,
           NEW s \in SubmitPlanReview(p, decision, edited)
    PROVE  Follows(p, s)
  <1> DEFINE Review(q) == [plan |-> Current(q, Plan), decision |-> decision, edited |-> edited]
  <1>1. PICK q, r : /\ q \in IF edited THEN EditPlan(p) ELSE {p}
                    /\ r \in AddPlanReview(q, Review(q))
                    /\ s \in Decided(r, Current(q, Plan), decision)
    <2>1. PICK q \in IF edited THEN EditPlan(p) ELSE {p} :
             s \in Then(IF decision = Approved /\ ~CriticalMeaningResolved(q) THEN {} ELSE
                          AddPlanReview(q, Review(q)), LAMBDA r : Decided(r, Current(q, Plan), decision))
      BY DEF SubmitPlanReview, Then
    <2> HIDE DEF Review
    <2>2. PICK r \in AddPlanReview(q, Review(q)) : s \in Decided(r, Current(q, Plan), decision)
      BY <2>1 DEF Then
    <2> QED  BY <2>1, <2>2
  <1> HIDE DEF Review
  <1>2. Follows(p, q) /\ Settled(q)
    <2>1. CASE q = p
      BY <2>1, FollowsItself
    <2>2. CASE q \in EditPlan(p)
      BY <2>2, AddSemanticFollows DEF EditPlan, SemanticKinds, Follows
    <2> QED  BY <1>1, <2>1, <2>2
  <1>3. Follows(q, r) /\ Settled(r)
    <2>1. PlanReview \in Kinds \ {OriginalSpec}
      BY SemanticChainAssumption DEF SemanticKinds
    <2> QED  BY <1>1, <1>2, <2>1, DerivingFollows DEF AddPlanReview, Follows
  <1>4. Follows(r, s)
    BY <1>1, <1>3, DecidedFollows
  <1> QED  BY <1>2, <1>3, <1>4, FollowsIsTransitive

\* Evidence.
LEMMA AddEvidenceFollows ==
    ASSUME NEW p, Settled(p), NEW runtime, NEW outcome, NEW q \in AddEvidence(p, runtime, outcome)
    PROVE  Follows(p, q) /\ Settled(q)
  BY AddSemanticFollows DEF AddEvidence, SemanticKinds, Follows

\* The pair.
LEMMA RunPairFollows ==
    ASSUME NEW p, Settled(p), NEW outcomes, NEW s \in RunPair(p, outcomes)
    PROVE  Follows(p, s)
  <1>1. PICK q \in AddEvidence(p, Reference, outcomes[Reference]) :
           s \in AddEvidence(q, Hyperon, outcomes[Hyperon])
    BY DEF RunPair, Then
  <1> QED  BY <1>1, AddEvidenceFollows, FollowsIsTransitive

\* One of the other tools.
LEMMA RunBackendFollows ==
    ASSUME NEW p, Settled(p), NEW runtime, NEW outcome, NEW s \in RunBackend(p, runtime, outcome)
    PROVE  Follows(p, s)
  <1>1. CASE s \in AddEvidence(p, runtime, outcome)
    BY <1>1, AddEvidenceFollows
  <1>2. CASE s \in AddEvidenceAndCounterexample(p, runtime, outcome)
    <2> DEFINE found(q) == Current(q, RuntimeEvidence)
    <2>1. PICK q \in AddEvidence(p, runtime, outcome) :
             s \in IF Unmatched(outcome)
                   THEN AddSemantic(q, Counterexample, found(q), Ancestry(q) \cup {found(q)})
                   ELSE {q}
      BY <1>2 DEF AddEvidenceAndCounterexample, Then
    <2> HIDE DEF found
    <2>2. Follows(p, q) /\ Settled(q)
      BY <2>1, AddEvidenceFollows
    <2>3. Follows(q, s)
      BY <2>1, <2>2, FollowsItself, AddSemanticFollows DEF SemanticKinds
    <2> QED  BY <2>2, <2>3, FollowsIsTransitive
  <1> QED  BY <1>1, <1>2 DEF RunBackend

\* Whatever is authored, reviewed, executed, judged or replaced, no version,
\* citation or comment is rewritten, no invalidated version comes back, and
\* when an approval is lost, of a specification or of a plan, nothing that was
\* built on it is live after the same step, results and verdicts included.
THEOREM ChainKeepsHistory ==
    Spec => [][Extends(project, project') /\ Cascades(project, project')]_project
  <1>1. Approved \in ReviewDecisions
    BY DEF ReviewDecisions
  <1>2. ApproveSpecs.entries \in Seq(ReviewEntries)
    <2>1. /\ [on |-> ElaboratedSpec, decision |-> Approved, targeted |-> FALSE, commented |-> FALSE] \in ReviewEntries
          /\ [on |-> TestSpec, decision |-> Approved, targeted |-> FALSE, commented |-> FALSE] \in ReviewEntries
      BY <1>1 DEF ReviewEntries
    <2> QED  BY <2>1 DEF ApproveSpecs
  <1>3. Init => Settled(project)
    <2> SUFFICES ASSUME NEW source \in Sources,
                        project \in Then(SubmitElaboratedSpec(NewProject(source)), LAMBDA p :
                                    Then(SubmitTestSpec(p), LAMBDA q : SubmitPhase3Review(q, ApproveSpecs)))
                 PROVE  Settled(project)
      BY DEF Init
    <2>1. PICK p \in SubmitElaboratedSpec(NewProject(source)) :
             project \in Then(SubmitTestSpec(p), LAMBDA q : SubmitPhase3Review(q, ApproveSpecs))
      BY DEF Then
    <2>2. PICK q \in SubmitTestSpec(p) : project \in SubmitPhase3Review(q, ApproveSpecs)
      BY <2>1 DEF Then
    <2>3. Settled(p)
      BY <2>1, NewProjectIsSettled, ElaborationFollows DEF Follows
    <2>4. Settled(q)
      BY <2>2, <2>3, ElaborationFollows DEF Follows
    <2> QED  BY <1>2, <2>2, <2>4, ReviewFollows DEF Follows
  <1>4. ASSUME Settled(project), Next
        PROVE  Follows(project, project')
    <2>1. CASE ReviewThePlan
      BY <1>4, <2>1, PlanReviewFollows DEF ReviewThePlan
    <2>2. CASE Execute
      BY <1>4, <2>2, RunPairFollows, RunBackendFollows DEF Execute
    <2>3. CASE Judge
      BY <1>4, <2>3, AddSemanticFollows DEF Judge, ComposeVerdict, SemanticKinds
    <2>4. CASE ReviewSpecsAgain
      BY <1>2, <1>4, <2>4, ReviewFollows DEF ReviewSpecsAgain
    <2>5. CASE GiveDecision
      BY <1>4, <2>5, DecidedFollows DEF GiveDecision
    <2>6. CASE ReplaceOriginal
      BY <1>4, <2>6, ReplacingFollows DEF ReplaceOriginal
    <2> QED  BY <1>4, <2>1, <2>2, <2>3, <2>4, <2>5, <2>6, AuthorFollows DEF Next
  <1>5. Settled(project) /\ [Next]_project => Settled(project)'
    BY <1>4 DEF Follows
  <1>6. Settled(project) /\ [Next]_project => [Extends(project, project') /\ Cascades(project, project')]_project
    BY <1>4 DEF Follows
  <1> QED  BY <1>3, <1>5, <1>6, PTL DEF Spec

-----------------------------------------------------------------------------
(* Verdicts by themselves: one obligation, whatever evidence comes in      *)
(* about it and in whatever order, for any obligations.  Evidence is only  *)
(* ever added to, so each lemma compares a set of evidence with one that   *)
(* includes it.                                                            *)

\* The runtimes of the formal methods, listed.
LEMMA FormalRuntimesAre == FormalRuntimes = {TLC, SmtLib, Lean}
  BY DEF FormalRuntimes, FormalRuntime

\* What an obligation requires formally is among them.
LEMMA RequiredAreFormal ==
    ASSUME NEW o \in Obligations
    PROVE  RequiredFormal(o) \subseteq FormalRuntimes
  BY ObligationsAssumption DEF RequiredFormal, FormalRuntimes

\* The status is the first of fail, blocked, unknown and pass that applies.
LEMMA FailIsRefuted ==
    ASSUME NEW o, NEW e
    PROVE  Status(o, e) = "fail" <=> Refuted(o, e)
  BY DEF Status

\* What passes is neither refuted, blocked nor inconclusive.
LEMMA PassIsOpenToNothing ==
    ASSUME NEW o, NEW e, Status(o, e) = "pass"
    PROVE  ~Refuted(o, e) /\ ~Blocked(o, e) /\ ~Inconclusive(o, e)
  BY DEF Status

-----------------------------------------------------------------------------
\* f has all that is in e.
Includes(f, e) == DOMAIN e \subseteq DOMAIN f /\ \A runtime \in DOMAIN e : f[runtime] = e[runtime]

\* f is e and evidence of one runtime more.
IncludesOneMore(f, e, runtime) ==
    /\ Includes(f, e)
    /\ DOMAIN f = DOMAIN e \cup {runtime}
    /\ runtime \in Runtimes \ DOMAIN e
    /\ f[runtime] \in Admitted(runtime)

\* A refutation rests on evidence that is there and stays there.
LEMMA RefutationsGrow ==
    ASSUME NEW o, NEW e, NEW f, Includes(f, e), Refuted(o, e)
    PROVE  Refuted(o, f)
  <1>1. CASE PairRefutes(e)
    <2>1. PairRefutes(f)
      BY <1>1 DEF PairRefutes, HasAll, Includes, DualRuntimes, Unmatched
    <2>2. QED BY <2>1 DEF Refuted
  <1>2. CASE HypothesisRefutes(e)
    <2>1. HypothesisRefutes(f)
      BY <1>2 DEF HypothesisRefutes, Includes, Unmatched
    <2>2. QED BY <2>1 DEF Refuted
  <1>3. CASE FormalWith(e, "fail") # {}
    <2>1. FormalWith(f, "fail") # {}
      BY <1>3 DEF FormalWith, AdmittedFormal, Includes
    <2>2. QED BY <2>1 DEF Refuted
  <1>4. QED BY <1>1, <1>2, <1>3 DEF Refuted

-----------------------------------------------------------------------------
\* One grade at a time: what evidence that failed does not earn.

FailedRun(outcome) == outcome.exit # Finished \/ Unmatched(outcome)

\* A failed run does not make the pair agree (G3).
LEMMA FailedRunsDoNotAgree ==
    ASSUME NEW e, NEW f, NEW runtime, IncludesOneMore(f, e, runtime), FailedRun(f[runtime]), BothAgree(f)
    PROVE  BothAgree(e)
  <1>1. /\ Hyperon \in DOMAIN f /\ Reference \in DOMAIN f
        /\ f[Hyperon].exit = Finished /\ f[Reference].exit = Finished
        /\ f[Hyperon].seen = f[Reference].seen
        /\ ~Unmatched(f[Hyperon])
    BY DEF BothAgree, BothRan, HasAll, PairRefutes, DualRuntimes
  <1>2. ~Unmatched(f[Reference])
    BY <1>1 DEF Unmatched
  <1>3. runtime # Hyperon /\ runtime # Reference
    BY <1>1, <1>2 DEF FailedRun
  <1>4. /\ Hyperon \in DOMAIN e /\ Reference \in DOMAIN e
        /\ f[Hyperon] = e[Hyperon] /\ f[Reference] = e[Reference]
    BY <1>1, <1>3 DEF IncludesOneMore, Includes
  <1>5. QED BY <1>1, <1>4 DEF BothAgree, BothRan, HasAll, PairRefutes, DualRuntimes

\* A failed run does not make the properties hold (G4).
LEMMA FailedRunsDoNotHold ==
    ASSUME NEW e, NEW f, NEW runtime, IncludesOneMore(f, e, runtime), FailedRun(f[runtime]), PropertiesHold(f)
    PROVE  PropertiesHold(e)
  <1>1. Hypothesis \in DOMAIN f /\ f[Hypothesis].exit = Finished /\ ~Unmatched(f[Hypothesis])
    BY DEF PropertiesHold, HypothesisRefutes
  <1>2. runtime # Hypothesis
    BY <1>1 DEF FailedRun
  <1>3. Hypothesis \in DOMAIN e /\ f[Hypothesis] = e[Hypothesis]
    BY <1>1, <1>2 DEF IncludesOneMore, Includes
  <1>4. QED BY <1>1, <1>3 DEF PropertiesHold, HypothesisRefutes

\* What the formal backends let in with a nonzero exit is unmatched, so the
\* composer sees that it failed.
LEMMA FailedFormalRunsFail ==
    ASSUME NEW runtime \in FormalRuntimes, NEW outcome \in Admitted(runtime), FailedRun(outcome)
    PROVE  FormalResult(runtime, outcome) # "pass"
  <1>1. CASE runtime = TLC
    <2>1. outcome \in {[exit |-> Finished, seen |-> Expected], [exit |-> Crashed, seen |-> Wrong]}
      BY <1>1 DEF Admitted, AdmittedOfTLC, DualRuntimes, Hyperon, Reference, Hypothesis, TLC,
             SmtLib, Lean
    <2>2. Unmatched(outcome)
      BY <2>1 DEF FailedRun, Unmatched, Finished, Crashed, Expected, Wrong, Different
    <2>3. QED BY <2>2 DEF FormalResult
  <1>2. CASE runtime \in {SmtLib, Lean}
    <2>1. outcome = [exit |-> Finished, seen |-> Expected]
      BY <1>2 DEF Admitted, AdmittedOfSmtLib, AdmittedOfLean,
                  DualRuntimes, Hyperon, Reference, Hypothesis, TLC, SmtLib, Lean
    <2>2. QED BY <2>1 DEF FailedRun, Unmatched, Finished, Expected, Wrong, Different
  <1>3. QED BY <1>1, <1>2, FormalRuntimesAre

\* A failed run does not complete the formal checks (G5).
LEMMA FailedRunsDoNotCheck ==
    ASSUME NEW o \in Obligations, NEW e, NEW f, NEW runtime,
           IncludesOneMore(f, e, runtime), FailedRun(f[runtime]), FormallyChecked(o, f)
    PROVE  FormallyChecked(o, e)
  <1>1. runtime \notin FormalRuntimes
    <2> SUFFICES ASSUME runtime \in FormalRuntimes PROVE FALSE
      OBVIOUS
    <2>1. FormalResult(runtime, f[runtime]) # "pass"
      BY FailedFormalRunsFail DEF IncludesOneMore
    <2>2. runtime \in AdmittedFormal(f)
      BY DEF AdmittedFormal, IncludesOneMore
    <2>3. QED BY <2>1, <2>2 DEF FormallyChecked, FormalWith
  <1>2. AdmittedFormal(f) = AdmittedFormal(e)
    BY <1>1 DEF AdmittedFormal, IncludesOneMore
  <1>3. \A r \in AdmittedFormal(e) : f[r] = e[r]
    BY DEF AdmittedFormal, IncludesOneMore, Includes
  <1>4. FormalWith(f, "pass") = FormalWith(e, "pass")
    BY <1>2, <1>3 DEF FormalWith
  <1>5. HasAll(e, RequiredFormal(o))
    BY <1>1, RequiredAreFormal DEF FormallyChecked, HasAll, IncludesOneMore
  <1>6. QED BY <1>2, <1>4, <1>5 DEF FormallyChecked

\* A failed run earns no grade but G2, which says only that the pair ran.
LEMMA FailedRunsEarnNothing ==
    ASSUME NEW o \in Obligations, NEW e, NEW f, NEW runtime,
           IncludesOneMore(f, e, runtime), FailedRun(f[runtime])
    PROVE  Grades(o, f) \ {"G2"} \subseteq Grades(o, e)
  <1> SUFFICES ASSUME NEW grade \in Grades(o, f), grade # "G2"
               PROVE  grade \in Grades(o, e)
    OBVIOUS
  <1>1. CASE grade \in {"G0", "G1"}
    BY <1>1 DEF Grades
  <1>2. CASE grade = "G3" /\ BothAgree(f)
    BY <1>2, FailedRunsDoNotAgree DEF Grades
  <1>3. CASE grade = "G4" /\ PropertiesHold(f)
    BY <1>3, FailedRunsDoNotHold DEF Grades
  <1>4. CASE grade = "G5" /\ FormallyChecked(o, f)
    BY <1>4, FailedRunsDoNotCheck DEF Grades
  <1>5. QED BY <1>1, <1>2, <1>3, <1>4 DEF Grades

-----------------------------------------------------------------------------
\* Every outcome a backend lets in is an exit and what was seen.
LEMMA AdmittedAreOutcomes ==
    ASSUME NEW runtime \in Runtimes
    PROVE  Admitted(runtime) \subseteq Outcomes
  <1>1. /\ AdmittedOfPair \subseteq Outcomes
        /\ AdmittedOfHypothesis \subseteq Outcomes
        /\ AdmittedOfTLC \subseteq Outcomes
        /\ AdmittedOfSmtLib \subseteq Outcomes
        /\ AdmittedOfLean \subseteq Outcomes
    BY DEF AdmittedOfPair, AdmittedOfHypothesis, AdmittedOfTLC, AdmittedOfSmtLib,
           AdmittedOfLean, Outcomes, Finished, Crashed, Exhausted,
           Nothing, Expected, Wrong, Different
  <1>2. QED BY <1>1 DEF Admitted, Runtimes

\* AdmitEvidence adds evidence of one runtime and leaves the rest alone.
LEMMA AdmitIncludes ==
    ASSUME VerdictTypeOK, NEW runtime \in Runtimes, AdmitEvidence(runtime)
    PROVE  /\ IncludesOneMore(evidence', evidence, runtime)
           /\ evidence' \in [DOMAIN evidence' -> Outcomes]
           /\ obligation' = obligation
  <1>1. PICK outcome \in Admitted(runtime) :
            evidence' = [r \in DOMAIN evidence \cup {runtime} |->
                            IF r = runtime THEN outcome ELSE evidence[r]]
    BY DEF AdmitEvidence
  <1>2. outcome \in Outcomes
    BY AdmittedAreOutcomes
  <1>3. runtime \notin DOMAIN evidence /\ obligation' = obligation
    BY DEF AdmitEvidence
  <1>4. DOMAIN evidence' = DOMAIN evidence \cup {runtime}
    BY <1>1
  <1>5. evidence'[runtime] = outcome /\ \A r \in DOMAIN evidence : evidence'[r] = evidence[r]
    BY <1>1, <1>3
  <1>6. evidence' \in [DOMAIN evidence' -> Outcomes]
    BY <1>1, <1>2, <1>4 DEF VerdictTypeOK
  <1>7. QED BY <1>3, <1>4, <1>5, <1>6 DEF IncludesOneMore, Includes

\* Evidence is of known runtimes, and of each what its backend lets in.
THEOREM VerdictTypeCorrect == VerdictSpec => []VerdictTypeOK
  <1>1. VerdictInit => VerdictTypeOK
    BY DEF VerdictInit, VerdictTypeOK
  <1>2. VerdictTypeOK /\ [VerdictNext]_verdictVars => VerdictTypeOK'
    <2> SUFFICES ASSUME VerdictTypeOK, [VerdictNext]_verdictVars PROVE VerdictTypeOK'
      OBVIOUS
    <2>1. ASSUME NEW runtime \in Runtimes, AdmitEvidence(runtime) PROVE VerdictTypeOK'
      <3>1. /\ IncludesOneMore(evidence', evidence, runtime)
            /\ evidence' \in [DOMAIN evidence' -> Outcomes]
            /\ obligation' = obligation
        BY <2>1, AdmitIncludes
      <3>2. DOMAIN evidence' \subseteq Runtimes
        BY <3>1 DEF IncludesOneMore, VerdictTypeOK
      <3>3. \A r \in DOMAIN evidence' : evidence'[r] \in Admitted(r)
        BY <3>1 DEF IncludesOneMore, Includes, VerdictTypeOK
      <3>4. QED BY <3>1, <3>2, <3>3 DEF VerdictTypeOK
    <2>2. CASE UNCHANGED verdictVars
      BY <2>2 DEF verdictVars, VerdictTypeOK
    <2>3. QED BY <2>1, <2>2 DEF VerdictNext
  <1>3. QED BY <1>1, <1>2, PTL DEF VerdictSpec

\* An obligation passes on uncontradicted evidence only, whichever runtimes
\* took part in whatever order.
THEOREM PassesAreUncontradicted == VerdictSpec => []PassIsUncontradicted
  <1>1. VerdictTypeOK => PassIsUncontradicted
    <2> SUFFICES ASSUME VerdictTypeOK, Status(obligation, evidence) = "pass"
                 PROVE  /\ \A runtime \in DOMAIN evidence :
                             evidence[runtime].exit # Exhausted /\ ~Unmatched(evidence[runtime])
                        /\ HasAll(evidence, DualRuntimes)
                        /\ obligation.required \in Grades(obligation, evidence)
      BY DEF PassIsUncontradicted
    <2>1. ~Refuted(obligation, evidence) /\ ~Inconclusive(obligation, evidence)
      BY PassIsOpenToNothing
    <2>2. /\ ~TimedOut(evidence)
          /\ HasAll(evidence, DualRuntimes)
          /\ FormalWith(evidence, "unknown") = {}
          /\ obligation.required \in Grades(obligation, evidence)
      BY <2>1 DEF Inconclusive
    <2>3. /\ ~PairRefutes(evidence)
          /\ ~HypothesisRefutes(evidence)
          /\ FormalWith(evidence, "fail") = {}
      BY <2>1 DEF Refuted
    <2>4. ASSUME NEW runtime \in DOMAIN evidence
          PROVE  ~Unmatched(evidence[runtime])
      <3>1. CASE runtime \in DualRuntimes
        BY <2>2, <2>3, <3>1 DEF PairRefutes, DualRuntimes, Unmatched
      <3>2. CASE runtime = Hypothesis
        BY <2>3, <3>2 DEF HypothesisRefutes
      <3>3. CASE runtime \in FormalRuntimes
        <4>1. /\ FormalResult(runtime, evidence[runtime]) # "fail"
              /\ FormalResult(runtime, evidence[runtime]) # "unknown"
          BY <2>2, <2>3, <3>3 DEF FormalWith, AdmittedFormal
        <4>2. QED BY <4>1 DEF FormalResult
      <3>4. runtime \in Runtimes
        BY DEF VerdictTypeOK
      <3>5. QED BY <3>1, <3>2, <3>3, <3>4, FormalRuntimesAre DEF Runtimes, DualRuntimes
    <2>5. \A runtime \in DOMAIN evidence : evidence[runtime].exit # Exhausted
      BY <2>2 DEF TimedOut
    <2>6. QED BY <2>2, <2>4, <2>5
  <1>2. QED BY <1>1, VerdictTypeCorrect, PTL

\* No later evidence covers up a refutation.
THEOREM RefutationsStand == VerdictSpec => RefutationStands
  <1>1. VerdictTypeOK /\ [VerdictNext]_verdictVars =>
          [Status(obligation, evidence) = "fail" => Status(obligation, evidence)' = "fail"]_verdictVars
    <2> SUFFICES ASSUME VerdictTypeOK, NEW runtime \in Runtimes, AdmitEvidence(runtime),
                        Status(obligation, evidence) = "fail"
                 PROVE  Status(obligation, evidence)' = "fail"
      BY DEF VerdictNext
    <2>1. Includes(evidence', evidence) /\ obligation' = obligation
      BY AdmitIncludes DEF IncludesOneMore
    <2>2. Refuted(obligation, evidence)
      BY FailIsRefuted
    <2>3. Refuted(obligation', evidence')
      BY <2>1, <2>2, RefutationsGrow
    <2>4. QED BY <2>3, FailIsRefuted
  <1>2. QED BY <1>1, VerdictTypeCorrect, PTL DEF VerdictSpec, RefutationStands

\* No tool promotes an obligation by failing.
THEOREM CleanRunsPromote == VerdictSpec => OnlyCleanRunsPromote
  <1> DEFINE Promotion ==
        \A runtime \in DOMAIN evidence' \ DOMAIN evidence :
            evidence'[runtime].exit # Finished \/ Unmatched(evidence'[runtime])
                => Grades(obligation, evidence)' \ {"G2"} \subseteq Grades(obligation, evidence)
  <1>1. VerdictTypeOK /\ [VerdictNext]_verdictVars => [Promotion]_verdictVars
    <2> SUFFICES ASSUME VerdictTypeOK, NEW admitted \in Runtimes, AdmitEvidence(admitted),
                        NEW runtime \in DOMAIN evidence' \ DOMAIN evidence,
                        FailedRun(evidence'[runtime])
                 PROVE  Grades(obligation, evidence)' \ {"G2"} \subseteq Grades(obligation, evidence)
      BY DEF VerdictNext, FailedRun
    <2>1. IncludesOneMore(evidence', evidence, admitted) /\ obligation' = obligation
      BY AdmitIncludes
    <2>2. runtime = admitted
      BY <2>1 DEF IncludesOneMore
    <2>3. obligation \in Obligations
      BY DEF VerdictTypeOK
    <2>4. Grades(obligation, evidence') \ {"G2"} \subseteq Grades(obligation, evidence)
      BY <2>1, <2>2, <2>3, FailedRunsEarnNothing
    <2>5. QED BY <2>1, <2>4
  <1>2. QED BY <1>1, VerdictTypeCorrect, PTL DEF VerdictSpec, OnlyCleanRunsPromote

-----------------------------------------------------------------------------
\* Without anything unmatched or crashed, what a runtime of the pair saw tells
\* only whether it finished.
LEMMA PairSeesByExit ==
    ASSUME NEW outcome \in AdmittedOfPair, outcome.exit # Crashed, ~Unmatched(outcome)
    PROVE  \/ outcome.exit = Finished /\ outcome.seen = Expected
           \/ outcome.exit = Exhausted /\ outcome.seen = Nothing
  BY DEF AdmittedOfPair, Unmatched, Finished, Crashed, Exhausted, Nothing, Expected, Wrong, Different

\* Nor does a formal checker refute then.
LEMMA FormalRefutesByFailing ==
    ASSUME NEW runtime \in FormalRuntimes, NEW outcome \in Admitted(runtime), ~Unmatched(outcome)
    PROVE  FormalResult(runtime, outcome) # "fail"
  <1>1. CASE runtime = Lean
    <2>1. outcome = [exit |-> Finished, seen |-> Expected]
      BY <1>1 DEF Admitted, AdmittedOfLean, DualRuntimes, Hyperon, Reference, Hypothesis, TLC,
                  SmtLib, Lean
    <2>2. QED BY <2>1 DEF FormalResult
  <1>2. CASE runtime # Lean
    BY <1>2 DEF FormalResult
  <1>3. QED BY <1>1, <1>2

\* Where no run crashed and nothing was unmatched, an obligation is refuted in
\* two ways: one runtime of the pair was exhausted and the other was not, or the
\* property tool was exhausted.
ExhaustionRefutesTwoWays ==
    (TimedOut(evidence) /\ \A runtime \in DOMAIN evidence :
        evidence[runtime].exit # Crashed /\ ~Unmatched(evidence[runtime]))
    => (Status(obligation, evidence) = "fail" <=>
           \/ Hypothesis \in DOMAIN evidence /\ evidence[Hypothesis].exit = Exhausted
           \/ HasAll(evidence, DualRuntimes) /\ evidence[Hyperon].exit # evidence[Reference].exit)

\* How far ExhaustionIsInconclusive is from what is composed
\* (verdict_composition.py:139-153): exhaustion refutes an obligation by way of
\* the property tool or of one runtime of the pair, and in no other way.
THEOREM ExhaustionRefutes == VerdictSpec => []ExhaustionRefutesTwoWays
  <1>1. VerdictTypeOK => ExhaustionRefutesTwoWays
    <2> SUFFICES ASSUME VerdictTypeOK,
                        \A runtime \in DOMAIN evidence :
                            evidence[runtime].exit # Crashed /\ ~Unmatched(evidence[runtime])
                 PROVE  Refuted(obligation, evidence) <=>
                            \/ Hypothesis \in DOMAIN evidence /\ evidence[Hypothesis].exit = Exhausted
                            \/ /\ HasAll(evidence, DualRuntimes)
                               /\ evidence[Hyperon].exit # evidence[Reference].exit
      BY FailIsRefuted DEF ExhaustionRefutesTwoWays
    <2>1. FormalWith(evidence, "fail") = {}
      <3>1. \A runtime \in AdmittedFormal(evidence) :
               FormalResult(runtime, evidence[runtime]) # "fail"
        BY FormalRefutesByFailing DEF AdmittedFormal, VerdictTypeOK
      <3>2. QED BY <3>1 DEF FormalWith
    <2>2. HypothesisRefutes(evidence) <=>
             Hypothesis \in DOMAIN evidence /\ evidence[Hypothesis].exit = Exhausted
      <3>1. \A runtime \in DOMAIN evidence : evidence[runtime].exit \in {Finished, Exhausted}
        BY DEF VerdictTypeOK, Outcomes
      <3>2. QED BY <3>1 DEF HypothesisRefutes, Finished, Exhausted
    <2>3. PairRefutes(evidence) <=>
             HasAll(evidence, DualRuntimes) /\ evidence[Hyperon].exit # evidence[Reference].exit
      <3>1. ASSUME HasAll(evidence, DualRuntimes), NEW runtime \in DualRuntimes
            PROVE  /\ ~Unmatched(evidence[runtime])
                   /\ \/ evidence[runtime].exit = Finished /\ evidence[runtime].seen = Expected
                      \/ evidence[runtime].exit = Exhausted /\ evidence[runtime].seen = Nothing
        <4>1. runtime \in DOMAIN evidence
          BY <3>1 DEF HasAll
        <4>2. evidence[runtime] \in AdmittedOfPair
          <5>1. evidence[runtime] \in Admitted(runtime)
            BY <4>1 DEF VerdictTypeOK
          <5>2. Admitted(runtime) = AdmittedOfPair
            BY DEF Admitted, DualRuntimes, Hyperon, Reference, Hypothesis, TLC, SmtLib, Lean
          <5>3. QED BY <5>1, <5>2
        <4>3. QED BY <4>1, <4>2, PairSeesByExit
      <3>2. Hyperon \in DualRuntimes /\ Reference \in DualRuntimes
        BY DEF DualRuntimes
      <3>3. QED BY <3>1, <3>2 DEF PairRefutes, Finished, Exhausted, Expected, Nothing
    <2>4. QED BY <2>1, <2>2, <2>3 DEF Refuted
  <1>2. QED BY <1>1, VerdictTypeCorrect, PTL
=============================================================================
