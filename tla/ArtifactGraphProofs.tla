------------------------- MODULE ArtifactGraphProofs -------------------------
(***************************************************************************)
(* Proofs about ArtifactGraph, for any kinds, texts, citations and bound:  *)
(* its steps are the transitions that ProjectProofs has lemmas about.      *)
(* Invalidation is modelled by the lineage an artifact is given when it is *)
(* created; that this is what the loop of the code finds, whatever the     *)
(* graph, rests on nothing being built on itself (Acyclic).                *)
(***************************************************************************)
EXTENDS ArtifactGraph, ProjectProofs, FiniteSetTheorems, WellFoundedInduction

USE ProjectsAssumption, ArtifactGraphAssumption

-----------------------------------------------------------------------------
(* Acyclic projects: nothing is built on itself. *)

\* A project that keeps what another has, and whose further versions are built
\* on versions of the other, is acyclic if the other is.
LEMMA AcyclicGrows ==
    ASSUME NEW texts, NEW p, Base(p, texts), Acyclic(p), NEW q, Extends(p, q), IsFiniteSet(Ids(q)),
           \A id \in Ids(q) \ Ids(p) :
               /\ Artifact(q, id).upstream \subseteq Ids(p)
               /\ Artifact(q, id).lineage = Above(p, Artifact(q, id).upstream)
    PROVE  Acyclic(q)
  <1>1. \A id \in Ids(p) : Artifact(p, id).lineage \subseteq Ids(p) /\ Artifact(p, id).upstream \subseteq Ids(p)
    BY DEF Base, LineageClosed
  <1>2. \A id \in Ids(p) : Artifact(q, id).upstream = Artifact(p, id).upstream
                           /\ Artifact(q, id).lineage = Artifact(p, id).lineage
    BY DEF Extends
  <1>3. \A refs \in SUBSET Ids(p) : Above(q, refs) = Above(p, refs) /\ Above(p, refs) \subseteq Ids(p)
    BY <1>1, <1>2 DEF Above
  <1>4. ASSUME NEW id \in Ids(q)
        PROVE  id \notin Artifact(q, id).lineage /\ Artifact(q, id).lineage = Above(q, Artifact(q, id).upstream)
    <2>1. CASE id \in Ids(p)
      BY <2>1, <1>1, <1>2, <1>3 DEF Acyclic
    <2>2. CASE id \notin Ids(p)
      BY <2>2, <1>3
    <2> QED  BY <2>1, <2>2
  <1> QED  BY <1>4 DEF Acyclic

\* Invalidation builds nothing.
LEMMA InvalidateFromKeepsAcyclic ==
    ASSUME NEW texts, NEW p, Base(p, texts), Acyclic(p), NEW seed
    PROVE  Acyclic(InvalidateFrom(p, seed))
  <1>1. PICK q : q = InvalidateFrom(p, seed)
    OBVIOUS
  <1>2. Extends(p, q) /\ Ids(q) = Ids(p)
    BY <1>1, InvalidateFromExtends
  <1>3. IsFiniteSet(Ids(q))
    BY <1>2 DEF Acyclic
  <1> QED  BY <1>1, <1>2, <1>3, AcyclicGrows

\* A new version is built on what it cites.
LEMMA AppendedKeepsAcyclic ==
    ASSUME NEW texts, NEW p, Base(p, texts), Acyclic(p), NEW kind \in Kinds, NEW content \in texts,
           NEW refs \in SUBSET Ids(p), Len(p.artifacts[kind]) < MaxVersions
    PROVE  Acyclic(Appended(p, kind, content, refs))
  <1>1. PICK q : q = Appended(p, kind, content, refs)
    OBVIOUS
  <1>2. PICK new : new = <<kind, Len(p.artifacts[kind]) + 1>>
    OBVIOUS
  <1>3. /\ Ids(q) = Ids(p) \cup {new}
        /\ Artifact(q, new).upstream = refs
        /\ Artifact(q, new).lineage = refs \cup UNION {Artifact(p, r).lineage : r \in refs}
        /\ \A id \in Ids(p) : Artifact(q, id) = Artifact(p, id)
        /\ q.annotations = p.annotations
    BY <1>1, <1>2, AppendedProject DEF Base
  <1>4. Extends(p, q)
    BY <1>3 DEF Extends, IsLive
  <1>5. IsFiniteSet(Ids(q))
    BY <1>3, FS_AddElement DEF Acyclic
  <1>6. \A id \in Ids(q) \ Ids(p) :
            /\ Artifact(q, id).upstream \subseteq Ids(p)
            /\ Artifact(q, id).lineage = Above(p, Artifact(q, id).upstream)
    BY <1>3 DEF Above
  <1> QED  BY <1>1, <1>4, <1>5, <1>6, AcyclicGrows

\* A derived artifact is appended to what the cascade left.
LEMMA AddDerivedKeepsAcyclic ==
    ASSUME NEW texts, NEW p, Base(p, texts), Acyclic(p), NEW kind \in Kinds, NEW content \in texts,
           NEW refs, CanAddDerived(p, kind, refs)
    PROVE  Acyclic(AddDerived(p, kind, content, refs))
  <1> DEFINE superseded == kind # RuntimeEvidence /\ HasCurrent(p, kind)
             kept == IF superseded THEN InvalidateFrom(p, {Current(p, kind)}) ELSE p
  <1>1. Base(kept, texts) /\ Acyclic(kept)
    BY InvalidateFromKeepsBase, InvalidateFromKeepsAcyclic
  <1>2. /\ Len(kept.artifacts[kind]) = Len(p.artifacts[kind])
        /\ Ids(kept) = Ids(p)
    BY InvalidateFromProject DEF Base, Typed
  <1>3. refs \in SUBSET Ids(kept) /\ Len(kept.artifacts[kind]) < MaxVersions
    BY <1>2 DEF CanAddDerived, IsLive
  <1> HIDE DEF kept
  <1>4. Acyclic(Appended(kept, kind, content, refs))
    BY <1>1, <1>3, AppendedKeepsAcyclic
  <1> QED  BY <1>4 DEF AddDerived, kept

\* A decision builds nothing, nor does its cascade.
LEMMA DecideKeepsAcyclic ==
    ASSUME NEW texts, NEW p, Base(p, texts), Acyclic(p), NEW id, CanDecide(p, id),
           NEW decision \in ReviewDecisions
    PROVE  Acyclic(Decide(p, id, decision))
  <1> DEFINE q == [p EXCEPT !.approvals[id] = decision]
  <1>1. Base(q, texts) /\ q.artifacts = p.artifacts
    BY DecideApprovals
  <1> HIDE DEF q
  <1>2. Acyclic(q)
    <2>1. Ids(q) = Ids(p) /\ \A other : Artifact(q, other) = Artifact(p, other)
      BY <1>1 DEF Ids, Artifact
    <2>2. \A refs : Above(q, refs) = Above(p, refs)
      BY <2>1 DEF Above
    <2> QED  BY <2>1, <2>2 DEF Acyclic
  <1>3. Acyclic(InvalidateFrom(q, DirectDependents(q, id)))
    BY <1>1, <1>2, InvalidateFromKeepsAcyclic
  <1> QED  BY <1>2, <1>3 DEF Decide, q

\* Nor does a comment.
LEMMA AnnotateKeepsAcyclic ==
    ASSUME NEW texts, NEW p, Base(p, texts), Acyclic(p), NEW id, CanAnnotate(p, id)
    PROVE  Acyclic(Annotate(p, id))
  <1>1. Annotate(p, id).artifacts = p.artifacts
    BY DEF Annotate, Base, Typed, ProjectRecords
  <1>2. PICK q : q = Annotate(p, id)
    OBVIOUS
  <1>3. Ids(q) = Ids(p) /\ \A other : Artifact(q, other) = Artifact(p, other)
    BY <1>1, <1>2 DEF Ids, Artifact
  <1>4. \A refs : Above(q, refs) = Above(p, refs)
    BY <1>3 DEF Above
  <1> QED  BY <1>2, <1>3, <1>4 DEF Acyclic

\* A new source is built on nothing.
LEMMA ReplaceSourceKeepsAcyclic ==
    ASSUME NEW texts, NEW p, Base(p, texts), Acyclic(p), CanReplaceSource(p), NEW content \in texts
    PROVE  Acyclic(ReplaceSource(p, content))
  <1>1. PICK q : q = InvalidateFrom(p, {Current(p, OriginalSpec)})
    OBVIOUS
  <1>2. Base(q, texts) /\ Acyclic(q)
    BY <1>1, InvalidateFromKeepsBase, InvalidateFromKeepsAcyclic
  <1>3. OriginalSpec \in Kinds /\ Len(q.artifacts[OriginalSpec]) < MaxVersions
    BY <1>1, InvalidateFromProject DEF Base, Typed, CanReplaceSource
  <1>4. Acyclic(Appended(q, OriginalSpec, content, {}))
    BY <1>2, <1>3, AppendedKeepsAcyclic
  <1> QED  BY <1>1, <1>4 DEF ReplaceSource

-----------------------------------------------------------------------------
(* The invariant. *)

\* A new project has the invariant.
LEMMA InitInv == Init => Inv
  <1> SUFFICES ASSUME NEW content \in Contents[OriginalSpec], project = NewProject(content)
               PROVE  Inv
    BY DEF Init
  <1>1. content \in Texts
    BY DEF Texts
  <1>2. Base(project, Texts) /\ SourceLive(project) /\ Ids(project) = {<<OriginalSpec, 1>>}
    BY <1>1, NewProjectKeepsInv
  <1>3. Acyclic(project)
    <2>1. IsFiniteSet(Ids(project))
      <3>1. IsFiniteSet({} \cup {<<OriginalSpec, 1>>})
        BY FS_EmptySet, FS_AddElement
      <3> QED  BY <1>2, <3>1
    <2>2. \A id \in Ids(project) : Artifact(project, id).lineage = {} /\ Artifact(project, id).upstream = {}
      BY <1>2 DEF Base, SourceIsRoot, LineageClosed
    <2> QED  BY <2>1, <2>2 DEF Acyclic, Above
  <1> QED  BY <1>2, <1>3 DEF Inv

\* A new project has no artifact but its source.
LEMMA InitHasOnlySource == Init => \A id \in Ids(project) : id[1] = OriginalSpec
  BY DEF Init, NewProject, Ids, ArtifactIds

\* Every step keeps the invariant.
LEMMA NextInv == Inv /\ [Next]_project => Inv'
  <1> SUFFICES ASSUME Inv, [Next]_project  PROVE Inv'
    OBVIOUS
  <1> USE DEF Inv, Base
  <1>1. ASSUME NEW kind \in Kinds, NEW content \in Contents[kind], NEW refs \in References(kind),
               AddDerivedArtifact(kind, content, refs)
        PROVE  Inv'
    BY <1>1, AddDerivedKeepsInv, AddDerivedKeepsAcyclic DEF AddDerivedArtifact, Texts
  <1>2. ASSUME NEW id \in Ids(project) \cap Reviewable, NEW decision \in ReviewDecisions,
               DecideArtifact(id, decision)
        PROVE  Inv'
    BY <1>2, DecideKeepsInv, DecideKeepsAcyclic DEF DecideArtifact
  <1>3. ASSUME NEW id \in Ids(project) \cap Commented, AnnotateArtifact(id)
        PROVE  Inv'
    BY <1>3, AnnotateKeepsInv, AnnotateKeepsAcyclic DEF AnnotateArtifact
  <1>4. ASSUME NEW content \in Contents[OriginalSpec], ReplaceOriginal(content)
        PROVE  Inv'
    BY <1>4, ReplaceSourceKeepsInv, ReplaceSourceKeepsAcyclic DEF ReplaceOriginal, Texts
  <1>5. CASE UNCHANGED project
    BY <1>5
  <1> QED  BY <1>1, <1>2, <1>3, <1>4, <1>5 DEF Next

\* The inductive invariant holds of every reachable project.
THEOREM Invariance == Spec => []Inv
  <1> QED  BY InitInv, NextInv, PTL DEF Spec

\* The invariants the runs check are parts of it.
LEMMA InvGives == Inv => TypeOK /\ OnlyNewestIsLive /\ SourceIsLive /\ DecisionsMatchStates
  BY DEF Inv, Base, TypeOK, OnlyNewestIsLive, SourceIsLive, DecisionsMatchStates

-----------------------------------------------------------------------------
\* Every reachable project is well formed, for any kinds, texts and citations.
THEOREM TypeCorrect == Spec => []TypeOK
  BY Invariance, InvGives, PTL

\* There is never a second live version of a kind for Project.current to
\* confuse with the newest one.
THEOREM NewestIsLive == Spec => []OnlyNewestIsLive
  BY Invariance, InvGives, PTL

\* No cascade leaves a project without its current source.
THEOREM SourceStaysLive == Spec => []SourceIsLive
  BY Invariance, InvGives, PTL

\* No invalidated artifact keeps an active decision, the state that
\* project_from_dict refuses to load.
THEOREM DecisionsMatch == Spec => []DecisionsMatchStates
  BY Invariance, InvGives, PTL

-----------------------------------------------------------------------------
\* Whatever is live was built from artifacts that are still live, for every
\* set of kinds whose citations are staged.
THEOREM StagedInputsLive ==
    ASSUME Staged
    PROVE  Spec => []LiveInputsAreLive
  <1>1. PICK rank \in [Kinds -> Nat] :
          \A kind \in Kinds : \A input \in Inputs[kind] : rank[input] < rank[kind]
    BY DEF Staged
  <1> DEFINE J == Inv /\ Layered(project, rank, Texts)
  <1>2. Init => J
    <2> SUFFICES ASSUME Init  PROVE Layered(project, rank, Texts)
      BY InitInv
    <2>1. Inv /\ Base(project, Texts)
      BY InitInv DEF Inv, Base
    <2>2. \A id \in Ids(project) : Artifact(project, id).upstream = {} /\ Artifact(project, id).lineage = {}
      <3>1. \A id \in Ids(project) : id[1] = OriginalSpec
        BY InitHasOnlySource
      <3> QED  BY <2>1, <3>1 DEF Base, SourceIsRoot, LineageClosed
    <2> QED  BY <2>1, <2>2 DEF Layered, Ranked, InputsLive
  <1>3. J /\ [Next]_project => J'
    <2> SUFFICES ASSUME J, [Next]_project  PROVE Layered(project, rank, Texts)'
      BY NextInv
    <2>1. ASSUME NEW kind \in Kinds, NEW content \in Contents[kind], NEW refs \in References(kind),
                 AddDerivedArtifact(kind, content, refs)
          PROVE  Layered(project, rank, Texts)'
      <3>1. \A r \in refs : rank[r[1]] < rank[kind]
        BY <1>1 DEF References
      <3>2. content \in Texts
        BY DEF Texts
      <3> QED  BY <2>1, <3>1, <3>2, AddDerivedKeepsLayers DEF AddDerivedArtifact
    <2>2. ASSUME NEW id \in Ids(project) \cap Reviewable, NEW decision \in ReviewDecisions,
                 DecideArtifact(id, decision)
          PROVE  Layered(project, rank, Texts)'
      BY <2>2, DecideKeepsLayers DEF DecideArtifact, Inv
    <2>3. ASSUME NEW id \in Ids(project) \cap Commented, AnnotateArtifact(id)
          PROVE  Layered(project, rank, Texts)'
      BY <2>3, AnnotateKeepsLayers DEF AnnotateArtifact, Inv
    <2>4. ASSUME NEW content \in Contents[OriginalSpec], ReplaceOriginal(content)
          PROVE  Layered(project, rank, Texts)'
      BY <2>4, ReplaceSourceKeepsLayers DEF ReplaceOriginal, Texts
    <2>5. CASE UNCHANGED project
      BY <2>5
    <2> QED  BY <2>1, <2>2, <2>3, <2>4, <2>5 DEF Next
  <1>4. J => LiveInputsAreLive
    BY DEF Layered, LiveInputsAreLive
  <1> QED  BY <1>2, <1>3, <1>4, PTL DEF Spec

-----------------------------------------------------------------------------
(* The loop of _invalidate_from. *)

\* Numbers that are not none have a least one.
LEMMA LeastNumber ==
    ASSUME NEW S, S \subseteq Nat, S # {}
    PROVE  \E m \in S : \A k \in S : m <= k
  <1>1. PICK m \in S : \A k \in S : <<k, m>> \notin OpToRel(<, Nat)
    BY WFMin, NatLessThanWellFounded, Zenon
  <1>2. \A k \in S : ~(k < m)
    BY <1>1, Zenon DEF OpToRel
  <1>3. QED BY <1>2

\* A step can be taken any number of times.
LEMMA Rounds ==
    ASSUME NEW X, NEW base \in X, NEW step \in [X -> X]
    PROVE  \E f \in [Nat -> X] : f[0] = base /\ \A n \in Nat \ {0} : f[n] = step[f[n - 1]]
  <1> DEFINE Upto(n, f) == f[0] = base /\ \A k \in 1..n : f[k] = step[f[k - 1]]
             short == {n \in Nat : ~\E f \in [0..n -> X] : Upto(n, f)}
  <1>1. short = {}
    <2> SUFFICES ASSUME short # {} PROVE FALSE
      OBVIOUS
    <2>1. PICK n \in short : \A k \in short : n <= k
      <3>1. short \subseteq Nat
        OBVIOUS
      <3> HIDE DEF short
      <3>2. QED BY <3>1, LeastNumber
    <2>2. CASE n = 0
      <3>1. Upto(0, [k \in 0..0 |-> base]) /\ [k \in 0..0 |-> base] \in [0..0 -> X]
        OBVIOUS
      <3>2. QED BY <2>2, <3>1
    <2>3. CASE n # 0
      <3>1. n \in Nat /\ n - 1 \in Nat /\ n - 1 \notin short
        <4>1. n \in Nat /\ n - 1 \in Nat /\ ~(n <= n - 1)
          BY <2>3
        <4>2. QED BY <4>1, <2>1
      <3>2. PICK f \in [0..(n - 1) -> X] : Upto(n - 1, f)
        BY <3>1
      <3> DEFINE g == [k \in 0..n |-> IF k = n THEN step[f[n - 1]] ELSE f[k]]
      <3>3. f[n - 1] \in X
        BY <3>1
      <3>4. g \in [0..n -> X]
        BY <3>1, <3>3
      <3>5. g[0] = base
        BY <3>1, <3>2, <2>3
      <3>6. \A k \in 1..n : g[k] = step[g[k - 1]]
        BY <3>1, <3>2
      <3>7. Upto(n, g)
        BY <3>5, <3>6
      <3> HIDE DEF g, Upto
      <3>8. QED BY <3>4, <3>7
    <2>4. QED BY <2>2, <2>3
  <1>2. \A n \in Nat : \E f \in [0..n -> X] : Upto(n, f)
    BY <1>1
  <1> DEFINE upto == [n \in Nat |-> CHOOSE f \in [0..n -> X] : Upto(n, f)]
             all == [n \in Nat |-> upto[n][n]]
  <1>3. \A n \in Nat : upto[n] \in [0..n -> X] /\ Upto(n, upto[n])
    <2> HIDE DEF Upto
    <2> QED BY <1>2
  <1> HIDE DEF upto
  <1>4. \A n \in Nat \ {0} : upto[n][n - 1] = upto[n - 1][n - 1]
    <2> SUFFICES ASSUME NEW n \in Nat \ {0} PROVE upto[n][n - 1] = upto[n - 1][n - 1]
      OBVIOUS
    <2> DEFINE apart == {k \in 0..(n - 1) : upto[n][k] # upto[n - 1][k]}
    <2>1. apart = {}
      <3> SUFFICES ASSUME apart # {} PROVE FALSE
        OBVIOUS
      <3>1. PICK k \in apart : \A j \in apart : k <= j
        <4>1. apart \subseteq Nat
          OBVIOUS
        <4> HIDE DEF apart
        <4>2. QED BY <4>1, LeastNumber
      <3>2. k # 0
        BY <1>3
      <3>3. k - 1 \in 0..(n - 1) /\ k - 1 \notin apart /\ k \in 1..(n - 1) /\ k \in 1..n
        BY <3>1, <3>2
      <3>4. upto[n][k - 1] = upto[n - 1][k - 1]
        BY <3>3
      <3>5. upto[n][k] = step[upto[n][k - 1]] /\ upto[n - 1][k] = step[upto[n - 1][k - 1]]
        BY <1>3, <3>3
      <3>6. QED BY <3>4, <3>5
    <2>2. QED BY <2>1
  <1>5. all \in [Nat -> X]
    BY <1>3
  <1>6. all[0] = base
    BY <1>3
  <1>7. \A n \in Nat \ {0} : all[n] = step[all[n - 1]]
    <2> SUFFICES ASSUME NEW n \in Nat \ {0} PROVE all[n] = step[all[n - 1]]
      OBVIOUS
    <2>1. upto[n][n] = step[upto[n][n - 1]]
      BY <1>3
    <2>2. QED BY <2>1, <1>4
  <1>8. QED BY <1>5, <1>6, <1>7

\* Sets that only grow, within a finite set, stop growing.
LEMMA GrowthEnds ==
    ASSUME NEW U, IsFiniteSet(U), NEW f \in [Nat -> SUBSET U], \A n \in Nat : f[n] \subseteq f[n + 1]
    PROVE  \E n \in 0..Cardinality(U) : f[n + 1] = f[n]
  <1>1. PICK size : size = Cardinality(U)
    OBVIOUS
  <1>2. size \in Nat
    BY <1>1, FS_CardinalityType
  <1>3. \A n \in Nat : IsFiniteSet(f[n]) /\ Cardinality(f[n]) \in Nat /\ Cardinality(f[n]) <= size
    BY <1>1, FS_Subset, FS_CardinalityType
  <1> SUFFICES ASSUME \A n \in 0..size : f[n + 1] # f[n]  PROVE FALSE
    BY <1>1
  <1>4. ASSUME NEW n \in 0..size  PROVE Cardinality(f[n + 1]) >= Cardinality(f[n]) + 1
    <2>1. n \in Nat /\ n + 1 \in Nat
      BY <1>2
    <2>2. f[n] \in SUBSET f[n + 1] /\ f[n] # f[n + 1]
      BY <2>1
    <2>3. Cardinality(f[n]) <= Cardinality(f[n + 1]) /\ Cardinality(f[n]) # Cardinality(f[n + 1])
      BY <2>1, <2>2, <1>3, FS_Subset
    <2> QED  BY <2>1, <2>3, <1>3
  <1> DEFINE small == {n \in 0..(size + 1) : Cardinality(f[n]) < n}
  <1>5. small = {}
    <2> SUFFICES ASSUME small # {}  PROVE FALSE
      OBVIOUS
    <2>1. PICK n \in small : \A k \in small : n <= k
      <3>1. small \subseteq Nat
        BY <1>2
      <3> HIDE DEF small
      <3> QED  BY <3>1, LeastNumber
    <2>2. n # 0
      BY <1>3
    <2>3. n - 1 \in 0..size /\ n - 1 \in 0..(size + 1) /\ (n - 1) + 1 = n /\ ~(n <= n - 1)
      BY <2>2, <1>2
    <2>4. ~(Cardinality(f[n - 1]) < n - 1)
      BY <2>1, <2>3
    <2>5. Cardinality(f[n]) >= Cardinality(f[n - 1]) + 1
      BY <2>3, <1>4
    <2>6. n \in Nat /\ n - 1 \in Nat
      BY <2>3, <1>2
    <2> QED  BY <2>1, <2>4, <2>5, <2>6, <1>3
  <1>6. size + 1 \in 0..(size + 1) /\ size + 1 \in Nat
    BY <1>2
  <1>7. Cardinality(f[size + 1]) >= size + 1
    BY <1>2, <1>3, <1>5, <1>6
  <1> QED  BY <1>2, <1>3, <1>6, <1>7

\* What cites an artifact of a set.
Citing(p, invalid) == {id \in Ids(p) : Artifact(p, id).upstream \cap invalid # {}}

\* What each pass has.
MakesPasses(f, p, seed) ==
    f[0] = seed /\ \A n \in Nat \ {0} : f[n] = f[n - 1] \cup Citing(p, f[n - 1])

\* Passes can be made for ever.
LEMMA Passes ==
    ASSUME NEW p, NEW seed \in SUBSET Ids(p)
    PROVE  \E f \in [Nat -> SUBSET Ids(p)] : MakesPasses(f, p, seed)
  <1> DEFINE step == [invalid \in SUBSET Ids(p) |-> invalid \cup Citing(p, invalid)]
  <1>1. step \in [SUBSET Ids(p) -> SUBSET Ids(p)]
    BY DEF Citing
  <1>2. \A invalid \in SUBSET Ids(p) : step[invalid] = invalid \cup Citing(p, invalid)
    OBVIOUS
  <1> HIDE DEF step
  <1>3. PICK X : X = SUBSET Ids(p)
    OBVIOUS
  <1>4. \E f \in [Nat -> X] : f[0] = seed /\ \A n \in Nat \ {0} : f[n] = step[f[n - 1]]
    <2>1. step \in [X -> X] /\ seed \in X
      BY <1>1, <1>3
    <2> QED  BY <2>1, Rounds
  <1>5. ASSUME NEW f \in [Nat -> X], NEW n \in Nat \ {0}
        PROVE  step[f[n - 1]] = f[n - 1] \cup Citing(p, f[n - 1])
    BY <1>2, <1>3
  <1> QED  BY <1>3, <1>4, <1>5 DEF MakesPasses

\* What the loop has when it stops: some pass after which nothing is added.
LEMMA LoopStops ==
    ASSUME NEW p, IsFiniteSet(Ids(p)), NEW seed \in SUBSET Ids(p)
    PROVE  \E f \in [Nat -> SUBSET Ids(p)], n \in Nat :
             MakesPasses(f, p, seed) /\ f[n + 1] = f[n] /\ LoopFrom(p, seed) = f[n]
  <1>1. PICK X : X = SUBSET Ids(p)
    OBVIOUS
  <1> DEFINE after == CHOOSE a : a = [pass \in Nat |->
                         IF pass = 0 THEN seed
                         ELSE a[pass - 1] \cup {id \in Ids(p) : Artifact(p, id).upstream \cap a[pass - 1] # {}}]
             last == CHOOSE pass \in 0..Cardinality(Ids(p)) : after[pass + 1] = after[pass]
  <1>2. LoopFrom(p, seed) = after[last]
    BY Zenon DEF LoopFrom
  <1>3. PICK f \in [Nat -> X] : MakesPasses(f, p, seed)
    BY <1>1, Passes
  <1>4. f = [pass \in Nat |->
                IF pass = 0 THEN seed
                ELSE f[pass - 1] \cup {id \in Ids(p) : Artifact(p, id).upstream \cap f[pass - 1] # {}}]
    BY <1>3 DEF MakesPasses, Citing
  <1>5. after = [pass \in Nat |->
                IF pass = 0 THEN seed
                ELSE after[pass - 1] \cup {id \in Ids(p) : Artifact(p, id).upstream \cap after[pass - 1] # {}}]
    BY <1>4
  <1> HIDE DEF after
  <1>6. after[0] = seed /\ \A n \in Nat \ {0} : after[n] = after[n - 1] \cup Citing(p, after[n - 1])
    BY <1>5 DEF Citing
  <1>7. \A n \in Nat : after[n] = f[n]
    <2> DEFINE apart == {n \in Nat : after[n] # f[n]}
    <2>1. apart = {}
      <3> SUFFICES ASSUME apart # {}  PROVE FALSE
        OBVIOUS
      <3>1. PICK n \in apart : \A k \in apart : n <= k
        <4>1. apart \subseteq Nat
          OBVIOUS
        <4> HIDE DEF apart
        <4> QED  BY <4>1, LeastNumber
      <3>2. n # 0
        BY <1>3, <1>6 DEF MakesPasses
      <3>3. n - 1 \in Nat /\ n - 1 \notin apart
        <4>1. n \in Nat /\ n - 1 \in Nat /\ ~(n <= n - 1)
          BY <3>2
        <4> QED  BY <4>1, <3>1
      <3>4. after[n - 1] = f[n - 1] /\ n \in Nat \ {0}
        BY <3>2, <3>3
      <3>5. after[n] = f[n]
        BY <3>4, <1>3, <1>6 DEF MakesPasses
      <3> QED  BY <3>5
    <2> QED  BY <2>1
  <1>8. \A n \in Nat : f[n] \subseteq f[n + 1]
    <2> SUFFICES ASSUME NEW n \in Nat  PROVE f[n] \subseteq f[n + 1]
      OBVIOUS
    <2>1. n + 1 \in Nat \ {0} /\ (n + 1) - 1 = n
      OBVIOUS
    <2> QED  BY <2>1, <1>3 DEF MakesPasses
  <1>9. \E n \in 0..Cardinality(Ids(p)) : f[n + 1] = f[n]
    BY <1>1, <1>8, GrowthEnds
  <1>10. \A n \in 0..Cardinality(Ids(p)) : n \in Nat /\ n + 1 \in Nat
    BY FS_CardinalityType
  <1>11. last \in Nat /\ after[last + 1] = after[last]
    <2>1. \E n \in 0..Cardinality(Ids(p)) : after[n + 1] = after[n]
      BY <1>7, <1>9, <1>10
    <2>2. last \in 0..Cardinality(Ids(p)) /\ after[last + 1] = after[last]
      BY <2>1
    <2> QED  BY <2>2, <1>10
  <1> HIDE DEF last
  <1>12. last + 1 \in Nat
    BY <1>11
  <1>13. f[last + 1] = f[last] /\ LoopFrom(p, seed) = f[last]
    BY <1>2, <1>7, <1>11, <1>12
  <1> QED  BY <1>1, <1>3, <1>11, <1>13

\* The lineages hold what the loop finds, and the loop finds what they hold.
LEMMA ReachedIsLoop ==
    ASSUME NEW texts, NEW p, Base(p, texts), Acyclic(p), NEW seed \in SUBSET Ids(p)
    PROVE  LoopFrom(p, seed) = Reached(p, seed)
  <1>1. PICK f \in [Nat -> SUBSET Ids(p)], n \in Nat :
            MakesPasses(f, p, seed) /\ f[n + 1] = f[n] /\ LoopFrom(p, seed) = f[n]
    BY LoopStops DEF Acyclic
  <1>2. Reached(p, seed) \in SUBSET Ids(p) /\ seed \subseteq Reached(p, seed)
    BY DEF Reached
  <1>3. Citing(p, Reached(p, seed)) \subseteq Reached(p, seed)
    BY ReachedIsClosed DEF Citing, Base, LineageClosed
  <1>4. \A k \in Nat : seed \subseteq f[k] /\ f[k] \subseteq Reached(p, seed)
    <2> DEFINE Within(S) == seed \subseteq S /\ S \subseteq Reached(p, seed)
               out1 == {k \in Nat : ~Within(f[k])}
    <2>1. ASSUME NEW k \in Nat \ {0}, Within(f[k - 1])  PROVE Within(f[k])
      <3>1. Citing(p, f[k - 1]) \subseteq Citing(p, Reached(p, seed))
        BY <2>1 DEF Citing
      <3> QED  BY <2>1, <3>1, <1>1, <1>3 DEF MakesPasses
    <2>2. Within(f[0])
      BY <1>1, <1>2 DEF MakesPasses
    <2> HIDE DEF Within
    <2>3. out1 = {}
      <3> SUFFICES ASSUME out1 # {}  PROVE FALSE
        OBVIOUS
      <3>1. PICK k \in out1 : \A j \in out1 : k <= j
        <4>1. out1 \subseteq Nat
          OBVIOUS
        <4> HIDE DEF out1
        <4> QED  BY <4>1, LeastNumber
      <3>2. k \in Nat \ {0} /\ k - 1 \in Nat /\ ~(k <= k - 1)
        BY <2>2
      <3>3. Within(f[k - 1])
        BY <3>1, <3>2
      <3> QED  BY <2>1, <3>2, <3>3
    <2> QED  BY <2>3 DEF Within
  <1>5. PICK loop : loop = f[n]
    OBVIOUS
  <1>6. Citing(p, loop) \subseteq loop
    <2>1. n + 1 \in Nat \ {0} /\ (n + 1) - 1 = n
      OBVIOUS
    <2> QED  BY <2>1, <1>1, <1>5 DEF MakesPasses
  <1> DEFINE missed == {id \in Ids(p) \ loop : Artifact(p, id).lineage \cap loop # {}}
             Size(id) == Cardinality(Artifact(p, id).lineage)
             sizes == {Size(id) : id \in missed}
  <1>7. \A id \in Ids(p) : /\ Artifact(p, id).lineage \in SUBSET Ids(p)
                           /\ IsFiniteSet(Artifact(p, id).lineage) /\ Size(id) \in Nat
    <2>1. \A id \in Ids(p) : Artifact(p, id).lineage \in SUBSET Ids(p)
      BY DEF Base, LineageClosed
    <2> QED  BY <2>1, FS_Subset, FS_CardinalityType DEF Acyclic
  <1>8. missed = {}
    <2> SUFFICES ASSUME missed # {}  PROVE FALSE
      OBVIOUS
    <2>1. PICK m \in sizes : \A k \in sizes : m <= k
      <3>1. sizes \subseteq Nat /\ sizes # {}
        BY <1>7
      <3> HIDE DEF sizes
      <3> QED  BY <3>1, LeastNumber
    <2>2. PICK id \in missed : m = Size(id)
      BY <2>1
    <2>3. PICK r \in Artifact(p, id).lineage : r \in loop
      BY <2>2
    <2>4. r \in Above(p, Artifact(p, id).upstream) /\ Artifact(p, id).upstream \cap loop = {}
      BY <2>2, <2>3, <1>6 DEF Acyclic, Citing
    <2>5. PICK s \in Artifact(p, id).upstream : r \in Artifact(p, s).lineage
      BY <2>3, <2>4 DEF Above
    <2>6. s \in Ids(p) /\ s \in Artifact(p, id).lineage /\ s \notin Artifact(p, s).lineage
          /\ Artifact(p, s).lineage \subseteq Artifact(p, id).lineage
      BY <2>2, <2>5 DEF Base, LineageClosed, Acyclic
    <2>7. s \in missed
      BY <2>3, <2>4, <2>5, <2>6
    <2>8. Size(s) < Size(id)
      <3>1. Artifact(p, s).lineage \in SUBSET Artifact(p, id).lineage
            /\ Artifact(p, s).lineage # Artifact(p, id).lineage
        BY <2>6
      <3>2. IsFiniteSet(Artifact(p, id).lineage) /\ Size(id) \in Nat /\ Size(s) \in Nat
        BY <1>7, <2>2, <2>6
      <3>3. Size(s) <= Size(id) /\ Size(s) # Size(id)
        BY <3>1, <3>2, FS_Subset
      <3> QED  BY <3>2, <3>3
    <2>9. Size(s) \in sizes
      BY <2>7
    <2>10. Size(s) \in Nat /\ Size(id) \in Nat
      BY <1>7, <2>2, <2>6
    <2> HIDE DEF sizes, Size
    <2> QED  BY <2>1, <2>2, <2>8, <2>9, <2>10
  <1>9. Reached(p, seed) \subseteq loop
    BY <1>4, <1>5, <1>8 DEF Reached
  <1> QED  BY <1>1, <1>4, <1>5, <1>9

\* The lineage kept with each artifact stands for the loop of _invalidate_from
\* in every reachable project: the loop stops, and it stops with every artifact
\* built, at any distance, on what it began with, and with no other.
THEOREM LoopIsLineage == Spec => []LineageIsTheLoop
  <1>1. Inv => LineageIsTheLoop
    <2> SUFFICES ASSUME Inv, NEW id \in Ids(project)
                 PROVE  /\ LoopFrom(project, {id}) = Reached(project, {id})
                        /\ LoopFrom(project, DirectDependents(project, id)) =
                             Reached(project, DirectDependents(project, id))
      BY DEF LineageIsTheLoop
    <2>1. {id} \in SUBSET Ids(project) /\ DirectDependents(project, id) \in SUBSET Ids(project)
      BY DEF DirectDependents
    <2> QED  BY <2>1, ReachedIsLoop DEF Inv
  <1> QED  BY <1>1, Invariance, PTL

-----------------------------------------------------------------------------
\* The step properties of any step from a project that keeps the invariant.
LEMMA NextSteps ==
    Inv /\ [Next]_project =>
        Extends(project, project') /\ Cascades(project, project') /\ AddsEvidence(project, project')
  <1> SUFFICES ASSUME Inv, [Next]_project
               PROVE  /\ Extends(project, project')
                      /\ Cascades(project, project')
                      /\ AddsEvidence(project, project')
    OBVIOUS
  <1> DEFINE Goal == /\ Extends(project, project')
                     /\ Cascades(project, project')
                     /\ AddsEvidence(project, project')
  <1>0. Base(project, Texts)
    BY DEF Inv, Base
  <1>1. ASSUME NEW kind \in Kinds, NEW content \in Contents[kind], NEW refs \in References(kind),
               AddDerivedArtifact(kind, content, refs)
        PROVE  Goal
    BY <1>0, <1>1, AddDerivedSteps DEF AddDerivedArtifact, Texts
  <1>2. ASSUME NEW id \in Ids(project) \cap Reviewable, NEW decision \in ReviewDecisions,
               DecideArtifact(id, decision)
        PROVE  Goal
    BY <1>0, <1>2, DecideSteps DEF DecideArtifact, AddsEvidence
  <1>3. ASSUME NEW id \in Ids(project) \cap Commented, AnnotateArtifact(id)
        PROVE  Goal
    BY <1>0, <1>3, AnnotateSteps DEF AnnotateArtifact, AddsEvidence
  <1>4. ASSUME NEW content \in Contents[OriginalSpec], ReplaceOriginal(content)
        PROVE  Goal
    <2>1. OriginalSpec # RuntimeEvidence
      BY DEF OriginalSpec, RuntimeEvidence
    <2> QED  BY <1>0, <1>4, <2>1, ReplaceSourceSteps DEF ReplaceOriginal, AddsEvidence, Texts
  <1>5. CASE UNCHANGED project
    BY <1>5 DEF Extends, Cascades, AddsEvidence
  <1> QED  BY <1>1, <1>2, <1>3, <1>4, <1>5 DEF Next

\* No operation drops, rewrites or revives a version.
THEOREM HistoryGrows == Spec => HistoryOnlyGrows
  BY Invariance, NextSteps, PTL DEF Spec, HistoryOnlyGrows

\* Losing an approval invalidates all that was derived from the artifact, at
\* any distance, in the same step.
THEOREM ApprovalsCascade == Spec => LostApprovalsCascade
  BY Invariance, NextSteps, PTL DEF Spec, LostApprovalsCascade

\* Recording evidence disturbs nothing that is already there.
THEOREM EvidenceAppends == Spec => EvidenceIsIndependent
  BY Invariance, NextSteps, PTL DEF Spec, EvidenceIsIndependent
=============================================================================
