---------------------------- MODULE ProjectProofs ----------------------------
(***************************************************************************)
(* What the transitions of a project and the phases built from them do and *)
(* keep, for any kinds, texts, documents, bundles and bounds: lemmas that  *)
(* the proofs about every specification over projects are put together     *)
(* from.                                                                   *)
(*                                                                         *)
(* Part 1, projects.  The transitions are compositions: AddDerived and     *)
(* ReplaceSource append to what InvalidateFrom returned, Decide cascades   *)
(* from what it stored.  So the lemmas are about one function on any       *)
(* project, first what it returns and then which part of the invariant it  *)
(* keeps.                                                                  *)
(*                                                                         *)
(* Part 2, phases.  Every phase function keeps PhaseInv.  Nothing before   *)
(* it uses what is assumed of the phases.                                  *)
(***************************************************************************)
EXTENDS PhaseInvariants, SequenceTheorems, TLAPS

USE ProjectsAssumption

\* Invalidation changes the state of a version and nothing else.
LEMMA StaleRecord ==
    ASSUME NEW texts, NEW a \in ArtifactRecords(texts)
    PROVE  /\ Stale(a) \in ArtifactRecords(texts)
           /\ Stale(a).content = a.content
           /\ Stale(a).upstream = a.upstream
           /\ Stale(a).lineage = a.lineage
           /\ Stale(a).state = Invalidated
  BY DEF Stale, ArtifactRecords

\* What _invalidate_from returns, version by version and decision by decision.
LEMMA InvalidateFromProject ==
    ASSUME NEW texts, NEW p \in ProjectRecords(texts), NEW seed
    PROVE  LET q == InvalidateFrom(p, seed) IN
           /\ q \in ProjectRecords(texts)
           /\ \A kind \in Kinds : Len(q.artifacts[kind]) = Len(p.artifacts[kind])
           /\ Ids(q) = Ids(p)
           /\ \A id \in Ids(p) :
                Artifact(q, id) = IF id \in Reached(p, seed)
                                  THEN Stale(Artifact(p, id))
                                  ELSE Artifact(p, id)
           /\ \A id \in ArtifactIds :
                q.approvals[id] = IF id \in Reached(p, seed) /\ p.approvals[id] # NoDecision
                                  THEN Void ELSE p.approvals[id]
           /\ q.annotations = p.annotations
  <1> DEFINE q == InvalidateFrom(p, seed)
             invalid == Reached(p, seed)
             after(kind, v) == IF <<kind, v>> \in invalid
                               THEN Stale(p.artifacts[kind][v])
                               ELSE p.artifacts[kind][v]
             voided == [id \in ArtifactIds |->
                          IF id \in invalid /\ p.approvals[id] # NoDecision
                          THEN Void ELSE p.approvals[id]]
  <1>1. /\ p.artifacts \in [Kinds -> Seq(ArtifactRecords(texts))]
        /\ p.approvals \in [ArtifactIds -> Decisions]
        /\ p.annotations \in SUBSET ArtifactIds
    BY DEF ProjectRecords
  <1>2. /\ q.artifacts = [kind \in Kinds |-> [v \in DOMAIN p.artifacts[kind] |-> after(kind, v)]]
        /\ q.approvals = voided
        /\ q.annotations = p.annotations
        /\ q = [artifacts |-> q.artifacts, approvals |-> q.approvals, annotations |-> q.annotations]
    BY DEF InvalidateFrom
  <1>3. ASSUME NEW kind \in Kinds
        PROVE  /\ q.artifacts[kind] \in Seq(ArtifactRecords(texts))
               /\ Len(q.artifacts[kind]) = Len(p.artifacts[kind])
               /\ DOMAIN q.artifacts[kind] = DOMAIN p.artifacts[kind]
    <2> DEFINE s == p.artifacts[kind]
    <2>1. s \in Seq(ArtifactRecords(texts)) /\ DOMAIN s = 1..Len(s) /\ Len(s) \in Nat
      BY <1>1, LenProperties
    <2>2. \A v \in 1..Len(s) : after(kind, v) \in ArtifactRecords(texts)
      BY <2>1, StaleRecord
    <2>3. q.artifacts[kind] = [v \in 1..Len(s) |-> after(kind, v)]
      BY <1>2, <2>1
    <2>4. q.artifacts[kind] \in [1..Len(s) -> ArtifactRecords(texts)]
      BY <2>2, <2>3
    <2> HIDE DEF s
    <2>5. q.artifacts[kind] \in Seq(ArtifactRecords(texts))
      BY <2>1, <2>4, SeqDef
    <2>6. DOMAIN q.artifacts[kind] = 1..Len(s)
      BY <2>4
    <2> QED  BY <2>1, <2>5, <2>6, LenProperties DEF s
  <1>4. q.approvals \in [ArtifactIds -> Decisions]
    BY <1>1, <1>2 DEF Decisions
  <1>5. q \in ProjectRecords(texts)
    BY <1>1, <1>2, <1>3, <1>4 DEF ProjectRecords
  <1>6. Ids(q) = Ids(p)
    BY <1>3 DEF Ids, ArtifactIds
  <1>7. ASSUME NEW id \in Ids(p)
        PROVE  Artifact(q, id) = IF id \in invalid
                                 THEN Stale(Artifact(p, id))
                                 ELSE Artifact(p, id)
    <2>1. id = <<id[1], id[2]>> /\ id[1] \in Kinds /\ id[2] \in DOMAIN p.artifacts[id[1]]
      BY DEF Ids, ArtifactIds
    <2>2. q.artifacts[id[1]][id[2]] = after(id[1], id[2])
      BY <2>1, <1>2
    <2> QED  BY <2>1, <2>2 DEF Artifact
  <1> QED  BY <1>2, <1>3, <1>5, <1>6, <1>7

\* An existing id points into the sequence of its kind.
LEMMA IdsOfProject ==
    ASSUME NEW texts, NEW p \in ProjectRecords(texts), NEW id \in Ids(p)
    PROVE  /\ id[1] \in Kinds
           /\ id[2] \in 1..MaxVersions
           /\ id \in ArtifactIds
           /\ id = <<id[1], id[2]>>
           /\ Len(p.artifacts[id[1]]) \in Nat
           /\ id[2] \in 1..Len(p.artifacts[id[1]])
           /\ id[2] \in DOMAIN p.artifacts[id[1]]
           /\ Artifact(p, id) = p.artifacts[id[1]][id[2]]
           /\ Artifact(p, id) \in ArtifactRecords(texts)
  <1>1. /\ id[1] \in Kinds /\ id[2] \in 1..MaxVersions /\ id \in ArtifactIds
        /\ id = <<id[1], id[2]>> /\ id[2] \in DOMAIN p.artifacts[id[1]]
    BY DEF Ids, ArtifactIds
  <1>2. p.artifacts[id[1]] \in Seq(ArtifactRecords(texts))
    BY <1>1 DEF ProjectRecords
  <1>3. /\ Len(p.artifacts[id[1]]) \in Nat
        /\ p.artifacts[id[1]] \in [1..Len(p.artifacts[id[1]]) -> ArtifactRecords(texts)]
        /\ DOMAIN p.artifacts[id[1]] = 1..Len(p.artifacts[id[1]])
    BY <1>2, LenProperties
  <1> QED  BY <1>1, <1>3 DEF Artifact

\* Conversely.
LEMMA VersionIsId ==
    ASSUME NEW texts, NEW p, Typed(p, texts), NEW kind \in Kinds, NEW v \in DOMAIN p.artifacts[kind]
    PROVE  /\ <<kind, v>> \in Ids(p)
           /\ Artifact(p, <<kind, v>>) = p.artifacts[kind][v]
  <1>1. p.artifacts[kind] \in Seq(ArtifactRecords(texts))
    BY DEF Typed, ProjectRecords
  <1>2. /\ Len(p.artifacts[kind]) \in Nat
        /\ DOMAIN p.artifacts[kind] = 1..Len(p.artifacts[kind])
    BY <1>1, LenProperties
  <1>3. v \in 1..MaxVersions
    BY <1>2 DEF Typed
  <1> QED  BY <1>3 DEF Ids, ArtifactIds, Artifact

\* Invalidation keeps everything but, perhaps, the source alive.
LEMMA InvalidateFromKeepsBase ==
    ASSUME NEW texts, NEW p, Base(p, texts), NEW seed
    PROVE  Base(InvalidateFrom(p, seed), texts)
  <1> DEFINE q == InvalidateFrom(p, seed)
             invalid == Reached(p, seed)
  <1>1. p \in ProjectRecords(texts)
    BY DEF Base, Typed
  <1>2. /\ q \in ProjectRecords(texts)
        /\ \A kind \in Kinds : Len(q.artifacts[kind]) = Len(p.artifacts[kind])
        /\ Ids(q) = Ids(p)
        /\ \A id \in Ids(p) :
             Artifact(q, id) = IF id \in invalid THEN Stale(Artifact(p, id)) ELSE Artifact(p, id)
        /\ \A id \in ArtifactIds :
             q.approvals[id] = IF id \in invalid /\ p.approvals[id] # NoDecision
                               THEN Void ELSE p.approvals[id]
    BY <1>1, InvalidateFromProject
  <1> HIDE DEF q
  <1>3. \A id \in Ids(p) :
          /\ Artifact(q, id).upstream = Artifact(p, id).upstream
          /\ Artifact(q, id).lineage = Artifact(p, id).lineage
          /\ Artifact(q, id).state = IF id \in invalid THEN Invalidated ELSE Artifact(p, id).state
    BY <1>1, <1>2, IdsOfProject, StaleRecord
  <1>4. Typed(q, texts)
    BY <1>2 DEF Base, Typed
  <1>5. LineageClosed(q)
    BY <1>2, <1>3 DEF Base, LineageClosed
  <1>6. SourceIsRoot(q)
    BY <1>2, <1>3 DEF Base, SourceIsRoot
  <1>7. NewestOnly(q)
    <2> SUFFICES ASSUME NEW kind \in Kinds \ {RuntimeEvidence},
                        NEW v \in DOMAIN q.artifacts[kind],
                        q.artifacts[kind][v].state = Live
                 PROVE  v = Len(q.artifacts[kind])
      BY DEF NewestOnly
    <2>1. <<kind, v>> \in Ids(q) /\ Artifact(q, <<kind, v>>).state = Live
      BY <1>4, VersionIsId
    <2>2. Artifact(p, <<kind, v>>).state = Live
      BY <2>1, <1>2, <1>3 DEF Live, Invalidated
    <2>3. v \in DOMAIN p.artifacts[kind] /\ p.artifacts[kind][v].state = Live
      BY <2>1, <2>2, <1>1, <1>2, IdsOfProject
    <2> QED  BY <2>3, <1>2 DEF Base, NewestOnly
  <1>8. DecisionsFollow(q)
    <2> SUFFICES ASSUME NEW id \in ArtifactIds
                 PROVE  /\ q.approvals[id] # NoDecision => id \in Ids(q)
                        /\ id \in Ids(q) =>
                             \/ q.approvals[id] = NoDecision
                             \/ (q.approvals[id] = Void) <=> (Artifact(q, id).state = Invalidated)
      BY DEF DecisionsFollow
    <2>1. /\ p.approvals[id] # NoDecision => id \in Ids(p)
          /\ id \in Ids(p) =>
               \/ p.approvals[id] = NoDecision
               \/ (p.approvals[id] = Void) <=> (Artifact(p, id).state = Invalidated)
      BY DEF Base, DecisionsFollow
    <2> QED  BY <2>1, <1>2, <1>3 DEF Void, NoDecision
  <1> QED  BY <1>4, <1>5, <1>6, <1>7, <1>8 DEF Base, q

\* What Appended changes: one new live version whose lineage is read off refs.
LEMMA AppendedProject ==
    ASSUME NEW texts, NEW p, Typed(p, texts), NEW kind \in Kinds, NEW content \in texts,
           NEW refs \in SUBSET Ids(p),
           Len(p.artifacts[kind]) < MaxVersions
    PROVE  LET q == Appended(p, kind, content, refs)
               new == <<kind, Len(p.artifacts[kind]) + 1>>
           IN  /\ Typed(q, texts)
               /\ Ids(q) = Ids(p) \cup {new}
               /\ new \notin Ids(p)
               /\ new \in ArtifactIds
               /\ Artifact(q, new).content = content
               /\ Artifact(q, new).upstream = refs
               /\ Artifact(q, new).lineage = refs \cup UNION {Artifact(p, r).lineage : r \in refs}
               /\ Artifact(q, new).state = Live
               /\ \A id \in Ids(p) : Artifact(q, id) = Artifact(p, id)
               /\ q.approvals = p.approvals
               /\ q.annotations = p.annotations
               /\ Len(q.artifacts[kind]) = Len(p.artifacts[kind]) + 1
               /\ \A k \in Kinds \ {kind} : q.artifacts[k] = p.artifacts[k]
  <1> DEFINE q == Appended(p, kind, content, refs)
             new == <<kind, Len(p.artifacts[kind]) + 1>>
             s == p.artifacts[kind]
             lineage == refs \cup UNION {Artifact(p, r).lineage : r \in refs}
             record == NewVersion(p, content, refs)
  <1>1. /\ p.artifacts \in [Kinds -> Seq(ArtifactRecords(texts))]
        /\ p.approvals \in [ArtifactIds -> Decisions]
        /\ p.annotations \in SUBSET ArtifactIds
        /\ p = [artifacts |-> p.artifacts, approvals |-> p.approvals, annotations |-> p.annotations]
    BY DEF Typed, ProjectRecords
  <1>2. record \in ArtifactRecords(texts)
    <2>1. \A r \in refs : r \in ArtifactIds /\ Artifact(p, r).lineage \subseteq ArtifactIds
      BY IdsOfProject DEF Typed, ArtifactRecords
    <2>2. lineage \subseteq ArtifactIds /\ refs \subseteq ArtifactIds
      BY <2>1
    <2> QED  BY <2>2 DEF ArtifactRecords, NewVersion
  <1>3. /\ s \in Seq(ArtifactRecords(texts))
        /\ Len(s) \in Nat
        /\ DOMAIN s = 1..Len(s)
        /\ Append(s, record) \in Seq(ArtifactRecords(texts))
        /\ Len(Append(s, record)) = Len(s) + 1
        /\ DOMAIN Append(s, record) = 1..(Len(s) + 1)
        /\ Append(s, record)[Len(s) + 1] = record
        /\ \A v \in 1..Len(s) : Append(s, record)[v] = s[v]
    BY <1>1, <1>2, LenProperties, AppendProperties
  <1> DEFINE longer == [p.artifacts EXCEPT ![kind] = Append(s, record)]
  <1>4. q = [p EXCEPT !.artifacts = longer]
    BY DEF Appended
  <1>4a. longer \in [Kinds -> Seq(ArtifactRecords(texts))]
    BY <1>1, <1>3
  <1>4b. longer[kind] = Append(s, record) /\ \A k \in Kinds \ {kind} : longer[k] = p.artifacts[k]
    BY <1>1
  <1>4c. \A f \in [Kinds -> Seq(ArtifactRecords(texts))] :
            /\ [p EXCEPT !.artifacts = f] \in ProjectRecords(texts)
            /\ [p EXCEPT !.artifacts = f].artifacts = f
            /\ [p EXCEPT !.artifacts = f].approvals = p.approvals
            /\ [p EXCEPT !.artifacts = f].annotations = p.annotations
    BY DEF Typed, ProjectRecords
  <1> HIDE DEF q, longer
  <1>5. /\ q.artifacts[kind] = Append(s, record)
        /\ \A k \in Kinds \ {kind} : q.artifacts[k] = p.artifacts[k]
        /\ q.approvals = p.approvals
        /\ q.annotations = p.annotations
        /\ q \in ProjectRecords(texts)
    BY <1>4, <1>4a, <1>4b, <1>4c
  <1>6. Typed(q, texts)
    BY <1>3, <1>5 DEF Typed
  <1>7. new \in ArtifactIds
    BY <1>3 DEF ArtifactIds
  <1>8. Ids(q) = Ids(p) \cup {new} /\ new \notin Ids(p)
    <2>1. \A id \in ArtifactIds : id[1] \in Kinds /\ id = <<id[1], id[2]>> /\ id[2] \in 1..MaxVersions
      BY DEF ArtifactIds
    <2>2. \A id \in ArtifactIds :
            id[2] \in DOMAIN q.artifacts[id[1]] <=> id[2] \in DOMAIN p.artifacts[id[1]] \/ id = new
      BY <2>1, <1>3, <1>5
    <2>3. ~(new[2] \in DOMAIN p.artifacts[new[1]])
      BY <1>3
    <2> QED  BY <2>2, <2>3, <1>7 DEF Ids
  <1>9. Artifact(q, new) = record
    BY <1>3, <1>5 DEF Artifact
  <1>10. ASSUME NEW id \in Ids(p)
         PROVE  Artifact(q, id) = Artifact(p, id)
    <2>1. /\ id[1] \in Kinds /\ id[2] \in 1..Len(p.artifacts[id[1]])
          /\ Artifact(p, id) = p.artifacts[id[1]][id[2]]
      BY IdsOfProject DEF Typed
    <2>2. q.artifacts[id[1]][id[2]] = p.artifacts[id[1]][id[2]]
      <3>1. CASE id[1] = kind   BY <2>1, <3>1, <1>3, <1>5
      <3>2. CASE id[1] # kind   BY <2>1, <3>2, <1>5
      <3> QED  BY <3>1, <3>2
    <2> QED  BY <2>1, <2>2 DEF Artifact
  <1>11. /\ record.content = content
         /\ record.upstream = refs
         /\ record.lineage = lineage
         /\ record.state = Live
    BY DEF NewVersion
  <1> QED  BY <1>3, <1>5, <1>6, <1>7, <1>8, <1>9, <1>10, <1>11 DEF q

\* Of a version appended to p only its id is new.
LEMMA AppendedIsNew ==
    ASSUME NEW texts, NEW p, Typed(p, texts), NEW kind \in Kinds, NEW content \in texts,
           NEW refs \in SUBSET Ids(p),
           Len(p.artifacts[kind]) < MaxVersions,
           NEW r, r = Appended(p, kind, content, refs)
    PROVE  /\ Ids(r) = Ids(p) \cup {<<kind, Len(p.artifacts[kind]) + 1>>}
           /\ \A id \in Ids(p) : Artifact(r, id) = Artifact(p, id)
           /\ r.approvals = p.approvals
           /\ r.annotations = p.annotations
  <1> DEFINE q == Appended(p, kind, content, refs)
             new == <<kind, Len(p.artifacts[kind]) + 1>>
  <1>1. /\ Typed(q, texts)
        /\ Ids(q) = Ids(p) \cup {new}
        /\ new \notin Ids(p)
        /\ new \in ArtifactIds
        /\ Artifact(q, new).content = content
        /\ Artifact(q, new).upstream = refs
        /\ Artifact(q, new).lineage = refs \cup UNION {Artifact(p, s).lineage : s \in refs}
        /\ Artifact(q, new).state = Live
        /\ \A id \in Ids(p) : Artifact(q, id) = Artifact(p, id)
        /\ q.approvals = p.approvals
        /\ q.annotations = p.annotations
        /\ Len(q.artifacts[kind]) = Len(p.artifacts[kind]) + 1
        /\ \A k \in Kinds \ {kind} : q.artifacts[k] = p.artifacts[k]
    BY AppendedProject
  <1> QED  BY <1>1

\* The versions of other kinds are left alone.
LEMMA AppendedElsewhere ==
    ASSUME NEW texts, NEW p \in ProjectRecords(texts), NEW kind \in Kinds, NEW content, NEW refs,
           NEW k \in Kinds \ {kind}
    PROVE  Appended(p, kind, content, refs).artifacts[k] = p.artifacts[k]
  <1>1. Appended(p, kind, content, refs) =
          [p EXCEPT !.artifacts =
              [p.artifacts EXCEPT ![kind] = Append(@, NewVersion(p, content, refs))]]
    BY DEF Appended
  <1>2. \A f : [p EXCEPT !.artifacts = f].artifacts = f
    BY DEF ProjectRecords
  <1>3. \A e : [p.artifacts EXCEPT ![kind] = e][k] = p.artifacts[k]
    BY DEF ProjectRecords
  <1> QED  BY <1>1, <1>2, <1>3

\* A version may be appended once no live one of its kind is left.
LEMMA AppendedKeepsBase ==
    ASSUME NEW texts, NEW p, Base(p, texts), NEW kind \in Kinds, NEW content \in texts,
           NEW refs \in SUBSET Ids(p),
           Len(p.artifacts[kind]) < MaxVersions,
           kind = OriginalSpec => refs = {},
           kind # RuntimeEvidence => ~HasCurrent(p, kind)
    PROVE  Base(Appended(p, kind, content, refs), texts)
  <1> DEFINE q == Appended(p, kind, content, refs)
             new == <<kind, Len(p.artifacts[kind]) + 1>>
  <1>1. Typed(p, texts) /\ LineageClosed(p) /\ SourceIsRoot(p) /\ NewestOnly(p) /\ DecisionsFollow(p)
    BY DEF Base
  <1>2. /\ Typed(q, texts)
        /\ Ids(q) = Ids(p) \cup {new}
        /\ new \notin Ids(p)
        /\ new \in ArtifactIds
        /\ Artifact(q, new).upstream = refs
        /\ Artifact(q, new).lineage = refs \cup UNION {Artifact(p, r).lineage : r \in refs}
        /\ Artifact(q, new).state = Live
        /\ \A id \in Ids(p) : Artifact(q, id) = Artifact(p, id)
        /\ q.approvals = p.approvals
        /\ Len(q.artifacts[kind]) = Len(p.artifacts[kind]) + 1
        /\ \A k \in Kinds \ {kind} : q.artifacts[k] = p.artifacts[k]
    BY <1>1, AppendedProject
  <1> HIDE DEF q
  <1>3. LineageClosed(q)
    <2> HIDE DEF new
    <2> DEFINE Closed(id) ==
          /\ Artifact(q, id).upstream \subseteq Artifact(q, id).lineage
          /\ Artifact(q, id).lineage \subseteq Ids(q)
          /\ \A r \in Artifact(q, id).lineage :
               /\ Artifact(q, r).lineage \subseteq Artifact(q, id).lineage
               /\ \/ r \in Artifact(q, id).upstream
                  \/ \E s \in Artifact(q, id).lineage : r \in Artifact(q, s).upstream
    <2>1. ASSUME NEW id \in Ids(p)  PROVE Closed(id)
      <3>1. /\ Artifact(p, id).lineage \subseteq Ids(p)
            /\ Artifact(q, id) = Artifact(p, id)
            /\ \A r \in Artifact(p, id).lineage : Artifact(q, r) = Artifact(p, r)
        BY <1>1, <1>2 DEF LineageClosed
      <3> QED  BY <3>1, <1>1, <1>2 DEF LineageClosed
    <2>2. Closed(new)
      <3>1. ASSUME NEW r \in refs
            PROVE  /\ r \in Ids(p)
                   /\ Artifact(p, r).lineage \subseteq Ids(p)
                   /\ Artifact(q, r) = Artifact(p, r)
                   /\ \A s \in Artifact(p, r).lineage :
                        /\ Artifact(q, s) = Artifact(p, s)
                        /\ Artifact(p, s).lineage \subseteq Artifact(p, r).lineage
                        /\ \/ s \in Artifact(p, r).upstream
                           \/ \E t \in Artifact(p, r).lineage : s \in Artifact(p, t).upstream
        BY <1>1, <1>2 DEF LineageClosed
      <3>2. refs \subseteq Artifact(q, new).lineage
        BY <1>2
      <3>3. \A r \in refs : Artifact(p, r).lineage \subseteq Artifact(q, new).lineage
        BY <1>2
      <3>4. Artifact(q, new).lineage \subseteq Ids(q)
        BY <1>2, <3>1
      <3>5. ASSUME NEW s \in Artifact(q, new).lineage
            PROVE  /\ Artifact(q, s).lineage \subseteq Artifact(q, new).lineage
                   /\ \/ s \in Artifact(q, new).upstream
                      \/ \E t \in Artifact(q, new).lineage : s \in Artifact(q, t).upstream
        <4>1. CASE s \in refs
          BY <4>1, <3>1, <3>3, <1>2
        <4>2. CASE \E r \in refs : s \in Artifact(p, r).lineage
          <5>1. PICK r \in refs : s \in Artifact(p, r).lineage
            BY <4>2
          <5>2. Artifact(q, s).lineage \subseteq Artifact(q, new).lineage
            BY <5>1, <3>1, <3>3
          <5>3. CASE s \in Artifact(p, r).upstream
            BY <5>1, <5>2, <5>3, <3>1, <3>2
          <5>4. CASE \E t \in Artifact(p, r).lineage : s \in Artifact(p, t).upstream
            <6>1. PICK t \in Artifact(p, r).lineage : s \in Artifact(p, t).upstream
              BY <5>4
            <6>2. t \in Artifact(q, new).lineage /\ s \in Artifact(q, t).upstream
              BY <6>1, <3>1, <3>3
            <6> QED  BY <5>2, <6>2
          <5> QED  BY <5>1, <5>3, <5>4, <3>1
        <4> QED  BY <4>1, <4>2, <1>2
      <3> QED  BY <3>2, <3>4, <3>5, <1>2
    <2> QED  BY <1>2, <2>1, <2>2 DEF LineageClosed
  <1>4. SourceIsRoot(q)
    <2>1. kind = OriginalSpec => Artifact(q, new).lineage = {}
      BY <1>2
    <2> QED  BY <1>1, <1>2, <2>1 DEF SourceIsRoot
  <1>5. NewestOnly(q)
    <2> SUFFICES ASSUME NEW k \in Kinds \ {RuntimeEvidence}, NEW v \in DOMAIN q.artifacts[k],
                        q.artifacts[k][v].state = Live
                 PROVE  v = Len(q.artifacts[k])
      BY DEF NewestOnly
    <2>1. CASE k # kind
      BY <2>1, <1>1, <1>2 DEF NewestOnly
    <2>2. CASE k = kind
      <3>1. <<k, v>> \in Ids(q) /\ Artifact(q, <<k, v>>).state = Live
        BY <1>2, VersionIsId
      <3>2. <<k, v>> \notin Ids(p)
        <4>1. SUFFICES ASSUME <<k, v>> \in Ids(p)  PROVE FALSE
          OBVIOUS
        <4>2. v \in DOMAIN p.artifacts[k] /\ p.artifacts[k][v].state = Live
          BY <3>1, <4>1, <1>1, <1>2, IdsOfProject DEF Typed
        <4> QED  BY <2>2, <4>2 DEF HasCurrent, LiveVersions
      <3> QED  BY <2>2, <3>1, <3>2, <1>2
    <2> QED  BY <2>1, <2>2
  <1>6. DecisionsFollow(q)
    <2> SUFFICES ASSUME NEW id \in ArtifactIds
                 PROVE  /\ q.approvals[id] # NoDecision => id \in Ids(q)
                        /\ id \in Ids(q) =>
                             \/ q.approvals[id] = NoDecision
                             \/ (q.approvals[id] = Void) <=> (Artifact(q, id).state = Invalidated)
      BY DEF DecisionsFollow
    <2>1. CASE id \in Ids(p)
      BY <2>1, <1>1, <1>2 DEF DecisionsFollow
    <2>2. CASE id \notin Ids(p)
      BY <2>2, <1>1, <1>2 DEF DecisionsFollow
    <2> QED  BY <2>1, <2>2
  <1> QED  BY <1>2, <1>3, <1>4, <1>5, <1>6 DEF Base, q

\* Sources cite nothing, so only a seed that names one can invalidate it.
LEMMA InvalidateFromKeepsSource ==
    ASSUME NEW texts, NEW p, Base(p, texts), SourceLive(p),
           NEW seed, \A id \in seed \cap Ids(p) : id[1] # OriginalSpec
    PROVE  SourceLive(InvalidateFrom(p, seed))
  <1> DEFINE q == InvalidateFrom(p, seed)
             source == <<OriginalSpec, Len(p.artifacts[OriginalSpec])>>
  <1>1. Typed(p, texts) /\ SourceIsRoot(p) /\ p \in ProjectRecords(texts)
    BY DEF Base, Typed
  <1>2. /\ \A kind \in Kinds : Len(q.artifacts[kind]) = Len(p.artifacts[kind])
        /\ Ids(q) = Ids(p)
        /\ \A id \in Ids(p) :
             Artifact(q, id) = IF id \in Reached(p, seed) THEN Stale(Artifact(p, id)) ELSE Artifact(p, id)
        /\ q \in ProjectRecords(texts)
    BY <1>1, InvalidateFromProject
  <1>3. p.artifacts[OriginalSpec] \in Seq(ArtifactRecords(texts))
    BY <1>1 DEF ProjectRecords
  <1>4. /\ Len(p.artifacts[OriginalSpec]) \in Nat
        /\ Len(p.artifacts[OriginalSpec]) \in DOMAIN p.artifacts[OriginalSpec]
    BY <1>3, LenProperties DEF SourceLive
  <1>5. source \in Ids(p) /\ Artifact(p, source).state = Live
    BY <1>1, <1>4, VersionIsId DEF SourceLive
  <1>6. source \notin Reached(p, seed)
    BY <1>1, <1>5 DEF Reached, SourceIsRoot
  <1>7. source \in Ids(q) /\ Artifact(q, source).state = Live
    BY <1>2, <1>5, <1>6
  <1> HIDE DEF q
  <1>8. q.artifacts[OriginalSpec][Len(p.artifacts[OriginalSpec])].state = Live
    BY <1>7, <1>2, IdsOfProject
  <1> QED  BY <1>2, <1>4, <1>8 DEF SourceLive, q

\* Project.current of a kind with a single live version is its newest one.
LEMMA CurrentIsNewest ==
    ASSUME NEW texts, NEW p, Base(p, texts), NEW kind \in Kinds \ {RuntimeEvidence}, HasCurrent(p, kind)
    PROVE  /\ Current(p, kind) = <<kind, Len(p.artifacts[kind])>>
           /\ LiveVersions(p, kind) = {Len(p.artifacts[kind])}
           /\ IsLive(p, Current(p, kind))
  <1>1. p.artifacts[kind] \in Seq(ArtifactRecords(texts)) /\ Typed(p, texts)
    BY DEF Base, Typed, ProjectRecords
  <1>2. Len(p.artifacts[kind]) \in Nat
    BY <1>1, LenProperties
  <1>3. LiveVersions(p, kind) = {Len(p.artifacts[kind])}
    BY DEF Base, NewestOnly, LiveVersions, HasCurrent
  <1>4. Current(p, kind) = <<kind, Len(p.artifacts[kind])>>
    BY <1>2, <1>3 DEF Current
  <1>5. IsLive(p, Current(p, kind))
    BY <1>1, <1>3, <1>4, VersionIsId DEF IsLive, LiveVersions
  <1> QED  BY <1>3, <1>4, <1>5

\* Once its current version is invalidated a kind has no live version.
LEMMA SupersededIsGone ==
    ASSUME NEW texts, NEW p, Base(p, texts), NEW kind \in Kinds \ {RuntimeEvidence}, HasCurrent(p, kind)
    PROVE  ~HasCurrent(InvalidateFrom(p, {Current(p, kind)}), kind)
  <1> DEFINE seed == {Current(p, kind)}
             q == InvalidateFrom(p, seed)
  <1>1. /\ Current(p, kind) = <<kind, Len(p.artifacts[kind])>>
        /\ Current(p, kind) \in Ids(p)
    BY CurrentIsNewest DEF IsLive
  <1>2. p \in ProjectRecords(texts)
    BY DEF Base, Typed
  <1>3. /\ Artifact(q, Current(p, kind)) = Stale(Artifact(p, Current(p, kind)))
        /\ Len(q.artifacts[kind]) = Len(p.artifacts[kind])
        /\ Ids(q) = Ids(p)
    BY <1>1, <1>2, InvalidateFromProject DEF Reached
  <1>4. Artifact(q, Current(p, kind)).state = Invalidated
    BY <1>1, <1>2, <1>3, StaleRecord, IdsOfProject
  <1>5. Base(q, texts)
    BY InvalidateFromKeepsBase
  <1> HIDE DEF q
  <1>6. q.artifacts[kind][Len(q.artifacts[kind])].state = Invalidated
    BY <1>1, <1>3, <1>4, <1>5, IdsOfProject DEF Base, Typed
  <1>7. \A v \in DOMAIN q.artifacts[kind] : q.artifacts[kind][v].state # Live
    BY <1>5, <1>6 DEF Base, NewestOnly, Live, Invalidated
  <1> QED  BY <1>7 DEF HasCurrent, LiveVersions, q

-----------------------------------------------------------------------------
\* One lemma per transition of a project.

\* A new project has no artifact but its source.
LEMMA NewProjectKeepsInv ==
    ASSUME NEW texts, NEW content \in texts, NEW p, p = NewProject(content)
    PROVE  /\ Base(p, texts)
           /\ SourceLive(p)
           /\ Ids(p) = {<<OriginalSpec, 1>>}
  <1> DEFINE first == [content |-> content, upstream |-> {}, lineage |-> {}, state |-> Live]
             source == <<OriginalSpec, 1>>
  <1>1. first \in ArtifactRecords(texts)
    BY DEF ArtifactRecords
  <1>2. /\ p.artifacts = [kind \in Kinds |-> IF kind = OriginalSpec THEN <<first>> ELSE <<>>]
        /\ p.approvals = [id \in ArtifactIds |-> NoDecision]
        /\ p.annotations = {}
    BY DEF NewProject
  <1>3. p = [artifacts |-> p.artifacts, approvals |-> p.approvals,
                   annotations |-> p.annotations]
    BY DEF NewProject
  <1> HIDE DEF first
  <1>4. /\ p.artifacts[OriginalSpec] = <<first>>
        /\ \A kind \in Kinds \ {OriginalSpec} : p.artifacts[kind] = <<>>
        /\ p.artifacts \in [Kinds -> Seq(ArtifactRecords(texts))]
    BY <1>1, <1>2
  <1>4a. /\ Len(p.artifacts[OriginalSpec]) = 1
         /\ DOMAIN p.artifacts[OriginalSpec] = {1}
         /\ p.artifacts[OriginalSpec][1] = first
         /\ \A kind \in Kinds \ {OriginalSpec} :
              Len(p.artifacts[kind]) = 0 /\ DOMAIN p.artifacts[kind] = {}
    BY <1>4
  <1>5. Typed(p, texts)
    <2>1. p.approvals \in [ArtifactIds -> Decisions]
      BY <1>2 DEF Decisions
    <2>2. p \in ProjectRecords(texts)
      BY <2>1, <1>2, <1>3, <1>4 DEF ProjectRecords
    <2>3. ASSUME NEW kind \in Kinds
          PROVE  Len(p.artifacts[kind]) <= MaxVersions
      <3>1. CASE kind = OriginalSpec   BY <3>1, <1>4a
      <3>2. CASE kind # OriginalSpec   BY <3>2, <1>4a
      <3> QED  BY <3>1, <3>2
    <2> QED  BY <2>2, <2>3 DEF Typed
  <1>6. Ids(p) = {source} /\ Artifact(p, source) = first
    BY <1>4 DEF Ids, ArtifactIds, Artifact
  <1>7. first.upstream = {} /\ first.lineage = {} /\ first.state = Live
    BY DEF first
  <1>8. LineageClosed(p) /\ SourceIsRoot(p)
    BY <1>6, <1>7 DEF LineageClosed, SourceIsRoot
  <1>9. NewestOnly(p) /\ SourceLive(p)
    <2>1. ASSUME NEW kind \in Kinds, NEW v \in DOMAIN p.artifacts[kind]
          PROVE  v = Len(p.artifacts[kind])
      <3>1. CASE kind = OriginalSpec   BY <3>1, <1>4a
      <3>2. CASE kind # OriginalSpec   BY <3>2, <1>4a
      <3> QED  BY <3>1, <3>2
    <2> QED  BY <2>1, <1>4a, <1>7 DEF NewestOnly, SourceLive
  <1>10. DecisionsFollow(p)
    BY <1>2 DEF DecisionsFollow
  <1> QED  BY <1>5, <1>6, <1>8, <1>9, <1>10 DEF Base

\* So its layers are trivial.
LEMMA NewProjectKeepsLayers ==
    ASSUME NEW texts, NEW rank, NEW content \in texts, NEW p, p = NewProject(content)
    PROVE  Layered(p, rank, texts)
  <1>1. Base(p, texts) /\ Ids(p) = {<<OriginalSpec, 1>>}
    BY NewProjectKeepsInv
  <1>2. \A id \in Ids(p) : Artifact(p, id).lineage = {}
    BY <1>1 DEF Base, SourceIsRoot
  <1>3. \A id \in Ids(p) : Artifact(p, id).upstream = {}
    BY <1>1, <1>2 DEF Base, LineageClosed
  <1> QED  BY <1>1, <1>2, <1>3 DEF Layered, Ranked, InputsLive

\* A derived artifact, evidence or not, keeps the invariant.
LEMMA AddDerivedKeepsInv ==
    ASSUME NEW texts, NEW p, Base(p, texts), SourceLive(p),
           NEW kind \in Kinds \ {OriginalSpec}, NEW content \in texts,
           NEW refs, CanAddDerived(p, kind, refs)
    PROVE  /\ Base(AddDerived(p, kind, content, refs), texts)
           /\ SourceLive(AddDerived(p, kind, content, refs))
  <1> DEFINE superseded == kind # RuntimeEvidence /\ HasCurrent(p, kind)
             kept == IF superseded THEN InvalidateFrom(p, {Current(p, kind)}) ELSE p
             r == Appended(kept, kind, content, refs)
  <1>1. Base(kept, texts) /\ SourceLive(kept)
    <2>1. CASE superseded
      <3>1. Current(p, kind)[1] = kind
        BY <2>1, CurrentIsNewest
      <3> QED  BY <2>1, <3>1, InvalidateFromKeepsBase, InvalidateFromKeepsSource
    <2> QED  BY <2>1
  <1>2. /\ Len(kept.artifacts[kind]) = Len(p.artifacts[kind])
        /\ Ids(kept) = Ids(p)
    BY InvalidateFromProject DEF Base, Typed
  <1>3. refs \in SUBSET Ids(kept) /\ Len(kept.artifacts[kind]) < MaxVersions
    BY <1>2 DEF CanAddDerived, IsLive
  <1>4. kind # RuntimeEvidence => ~HasCurrent(kept, kind)
    BY SupersededIsGone
  <1> HIDE DEF kept
  <1>5. Base(r, texts)
    BY <1>1, <1>3, <1>4, AppendedKeepsBase
  <1>6. \A k \in Kinds \ {kind} : r.artifacts[k] = kept.artifacts[k]
    <2>1. kept \in ProjectRecords(texts)
      BY <1>1 DEF Base, Typed
    <2> QED  BY <2>1, AppendedElsewhere
  <1>7. SourceLive(r)
    BY <1>1, <1>6 DEF SourceLive
  <1> QED  BY <1>5, <1>7 DEF AddDerived, kept

\* Recording a decision on a live artifact, before any cascade.
LEMMA DecideApprovals ==
    ASSUME NEW texts, NEW p, Base(p, texts), NEW id, CanDecide(p, id), NEW decision \in ReviewDecisions
    PROVE  LET q == [p EXCEPT !.approvals[id] = decision] IN
           /\ Base(q, texts)
           /\ q.artifacts = p.artifacts
           /\ q.approvals = [p.approvals EXCEPT ![id] = decision]
           /\ q.annotations = p.annotations
  <1> DEFINE q == [p EXCEPT !.approvals[id] = decision]
  <1>1. Typed(p, texts) /\ LineageClosed(p) /\ SourceIsRoot(p) /\ NewestOnly(p) /\ DecisionsFollow(p)
        /\ p \in ProjectRecords(texts)
    BY DEF Base, Typed
  <1>2. id \in Ids(p) /\ id \in ArtifactIds /\ Artifact(p, id).state = Live
    BY <1>1, IdsOfProject DEF CanDecide, IsLive
  <1>3. /\ q \in ProjectRecords(texts)
        /\ q.artifacts = p.artifacts
        /\ q.approvals = [p.approvals EXCEPT ![id] = decision]
        /\ q.annotations = p.annotations
    BY <1>1 DEF ProjectRecords, Decisions
  <1> HIDE DEF q
  <1>4. /\ Ids(q) = Ids(p)
        /\ \A other : Artifact(q, other) = Artifact(p, other)
    BY <1>3 DEF Ids, Artifact
  <1>5. DecisionsFollow(q)
    <2> SUFFICES ASSUME NEW other \in ArtifactIds
                 PROVE  /\ q.approvals[other] # NoDecision => other \in Ids(q)
                        /\ other \in Ids(q) =>
                             \/ q.approvals[other] = NoDecision
                             \/ (q.approvals[other] = Void) <=> (Artifact(q, other).state = Invalidated)
      BY DEF DecisionsFollow
    <2>1. CASE other = id
      <3>1. q.approvals[other] = decision
        BY <2>1, <1>1, <1>3 DEF ProjectRecords
      <3> QED  BY <2>1, <3>1, <1>2, <1>4
               DEF ReviewDecisions, Void, Approved, Withheld, Live, Invalidated
    <2>2. CASE other # id
      <3>1. q.approvals[other] = p.approvals[other]
        BY <2>2, <1>1, <1>3 DEF ProjectRecords
      <3> QED  BY <3>1, <1>1, <1>4 DEF DecisionsFollow
    <2> QED  BY <2>1, <2>2
  <1>6. Base(q, texts)
    BY <1>1, <1>3, <1>4, <1>5 DEF Base, Typed, LineageClosed, SourceIsRoot, NewestOnly
  <1> QED  BY <1>3, <1>6 DEF q

\* So does a decision, with the cascade of a withdrawn approval.
LEMMA DecideKeepsInv ==
    ASSUME NEW texts, NEW p, Base(p, texts), SourceLive(p),
           NEW id, CanDecide(p, id), NEW decision \in ReviewDecisions
    PROVE  /\ Base(Decide(p, id, decision), texts)
           /\ SourceLive(Decide(p, id, decision))
  <1> DEFINE q == [p EXCEPT !.approvals[id] = decision]
  <1>1. Base(q, texts) /\ q.artifacts = p.artifacts
    BY DecideApprovals
  <1> HIDE DEF q
  <1>2. SourceLive(q)
    BY <1>1 DEF SourceLive
  <1>3. \A other \in DirectDependents(q, id) \cap Ids(q) : other[1] # OriginalSpec
    BY <1>1 DEF DirectDependents, Base, LineageClosed, SourceIsRoot
  <1>4. Base(InvalidateFrom(q, DirectDependents(q, id)), texts)
    BY <1>1, InvalidateFromKeepsBase
  <1>5. SourceLive(InvalidateFrom(q, DirectDependents(q, id)))
    BY <1>1, <1>2, <1>3, InvalidateFromKeepsSource
  <1> QED  BY <1>1, <1>2, <1>4, <1>5 DEF Decide, q

\* A comment touches nothing the invariant is about.
LEMMA AnnotateKeepsInv ==
    ASSUME NEW texts, NEW p, Base(p, texts), SourceLive(p), NEW id, CanAnnotate(p, id)
    PROVE  /\ Base(Annotate(p, id), texts)
           /\ SourceLive(Annotate(p, id))
  <1> DEFINE q == Annotate(p, id)
  <1>1. p \in ProjectRecords(texts) /\ id \in ArtifactIds
    BY IdsOfProject DEF Base, Typed, CanAnnotate, IsLive
  <1>2. q \in ProjectRecords(texts) /\ q.artifacts = p.artifacts /\ q.approvals = p.approvals
    BY <1>1 DEF Annotate, ProjectRecords
  <1> HIDE DEF q
  <1>3. /\ Ids(q) = Ids(p)
        /\ \A other : Artifact(q, other) = Artifact(p, other)
    BY <1>2 DEF Ids, Artifact
  <1> QED  BY <1>2, <1>3
           DEF Base, Typed, LineageClosed, SourceIsRoot, NewestOnly, DecisionsFollow, SourceLive, q

\* A new source takes the place of the one it invalidates.
LEMMA ReplaceSourceKeepsInv ==
    ASSUME NEW texts, NEW p, Base(p, texts), SourceLive(p), CanReplaceSource(p), NEW content \in texts
    PROVE  /\ Base(ReplaceSource(p, content), texts)
           /\ SourceLive(ReplaceSource(p, content))
  <1> DEFINE source == Current(p, OriginalSpec)
             q == InvalidateFrom(p, {source})
             r == Appended(q, OriginalSpec, content, {})
  <1>1. OriginalSpec \in Kinds \ {RuntimeEvidence} /\ HasCurrent(p, OriginalSpec)
    BY DEF OriginalSpec, RuntimeEvidence, CanReplaceSource
  <1>2. Base(q, texts) /\ ~HasCurrent(q, OriginalSpec)
    BY <1>1, InvalidateFromKeepsBase, SupersededIsGone
  <1>3. Len(q.artifacts[OriginalSpec]) < MaxVersions
    BY InvalidateFromProject DEF Base, Typed, CanReplaceSource
  <1> HIDE DEF q
  <1>4. Base(r, texts)
    BY <1>2, <1>3, AppendedKeepsBase
  <1>5. /\ <<OriginalSpec, Len(q.artifacts[OriginalSpec]) + 1>> \in Ids(r)
        /\ Artifact(r, <<OriginalSpec, Len(q.artifacts[OriginalSpec]) + 1>>).state = Live
        /\ Len(r.artifacts[OriginalSpec]) = Len(q.artifacts[OriginalSpec]) + 1
    BY <1>2, <1>3, AppendedProject DEF Base
  <1>6. r.artifacts[OriginalSpec][Len(r.artifacts[OriginalSpec])].state = Live
    BY <1>5 DEF Artifact
  <1>7. Len(r.artifacts[OriginalSpec]) > 0
    BY <1>4, <1>5, IdsOfProject DEF Base, Typed
  <1> QED  BY <1>4, <1>6, <1>7 DEF ReplaceSource, SourceLive, q

-----------------------------------------------------------------------------
(***************************************************************************)
(* Live artifacts have live inputs, when what an artifact cites is of a    *)
(* lower rank than its own kind.                                           *)
(***************************************************************************)
\* The cascade leaves nothing live above an invalidated artifact.
LEMMA InvalidateFromKeepsLayers ==
    ASSUME NEW texts, NEW p, NEW rank \in [Kinds -> Nat], Layered(p, rank, texts), NEW seed
    PROVE  Layered(InvalidateFrom(p, seed), rank, texts)
  <1> DEFINE q == InvalidateFrom(p, seed)
             invalid == Reached(p, seed)
  <1>1. p \in ProjectRecords(texts) /\ LineageClosed(p)
    BY DEF Layered, Base, Typed
  <1>2. /\ Ids(q) = Ids(p)
        /\ \A id \in Ids(p) :
             Artifact(q, id) = IF id \in invalid THEN Stale(Artifact(p, id)) ELSE Artifact(p, id)
    BY <1>1, InvalidateFromProject
  <1>3. Base(q, texts)
    BY InvalidateFromKeepsBase DEF Layered
  <1> HIDE DEF q
  <1>4. \A id \in Ids(p) :
          /\ Artifact(q, id).upstream = Artifact(p, id).upstream
          /\ Artifact(q, id).lineage = Artifact(p, id).lineage
          /\ Artifact(q, id).state = IF id \in invalid THEN Invalidated ELSE Artifact(p, id).state
    BY <1>1, <1>2, IdsOfProject, StaleRecord
  <1>5. Ranked(q, rank)
    BY <1>2, <1>4 DEF Layered, Ranked
  <1>6. InputsLive(q)
    <2> SUFFICES ASSUME NEW id \in Ids(q), IsLive(q, id), NEW r \in Artifact(q, id).upstream
                 PROVE  IsLive(q, r)
      BY DEF InputsLive
    <2>1. id \in Ids(p) /\ IsLive(p, id) /\ id \notin invalid /\ r \in Artifact(p, id).upstream
      BY <1>2, <1>4 DEF IsLive, Live, Invalidated
    <2>2. IsLive(p, r)
      BY <2>1 DEF Layered, InputsLive
    <2>3. r \in Artifact(p, id).lineage /\ Artifact(p, r).lineage \subseteq Artifact(p, id).lineage
      BY <2>1, <1>1 DEF LineageClosed
    <2>4. r \notin invalid
      BY <2>1, <2>3 DEF Reached
    <2> QED  BY <2>2, <2>4, <1>2, <1>4 DEF IsLive
  <1> QED  BY <1>3, <1>5, <1>6 DEF Layered, q

\* A version that cites live artifacts of lower ranks keeps the layers.
LEMMA AppendedKeepsLayers ==
    ASSUME NEW texts, NEW p, NEW rank \in [Kinds -> Nat], Layered(p, rank, texts),
           NEW kind \in Kinds, NEW content \in texts, NEW refs \in SUBSET Ids(p),
           \A r \in refs : IsLive(p, r) /\ rank[r[1]] < rank[kind],
           Len(p.artifacts[kind]) < MaxVersions,
           kind = OriginalSpec => refs = {},
           kind # RuntimeEvidence => ~HasCurrent(p, kind)
    PROVE  Layered(Appended(p, kind, content, refs), rank, texts)
  <1> DEFINE q == Appended(p, kind, content, refs)
             new == <<kind, Len(p.artifacts[kind]) + 1>>
  <1>1. Typed(p, texts) /\ LineageClosed(p) /\ Base(p, texts)
    BY DEF Layered, Base
  <1>2. /\ Ids(q) = Ids(p) \cup {new}
        /\ Artifact(q, new).upstream = refs
        /\ Artifact(q, new).lineage = refs \cup UNION {Artifact(p, r).lineage : r \in refs}
        /\ \A id \in Ids(p) : Artifact(q, id) = Artifact(p, id)
    BY <1>1, AppendedProject
  <1>3. Base(q, texts)
    BY <1>1, AppendedKeepsBase
  <1> HIDE DEF q
  <1>4. Ranked(q, rank)
    <2>1. ASSUME NEW s \in Artifact(q, new).lineage  PROVE rank[s[1]] < rank[kind]
      <3>1. CASE s \in refs
        BY <3>1
      <3>2. ASSUME NEW r \in refs, s \in Artifact(p, r).lineage
            PROVE  rank[s[1]] < rank[kind]
        <4>1. rank[s[1]] < rank[r[1]] /\ rank[r[1]] < rank[kind]
          BY <3>2 DEF Layered, Ranked
        <4>2. s \in Ids(p) /\ r \in Ids(p)
          BY <3>2, <1>1 DEF LineageClosed
        <4>3. s[1] \in Kinds /\ r[1] \in Kinds
          BY <4>2, <1>1, IdsOfProject DEF Typed
        <4> QED  BY <4>1, <4>3
      <3> QED  BY <3>1, <3>2, <1>2
    <2>2. new[1] = kind
      OBVIOUS
    <2> HIDE DEF new
    <2> QED  BY <2>1, <2>2, <1>2 DEF Layered, Ranked
  <1>5. InputsLive(q)
    <2> HIDE DEF new
    <2>1. \A r \in Ids(p) : IsLive(p, r) <=> IsLive(q, r)
      BY <1>2 DEF IsLive
    <2>2. \A id \in Ids(p) : Artifact(p, id).upstream \subseteq Ids(p)
      BY <1>1 DEF LineageClosed
    <2>3. ASSUME NEW id \in Ids(p), IsLive(q, id), NEW r \in Artifact(q, id).upstream
          PROVE  IsLive(q, r)
      BY <2>1, <2>2, <2>3, <1>2 DEF Layered, InputsLive
    <2> QED  BY <2>1, <2>3, <1>2 DEF InputsLive
  <1> QED  BY <1>3, <1>4, <1>5 DEF Layered, q

\* What a staged artifact cites survives the superseding of its own kind.
LEMMA AddDerivedKeepsLayers ==
    ASSUME NEW texts, NEW p, NEW rank \in [Kinds -> Nat], Layered(p, rank, texts),
           NEW kind \in Kinds \ {OriginalSpec}, NEW content \in texts,
           NEW refs, CanAddDerived(p, kind, refs),
           \A r \in refs : rank[r[1]] < rank[kind]
    PROVE  Layered(AddDerived(p, kind, content, refs), rank, texts)
  <1> DEFINE superseded == kind # RuntimeEvidence /\ HasCurrent(p, kind)
             kept == IF superseded THEN InvalidateFrom(p, {Current(p, kind)}) ELSE p
  <1>1. Layered(kept, rank, texts)
    BY InvalidateFromKeepsLayers
  <1>2. /\ Len(kept.artifacts[kind]) = Len(p.artifacts[kind])
        /\ Ids(kept) = Ids(p)
    BY InvalidateFromProject DEF Layered, Base, Typed
  <1>3. refs \in SUBSET Ids(kept) /\ Len(kept.artifacts[kind]) < MaxVersions
    BY <1>2 DEF CanAddDerived, IsLive
  <1>4. kind # RuntimeEvidence => ~HasCurrent(kept, kind)
    BY SupersededIsGone DEF Layered
  <1>5. \A r \in refs : IsLive(kept, r)
    <2>1. CASE superseded
      <3> SUFFICES ASSUME NEW r \in refs  PROVE IsLive(kept, r)
        OBVIOUS
      <3>1. r \in Ids(p) /\ Artifact(p, r).state = Live /\ p \in ProjectRecords(texts)
        BY DEF CanAddDerived, IsLive, Layered, Base, Typed
      <3>2. Current(p, kind)[1] = kind
        BY <2>1, CurrentIsNewest DEF Layered
      <3>3. rank[r[1]] < rank[kind] /\ r[1] \in Kinds
        BY <3>1, IdsOfProject
      <3>4. r # Current(p, kind)
        BY <3>2, <3>3
      <3>5. Current(p, kind) \notin Artifact(p, r).lineage
        BY <3>1, <3>2, <3>3 DEF Layered, Ranked
      <3>6. r \notin Reached(p, {Current(p, kind)})
        BY <3>4, <3>5 DEF Reached
      <3> QED  BY <2>1, <3>1, <3>6, InvalidateFromProject DEF IsLive
    <2>2. CASE ~superseded
      BY <2>2 DEF CanAddDerived
    <2> QED  BY <2>1, <2>2
  <1> HIDE DEF kept
  <1>6. Layered(Appended(kept, kind, content, refs), rank, texts)
    BY <1>1, <1>3, <1>4, <1>5, AppendedKeepsLayers
  <1> QED  BY <1>6 DEF AddDerived, kept

\* A decision keeps the layers, cascade included.
LEMMA DecideKeepsLayers ==
    ASSUME NEW texts, NEW p, NEW rank \in [Kinds -> Nat], Layered(p, rank, texts), SourceLive(p),
           NEW id, CanDecide(p, id), NEW decision \in ReviewDecisions
    PROVE  Layered(Decide(p, id, decision), rank, texts)
  <1> DEFINE q == [p EXCEPT !.approvals[id] = decision]
  <1>1. Base(q, texts) /\ q.artifacts = p.artifacts
    BY DecideApprovals DEF Layered
  <1> HIDE DEF q
  <1>2. /\ Ids(q) = Ids(p)
        /\ \A other : Artifact(q, other) = Artifact(p, other)
    BY <1>1 DEF Ids, Artifact
  <1>3. Layered(q, rank, texts)
    BY <1>1, <1>2 DEF Layered, Ranked, InputsLive, IsLive
  <1>4. Layered(InvalidateFrom(q, DirectDependents(q, id)), rank, texts)
    BY <1>3, InvalidateFromKeepsLayers
  <1> QED  BY <1>3, <1>4 DEF Decide, q

\* A comment keeps the layers.
LEMMA AnnotateKeepsLayers ==
    ASSUME NEW texts, NEW p, NEW rank \in [Kinds -> Nat], Layered(p, rank, texts), SourceLive(p),
           NEW id, CanAnnotate(p, id)
    PROVE  Layered(Annotate(p, id), rank, texts)
  <1> DEFINE q == Annotate(p, id)
  <1>1. Base(q, texts)
    BY AnnotateKeepsInv DEF Layered
  <1>2. q.artifacts = p.artifacts
    BY DEF Annotate, Layered, Base, Typed, ProjectRecords
  <1> HIDE DEF q
  <1>3. /\ Ids(q) = Ids(p)
        /\ \A other : Artifact(q, other) = Artifact(p, other)
    BY <1>2 DEF Ids, Artifact
  <1> QED  BY <1>1, <1>3 DEF Layered, Ranked, InputsLive, IsLive, q

\* Replacing the source keeps the layers.
LEMMA ReplaceSourceKeepsLayers ==
    ASSUME NEW texts, NEW p, NEW rank \in [Kinds -> Nat], Layered(p, rank, texts),
           CanReplaceSource(p), NEW content \in texts
    PROVE  Layered(ReplaceSource(p, content), rank, texts)
  <1> DEFINE source == Current(p, OriginalSpec)
             kept == InvalidateFrom(p, {source})
  <1>1. OriginalSpec \in Kinds \ {RuntimeEvidence} /\ HasCurrent(p, OriginalSpec)
    BY DEF OriginalSpec, RuntimeEvidence, CanReplaceSource
  <1>2. Layered(kept, rank, texts) /\ ~HasCurrent(kept, OriginalSpec)
    BY <1>1, InvalidateFromKeepsLayers, SupersededIsGone DEF Layered
  <1>3. Len(kept.artifacts[OriginalSpec]) < MaxVersions
    BY InvalidateFromProject DEF Layered, Base, Typed, CanReplaceSource
  <1> HIDE DEF kept
  <1>4. Layered(Appended(kept, OriginalSpec, content, {}), rank, texts)
    BY <1>1, <1>2, <1>3, AppendedKeepsLayers
  <1> QED  BY <1>4 DEF ReplaceSource, kept

-----------------------------------------------------------------------------
(***************************************************************************)
(* What a transition may never do.                                         *)
(***************************************************************************)

\* Invalidation revives nothing and takes approvals from what it reaches only.
LEMMA InvalidateFromExtends ==
    ASSUME NEW texts, NEW p, Base(p, texts), NEW seed
    PROVE  LET q == InvalidateFrom(p, seed) IN
           /\ Extends(p, q)
           /\ Ids(q) = Ids(p)
           /\ \A id \in Ids(p) :
                /\ id \in Reached(p, seed) => ~IsLive(q, id)
                /\ id \notin Reached(p, seed) =>
                     /\ IsLive(q, id) <=> IsLive(p, id)
                     /\ q.approvals[id] = p.approvals[id]
                /\ ~IsApproved(q, id) /\ IsApproved(p, id) => id \in Reached(p, seed)
  <1> DEFINE q == InvalidateFrom(p, seed)
  <1>1. p \in ProjectRecords(texts)
    BY DEF Base, Typed
  <1>2. /\ Ids(q) = Ids(p)
        /\ \A id \in Ids(p) :
             Artifact(q, id) = IF id \in Reached(p, seed) THEN Stale(Artifact(p, id)) ELSE Artifact(p, id)
        /\ \A id \in ArtifactIds :
             q.approvals[id] = IF id \in Reached(p, seed) /\ p.approvals[id] # NoDecision
                               THEN Void ELSE p.approvals[id]
        /\ q.annotations = p.annotations
    BY <1>1, InvalidateFromProject
  <1> HIDE DEF q
  <1>3. \A id \in Ids(p) :
          /\ Artifact(q, id).content = Artifact(p, id).content
          /\ Artifact(q, id).upstream = Artifact(p, id).upstream
          /\ Artifact(q, id).lineage = Artifact(p, id).lineage
          /\ Artifact(q, id).state = IF id \in Reached(p, seed) THEN Invalidated ELSE Artifact(p, id).state
    BY <1>1, <1>2, IdsOfProject, StaleRecord
  <1>4. Ids(p) \subseteq ArtifactIds
    BY DEF Ids
  <1>5. \A id \in Ids(p) :
          /\ id \in Reached(p, seed) => ~IsLive(q, id)
          /\ id \notin Reached(p, seed) =>
               /\ IsLive(q, id) <=> IsLive(p, id)
               /\ q.approvals[id] = p.approvals[id]
          /\ ~IsApproved(q, id) /\ IsApproved(p, id) => id \in Reached(p, seed)
    BY <1>2, <1>3, <1>4 DEF IsLive, IsApproved, Live, Invalidated
  <1>6. Extends(p, q)
    BY <1>2, <1>3 DEF Extends, IsLive, Live, Invalidated
  <1> QED  BY <1>2, <1>5, <1>6 DEF q

\* Whatever depends on a reached artifact is reached.
LEMMA ReachedIsClosed ==
    ASSUME NEW texts, NEW p, Base(p, texts), NEW seed, NEW id \in Reached(p, seed),
           NEW other \in Ids(p), id \in Artifact(p, other).lineage
    PROVE  other \in Reached(p, seed)
  <1>1. Artifact(p, id).lineage \subseteq Artifact(p, other).lineage
    BY DEF Base, LineageClosed
  <1> QED  BY <1>1 DEF Reached

\* Of an approval it voids, nothing built on it stays live.
LEMMA InvalidateFromCascades ==
    ASSUME NEW texts, NEW p, Base(p, texts), NEW seed
    PROVE  Cascades(p, InvalidateFrom(p, seed))
  <1>1. Reached(p, seed) \subseteq Ids(p)
    BY DEF Reached
  <1> QED  BY <1>1, InvalidateFromExtends, ReachedIsClosed DEF Cascades

\* Appending a version touches no other version and no decision.
LEMMA AppendedExtends ==
    ASSUME NEW texts, NEW p, NEW q, Base(q, texts), Extends(p, q), Cascades(p, q), Ids(q) = Ids(p),
           NEW kind \in Kinds, NEW content \in texts, NEW refs \in SUBSET Ids(q),
           Len(q.artifacts[kind]) < MaxVersions
    PROVE  /\ Extends(p, Appended(q, kind, content, refs))
           /\ Cascades(p, Appended(q, kind, content, refs))
  <1> DEFINE r == Appended(q, kind, content, refs)
  <1>1. /\ Ids(q) \subseteq Ids(r)
        /\ \A id \in Ids(q) : Artifact(r, id) = Artifact(q, id)
        /\ r.approvals = q.approvals /\ r.annotations = q.annotations
    BY AppendedIsNew DEF Base
  <1> HIDE DEF r
  <1>2. \A id \in Ids(q) : IsLive(r, id) <=> IsLive(q, id)
    BY <1>1 DEF IsLive
  <1>3. Extends(p, r)
    BY <1>1, <1>2 DEF Extends
  <1>4. Cascades(p, r)
    BY <1>1, <1>2 DEF Cascades, IsApproved
  <1> QED  BY <1>3, <1>4 DEF r

\* The step properties of a derived artifact.
LEMMA AddDerivedSteps ==
    ASSUME NEW texts, NEW p, Base(p, texts),
           NEW kind \in Kinds \ {OriginalSpec}, NEW content \in texts,
           NEW refs, CanAddDerived(p, kind, refs)
    PROVE  /\ Extends(p, AddDerived(p, kind, content, refs))
           /\ Cascades(p, AddDerived(p, kind, content, refs))
           /\ AddsEvidence(p, AddDerived(p, kind, content, refs))
  <1> DEFINE superseded == kind # RuntimeEvidence /\ HasCurrent(p, kind)
             kept == IF superseded THEN InvalidateFrom(p, {Current(p, kind)}) ELSE p
             r == Appended(kept, kind, content, refs)
  <1>1. /\ Len(kept.artifacts[kind]) = Len(p.artifacts[kind])
        /\ Ids(kept) = Ids(p)
    BY InvalidateFromProject DEF Base, Typed
  <1>2. Extends(p, kept) /\ Cascades(p, kept)
    <2>1. Extends(p, p) /\ Cascades(p, p)
      BY DEF Extends, Cascades
    <2> QED  BY <2>1, InvalidateFromExtends, InvalidateFromCascades
  <1>3. refs \in SUBSET Ids(kept) /\ Len(kept.artifacts[kind]) < MaxVersions
    BY <1>1 DEF CanAddDerived, IsLive
  <1>4. Base(kept, texts)
    BY InvalidateFromKeepsBase
  <1>5. kind = RuntimeEvidence => kept = p
    OBVIOUS
  <1> HIDE DEF kept
  <1>6. Extends(p, r) /\ Cascades(p, r)
    BY <1>1, <1>2, <1>3, <1>4, AppendedExtends
  <1>7. AddsEvidence(p, r)
    <2>1. /\ Ids(r) = Ids(kept) \cup {<<kind, Len(kept.artifacts[kind]) + 1>>}
          /\ \A id \in Ids(kept) : Artifact(r, id) = Artifact(kept, id)
          /\ r.approvals = kept.approvals
      BY <1>3, <1>4, AppendedIsNew DEF Base
    <2>2. \A id \in Ids(r) \ Ids(p) : id[1] = kind
      BY <2>1, <1>1
    <2> QED  BY <2>1, <2>2, <1>1, <1>5 DEF AddsEvidence
  <1> QED  BY <1>6, <1>7 DEF AddDerived, kept

\* The step properties of a decision.
LEMMA DecideSteps ==
    ASSUME NEW texts, NEW p, Base(p, texts), NEW id, CanDecide(p, id), NEW decision \in ReviewDecisions
    PROVE  /\ Extends(p, Decide(p, id, decision))
           /\ Cascades(p, Decide(p, id, decision))
           /\ Ids(Decide(p, id, decision)) = Ids(p)
  <1> DEFINE q == [p EXCEPT !.approvals[id] = decision]
             seed == DirectDependents(q, id)
             r == InvalidateFrom(q, seed)
  <1>1. /\ Base(q, texts)
        /\ q.artifacts = p.artifacts
        /\ q.approvals = [p.approvals EXCEPT ![id] = decision]
        /\ q.annotations = p.annotations
    BY DecideApprovals
  <1>2. p.approvals \in [ArtifactIds -> Decisions]
    BY DEF Base, Typed, ProjectRecords
  <1>3. Decide(p, id, decision) = IF IsApproved(p, id) /\ decision # Approved THEN r ELSE q
    BY DEF Decide
  <1> HIDE DEF q
  <1>4. /\ Ids(q) = Ids(p)
        /\ \A other : Artifact(q, other) = Artifact(p, other)
        /\ Ids(p) \subseteq ArtifactIds
    BY <1>1 DEF Ids, Artifact
  <1>5. Extends(p, q)
    BY <1>1, <1>4 DEF Extends, IsLive
  <1>6. \A other \in Ids(p) : other # id => (IsApproved(q, other) <=> IsApproved(p, other))
    BY <1>1, <1>2, <1>4 DEF IsApproved
  <1>7. CASE IsApproved(p, id) /\ decision # Approved
    <2>1. Extends(q, r) /\ Ids(r) = Ids(q)
      BY <1>1, InvalidateFromExtends
    <2>2. Extends(p, r)
      BY <2>1, <1>4, <1>5 DEF Extends
    <2>3. ASSUME NEW a \in Ids(p), IsApproved(p, a), ~IsApproved(r, a),
                 NEW other \in Ids(p), a \in Artifact(p, other).lineage
          PROVE  ~IsLive(r, other)
      <3>1. CASE a # id
        <4>1. IsApproved(q, a)
          BY <3>1, <2>3, <1>6
        <4> QED  BY <4>1, <2>3, <1>1, <1>4, InvalidateFromCascades DEF Cascades
      <3>2. CASE a = id
        <4>1. \/ id \in Artifact(q, other).upstream
              \/ \E s \in Artifact(q, other).lineage : id \in Artifact(q, s).upstream
          BY <3>2, <2>3, <1>1, <1>4 DEF Base, LineageClosed
        <4>2. CASE id \in Artifact(q, other).upstream
          BY <4>2, <1>1, <1>4, InvalidateFromExtends DEF Reached, DirectDependents
        <4>3. CASE \E s \in Artifact(q, other).lineage : id \in Artifact(q, s).upstream
          <5>1. PICK s \in Artifact(q, other).lineage : id \in Artifact(q, s).upstream
            BY <4>3
          <5>2. s \in Ids(q)
            BY <5>1, <1>1, <1>4 DEF Base, LineageClosed
          <5>3. s \in seed
            BY <5>1, <5>2 DEF DirectDependents
          <5>4. other \in Reached(q, seed)
            BY <5>1, <5>3, <1>4 DEF Reached
          <5> QED  BY <5>4, <1>1, <1>4, InvalidateFromExtends
        <4> QED  BY <4>1, <4>2, <4>3
      <3> QED  BY <3>1, <3>2
    <2>4. Cascades(p, r)
      BY <2>3 DEF Cascades
    <2> QED  BY <1>7, <1>3, <1>4, <2>1, <2>2, <2>4
  <1>8. CASE ~(IsApproved(p, id) /\ decision # Approved)
    <2>1. Decide(p, id, decision) = q
      BY <1>3, <1>8
    <2>2. q.approvals[id] = decision
      BY <1>1, <1>2, IdsOfProject DEF CanDecide, IsLive, Base, Typed
    <2>3. Cascades(p, q)
      BY <1>6, <1>8, <2>2 DEF Cascades, IsApproved
    <2> QED  BY <2>1, <2>3, <1>4, <1>5
  <1> QED  BY <1>7, <1>8

\* The step properties of a comment.
LEMMA AnnotateSteps ==
    ASSUME NEW texts, NEW p, Base(p, texts), NEW id, CanAnnotate(p, id)
    PROVE  /\ Extends(p, Annotate(p, id))
           /\ Cascades(p, Annotate(p, id))
           /\ Ids(Annotate(p, id)) = Ids(p)
  <1> DEFINE q == Annotate(p, id)
  <1>1. /\ q.artifacts = p.artifacts /\ q.approvals = p.approvals
        /\ q.annotations = p.annotations \cup {id}
    BY DEF Annotate, Base, Typed, ProjectRecords
  <1> HIDE DEF q
  <1>2. /\ Ids(q) = Ids(p)
        /\ \A other : Artifact(q, other) = Artifact(p, other)
    BY <1>1 DEF Ids, Artifact
  <1> QED  BY <1>1, <1>2 DEF Extends, Cascades, IsApproved, IsLive, q

\* The step properties of a new source.
LEMMA ReplaceSourceSteps ==
    ASSUME NEW texts, NEW p, Base(p, texts), CanReplaceSource(p), NEW content \in texts
    PROVE  /\ Extends(p, ReplaceSource(p, content))
           /\ Cascades(p, ReplaceSource(p, content))
           /\ \A id \in Ids(ReplaceSource(p, content)) \ Ids(p) : id[1] = OriginalSpec
  <1> DEFINE source == Current(p, OriginalSpec)
             kept == InvalidateFrom(p, {source})
             r == Appended(kept, OriginalSpec, content, {})
  <1>1. Extends(p, kept) /\ Cascades(p, kept) /\ Base(kept, texts) /\ Ids(kept) = Ids(p)
    BY InvalidateFromExtends, InvalidateFromCascades, InvalidateFromKeepsBase
  <1>2. Len(kept.artifacts[OriginalSpec]) < MaxVersions
    BY InvalidateFromProject DEF Base, Typed, CanReplaceSource
  <1> HIDE DEF kept
  <1>3. Extends(p, r) /\ Cascades(p, r)
    BY <1>1, <1>2, AppendedExtends
  <1>4. Ids(r) = Ids(kept) \cup {<<OriginalSpec, Len(kept.artifacts[OriginalSpec]) + 1>>}
    BY <1>1, <1>2, AppendedIsNew DEF Base
  <1>5. \A id \in Ids(r) \ Ids(p) : id[1] = OriginalSpec
    BY <1>1, <1>4
  <1>6. Extends(p, p) /\ Cascades(p, p)
    BY DEF Extends, Cascades
  <1> QED  BY <1>3, <1>5, <1>6 DEF ReplaceSource, kept

-----------------------------------------------------------------------------
(***************************************************************************)
(* What becomes of the other artifacts: all that a transition invalidates  *)
(* is built on one artifact, and whatever is still live has the decision   *)
(* it had.                                                                 *)
(***************************************************************************)

\* Invalidating one artifact takes all that is built on it and nothing else.
LEMMA InvalidateFromFalls ==
    ASSUME NEW texts, NEW p, Base(p, texts), NEW c
    PROVE  /\ FallsBelow(p, InvalidateFrom(p, {c}), c)
           /\ KeepsDecisions(p, InvalidateFrom(p, {c}))
           /\ ~IsLive(InvalidateFrom(p, {c}), c)
  <1> DEFINE q == InvalidateFrom(p, {c})
  <1>1. /\ Ids(q) = Ids(p)
        /\ \A id \in Ids(p) :
             /\ id \in Reached(p, {c}) => ~IsLive(q, id)
             /\ id \notin Reached(p, {c}) =>
                  /\ IsLive(q, id) <=> IsLive(p, id)
                  /\ q.approvals[id] = p.approvals[id]
    BY InvalidateFromExtends
  <1> HIDE DEF q
  <1>2. \A id \in Ids(p) : id \in Reached(p, {c}) <=> id = c \/ c \in Artifact(p, id).lineage
    BY DEF Reached
  <1>3. FallsBelow(p, q, c) /\ KeepsDecisions(p, q)
    BY <1>1, <1>2 DEF FallsBelow, KeepsDecisions
  <1>4. ~IsLive(q, c)
    BY <1>1, <1>2 DEF IsLive
  <1> QED  BY <1>3, <1>4 DEF q

\* Of a kind without a live version the appended version is the current one.
LEMMA AppendedIsCurrent ==
    ASSUME NEW texts, NEW p, Base(p, texts), NEW kind \in Kinds \ {RuntimeEvidence},
           ~HasCurrent(p, kind),
           NEW content \in texts, NEW refs \in SUBSET Ids(p), kind = OriginalSpec => refs = {},
           Len(p.artifacts[kind]) < MaxVersions
    PROVE  LET q == Appended(p, kind, content, refs) IN
           /\ Base(q, texts)
           /\ Derives(p, q, kind, content, refs)
  <1> DEFINE q == Appended(p, kind, content, refs)
             new == <<kind, Len(p.artifacts[kind]) + 1>>
  <1>1. Base(q, texts)
    BY AppendedKeepsBase
  <1>2. /\ Ids(q) = Ids(p) \cup {new}
        /\ new \notin Ids(p)
        /\ Artifact(q, new).content = content
        /\ Artifact(q, new).upstream = refs
        /\ Artifact(q, new).lineage = refs \cup UNION {Artifact(p, r).lineage : r \in refs}
        /\ Artifact(q, new).state = Live
        /\ \A id \in Ids(p) : Artifact(q, id) = Artifact(p, id)
        /\ q.approvals = p.approvals
        /\ q.annotations = p.annotations
        /\ Len(q.artifacts[kind]) = Len(p.artifacts[kind]) + 1
    BY AppendedProject DEF Base
  <1> HIDE DEF q
  <1>3. new \in Ids(q) /\ new[1] = kind /\ new[2] = Len(p.artifacts[kind]) + 1
    BY <1>2
  <1> HIDE DEF new
  <1>4. HasCurrent(q, kind)
    <2>1. new[2] \in DOMAIN q.artifacts[kind] /\ q.artifacts[kind][new[2]] = Artifact(q, new)
      BY <1>1, <1>3, IdsOfProject DEF Base, Typed
    <2> QED  BY <2>1, <1>2 DEF HasCurrent, LiveVersions
  <1>5. Current(q, kind) = new
    BY <1>1, <1>2, <1>4, CurrentIsNewest DEF new
  <1>6. \A id \in Ids(p) : IsLive(q, id) <=> IsLive(p, id)
    BY <1>2 DEF IsLive
  <1>7. ASSUME NEW id \in Ids(p), IsLive(q, id)  PROVE id[1] # kind
    <2>1. id[2] \in DOMAIN p.artifacts[id[1]] /\ p.artifacts[id[1]][id[2]].state = Live
      BY <1>6, <1>7, IdsOfProject DEF Base, Typed, IsLive
    <2> QED  BY <2>1 DEF HasCurrent, LiveVersions
  <1>8. Extends(p, q) /\ KeepsDecisions(p, q)
    BY <1>2, <1>6 DEF Extends, KeepsDecisions
  <1>9. IsLive(q, new)
    BY <1>2, <1>3 DEF IsLive
  <1> QED  BY <1>1, <1>2, <1>3, <1>4, <1>5, <1>6, <1>7, <1>8, <1>9 DEF Derives, q

\* What add_artifact returns, for every kind but evidence.
LEMMA AddDerivedDerives ==
    ASSUME NEW texts, NEW p, Base(p, texts),
           NEW kind \in Kinds \ {OriginalSpec, RuntimeEvidence}, NEW content \in texts,
           NEW refs, CanAddDerived(p, kind, refs)
    PROVE  Derives(p, AddDerived(p, kind, content, refs), kind, content, refs)
  <1> DEFINE kept == IF HasCurrent(p, kind) THEN InvalidateFrom(p, {Current(p, kind)}) ELSE p
             q == Appended(kept, kind, content, refs)
  <1>1. AddDerived(p, kind, content, refs) = q
    BY DEF AddDerived
  <1>2. Base(kept, texts) /\ ~HasCurrent(kept, kind)
    BY InvalidateFromKeepsBase, SupersededIsGone
  <1>3. /\ Len(kept.artifacts[kind]) = Len(p.artifacts[kind])
        /\ Ids(kept) = Ids(p)
    BY InvalidateFromProject DEF Base, Typed
  <1>4. /\ Extends(p, kept) /\ KeepsDecisions(p, kept)
        /\ \/ HasCurrent(p, kind) /\ FallsBelow(p, kept, Current(p, kind))
           \/ ~HasCurrent(p, kind) /\ \A id \in Ids(p) : IsLive(p, id) => IsLive(kept, id)
    <2>1. CASE HasCurrent(p, kind)
      BY <2>1, InvalidateFromExtends, InvalidateFromFalls
    <2>2. CASE ~HasCurrent(p, kind)
      BY <2>2 DEF Extends, KeepsDecisions
    <2> QED  BY <2>1, <2>2
  <1> HIDE DEF kept
  <1>5. refs \in SUBSET Ids(kept) /\ Len(kept.artifacts[kind]) < MaxVersions
    BY <1>3 DEF CanAddDerived, IsLive
  <1>6. Derives(kept, q, kind, content, refs)
    BY <1>2, <1>5, AppendedIsCurrent
  <1> HIDE DEF q
  <1>7. \A id \in Ids(p) : IsLive(q, id) <=> IsLive(kept, id)
    BY <1>3, <1>2, <1>6 DEF Derives, Extends
  <1>8. \A id \in Ids(p) : Artifact(kept, id).lineage = Artifact(p, id).lineage
    BY <1>4 DEF Extends
  <1>9. {Artifact(kept, r).lineage : r \in refs} = {Artifact(p, r).lineage : r \in refs}
    BY <1>3, <1>5, <1>8
  <1>10. Extends(p, q) /\ KeepsDecisions(p, q)
    BY <1>3, <1>4, <1>6, <1>7 DEF Derives, Extends, KeepsDecisions
  <1>11. \/ HasCurrent(p, kind) /\ FallsBelow(p, q, Current(p, kind))
         \/ ~HasCurrent(p, kind) /\ \A id \in Ids(p) : IsLive(p, id) => IsLive(q, id)
    BY <1>4, <1>7 DEF FallsBelow
  <1>12. Derives(p, q, kind, content, refs)
    BY <1>3, <1>6, <1>9, <1>10, <1>11 DEF Derives
  <1> QED  BY <1>1, <1>12

\* Below the rank of the new version's kind nothing is invalidated, except
\* that it takes the place of the version before it.
LEMMA LowerStaysLive ==
    ASSUME NEW texts, NEW p, NEW rank \in [Kinds -> Nat], Layered(p, rank, texts),
           NEW kind \in Kinds \ {RuntimeEvidence}, NEW q, NEW content, NEW refs,
           Derives(p, q, kind, content, refs),
           NEW id, IsLive(p, id), id[1] # kind, rank[id[1]] <= rank[kind]
    PROVE  IsLive(q, id)
  <1>1. id \in Ids(p) /\ id[1] \in Kinds
    BY IdsOfProject DEF IsLive, Layered, Base, Typed
  <1>2. CASE HasCurrent(p, kind)
    <2>1. Current(p, kind)[1] = kind
      BY <1>2, CurrentIsNewest DEF Layered
    <2>2. Current(p, kind) \notin Artifact(p, id).lineage
      BY <1>1, <2>1 DEF Layered, Ranked
    <2> QED  BY <1>1, <1>2, <2>1, <2>2 DEF Derives, FallsBelow
  <1>3. CASE ~HasCurrent(p, kind)
    BY <1>1, <1>3 DEF Derives
  <1> QED  BY <1>2, <1>3

\* If all that falls is built on one artifact, what stays live has its whole
\* ancestry live.
LEMMA FallsKeepLineageLive ==
    ASSUME NEW texts, NEW p, Base(p, texts), LineageLive(p),
           NEW q, Extends(p, q), NEW c, FallsBelow(p, q, c),
           NEW id \in Ids(p), IsLive(q, id), NEW r \in Artifact(q, id).lineage
    PROVE  IsLive(q, r)
  <1>1. /\ r \in Artifact(p, id).lineage /\ r \in Ids(p)
        /\ IsLive(p, id) /\ Artifact(p, r).lineage \subseteq Artifact(p, id).lineage
    BY DEF Extends, Base, LineageClosed
  <1>2. IsLive(p, r)
    BY <1>1 DEF LineageLive
  <1>3. c \notin Artifact(p, id).lineage
    BY DEF FallsBelow
  <1> QED  BY <1>1, <1>2, <1>3 DEF FallsBelow

\* So it is when a version is derived from artifacts that stay live.
LEMMA DerivesKeepsLineageLive ==
    ASSUME NEW texts, NEW p, Base(p, texts), LineageLive(p),
           NEW q, NEW kind, NEW content, NEW refs \in SUBSET Ids(p),
           Derives(p, q, kind, content, refs), \A r \in refs : IsLive(q, r)
    PROVE  LineageLive(q)
  <1> DEFINE new == Current(q, kind)
  <1>1. ASSUME NEW id \in Ids(p), IsLive(q, id), NEW r \in Artifact(q, id).lineage
        PROVE  IsLive(q, r)
    <2>1. CASE HasCurrent(p, kind) /\ FallsBelow(p, q, Current(p, kind))
      BY <1>1, <2>1, FallsKeepLineageLive DEF Derives
    <2>2. CASE \A other \in Ids(p) : IsLive(p, other) => IsLive(q, other)
      <3>1. r \in Artifact(p, id).lineage /\ r \in Ids(p) /\ IsLive(p, id)
        BY <1>1 DEF Derives, Extends, Base, LineageClosed
      <3> QED  BY <2>2, <3>1 DEF LineageLive
    <2> QED  BY <2>1, <2>2 DEF Derives
  <1>2. ASSUME NEW r \in Artifact(q, new).lineage
        PROVE  IsLive(q, r)
    <2>1. CASE r \in refs
      BY <2>1
    <2>2. CASE \E s \in refs : r \in Artifact(p, s).lineage
      <3>1. PICK s \in refs : r \in Artifact(p, s).lineage
        BY <2>2
      <3>2. r \in Artifact(q, s).lineage
        BY <3>1 DEF Derives, Extends
      <3> QED  BY <3>1, <3>2, <1>1
    <2> QED  BY <2>1, <2>2, <1>2 DEF Derives
  <1> QED  BY <1>1, <1>2 DEF LineageLive, Derives

\* A withdrawn approval takes all that is built on the artifact; the artifact
\* itself stays live and every other decision stays.
LEMMA DecideFalls ==
    ASSUME NEW texts, NEW p, NEW rank \in [Kinds -> Nat], Layered(p, rank, texts),
           NEW id, CanDecide(p, id), NEW decision \in ReviewDecisions,
           NEW r, r = Decide(p, id, decision)
    PROVE  /\ Ids(r) = Ids(p) /\ Extends(p, r) /\ Cascades(p, r)
           /\ IsLive(r, id) /\ r.approvals[id] = decision
           /\ \A other \in Ids(p) : other # id /\ IsLive(r, other) =>
                r.approvals[other] = p.approvals[other]
           /\ \/ FallsBelow(p, r, id)
              \/ \A other \in Ids(p) : IsLive(p, other) => IsLive(r, other)
  <1> DEFINE q == [p EXCEPT !.approvals[id] = decision]
             seed == DirectDependents(q, id)
  <1>1. /\ Base(q, texts)
        /\ q.artifacts = p.artifacts
        /\ q.approvals = [p.approvals EXCEPT ![id] = decision]
    BY DecideApprovals DEF Layered
  <1>2. p.approvals \in [ArtifactIds -> Decisions] /\ id \in ArtifactIds /\ id \in Ids(p)
        /\ Base(p, texts) /\ Ids(p) \subseteq ArtifactIds
    BY IdsOfProject DEF Layered, Base, Typed, ProjectRecords, CanDecide, IsLive, Ids
  <1>3. r = IF IsApproved(p, id) /\ decision # Approved THEN InvalidateFrom(q, seed) ELSE q
    BY DEF Decide
  <1> HIDE DEF q
  <1>4. /\ Ids(q) = Ids(p)
        /\ \A other : Artifact(q, other) = Artifact(p, other)
        /\ \A other : IsLive(q, other) <=> IsLive(p, other)
    BY <1>1 DEF Ids, Artifact, IsLive
  <1>5. q.approvals[id] = decision /\ \A other \in Ids(p) \ {id} : q.approvals[other] = p.approvals[other]
    BY <1>1, <1>2
  <1>6. Ids(r) = Ids(p) /\ Extends(p, r) /\ Cascades(p, r)
    BY <1>2, DecideSteps
  <1>7. CASE ~(IsApproved(p, id) /\ decision # Approved)
    BY <1>3, <1>4, <1>5, <1>6, <1>7 DEF CanDecide
  <1>8. CASE IsApproved(p, id) /\ decision # Approved
    <2>1. \A other \in Ids(p) : other \in Reached(q, seed) <=> id \in Artifact(p, other).lineage
      <3>1. ASSUME NEW other \in Ids(p), other \in Reached(q, seed)
            PROVE  id \in Artifact(p, other).lineage
        <4>1. other \in seed \/ \E s \in seed : s \in Artifact(p, other).lineage
          BY <3>1, <1>4 DEF Reached
        <4>2. ASSUME NEW s \in seed
              PROVE  s \in Ids(p) /\ id \in Artifact(p, s).upstream /\ id \in Artifact(p, s).lineage
          BY <1>2, <1>4 DEF DirectDependents, Base, LineageClosed
        <4>3. ASSUME NEW s \in seed, s \in Artifact(p, other).lineage
              PROVE  Artifact(p, s).lineage \subseteq Artifact(p, other).lineage
          BY <4>3, <1>2 DEF Base, LineageClosed
        <4> QED  BY <4>1, <4>2, <4>3
      <3>2. ASSUME NEW other \in Ids(p), id \in Artifact(p, other).lineage
            PROVE  other \in Reached(q, seed)
        <4>1. \/ id \in Artifact(p, other).upstream
              \/ \E s \in Artifact(p, other).lineage : s \in Ids(p) /\ id \in Artifact(p, s).upstream
          BY <3>2, <1>2 DEF Base, LineageClosed
        <4> QED  BY <4>1, <1>4 DEF Reached, DirectDependents
      <3> QED  BY <3>1, <3>2
    <2> HIDE DEF seed
    <2>1a. r = InvalidateFrom(q, seed) /\ Base(q, texts)
      BY <1>1, <1>3, <1>8
    <2>2. /\ Ids(r) = Ids(q)
          /\ \A other \in Ids(q) :
               /\ other \in Reached(q, seed) => ~IsLive(r, other)
               /\ other \notin Reached(q, seed) =>
                    /\ IsLive(r, other) <=> IsLive(q, other)
                    /\ r.approvals[other] = q.approvals[other]
      BY <2>1a, InvalidateFromExtends
    <2>3. id \notin Artifact(p, id).lineage
      BY <1>2, IdsOfProject DEF Layered, Ranked, Base, Typed
    <2>4. IsLive(r, id) /\ r.approvals[id] = decision
      BY <1>2, <1>4, <1>5, <2>1, <2>2, <2>3 DEF CanDecide
    <2>5. FallsBelow(p, r, id)
      BY <1>4, <2>1, <2>2 DEF FallsBelow
    <2>6. \A other \in Ids(p) : other # id /\ IsLive(r, other) => r.approvals[other] = p.approvals[other]
      BY <1>4, <1>5, <2>1, <2>2
    <2> QED  BY <1>6, <2>4, <2>5, <2>6
  <1> QED  BY <1>7, <1>8

\* A live version of any kind but evidence is the current one.
LEMMA LiveIsCurrent ==
    ASSUME NEW texts, NEW p, Base(p, texts), NEW id, IsLive(p, id), id[1] # RuntimeEvidence
    PROVE  /\ id \in Ids(p) /\ id[1] \in Kinds
           /\ HasCurrent(p, id[1])
           /\ id = Current(p, id[1])
  <1>1. /\ id \in Ids(p) /\ id[1] \in Kinds /\ id = <<id[1], id[2]>>
        /\ id[2] \in DOMAIN p.artifacts[id[1]]
        /\ p.artifacts[id[1]][id[2]].state = Live
    BY IdsOfProject DEF IsLive, Base, Typed
  <1>2. HasCurrent(p, id[1])
    BY <1>1 DEF HasCurrent, LiveVersions
  <1>3. id[2] = Len(p.artifacts[id[1]])
    BY <1>1 DEF Base, NewestOnly
  <1>4. Current(p, id[1]) = <<id[1], Len(p.artifacts[id[1]])>>
    BY <1>1, <1>2, CurrentIsNewest
  <1> QED  BY <1>1, <1>2, <1>3, <1>4

\* The current version of a kind is a live one of that kind.
LEMMA CurrentIsLive ==
    ASSUME NEW texts, NEW p, Base(p, texts), NEW kind \in Kinds \ {RuntimeEvidence},
           HasCurrent(p, kind)
    PROVE  /\ Current(p, kind) \in Ids(p)
           /\ Current(p, kind)[1] = kind
           /\ IsLive(p, Current(p, kind))
  BY CurrentIsNewest DEF IsLive

-----------------------------------------------------------------------------
(***************************************************************************)
(* What any composition of the functions does to the past, whatever texts  *)
(* it writes.                                                              *)
(***************************************************************************)

Settled(p) == \E texts : Base(p, texts) /\ SourceLive(p)

\* q comes of p: nothing p has is rewritten or revived, and with an approval
\* that is lost goes all that was built on it.
Follows(p, q) == Settled(q) /\ Extends(p, q) /\ Cascades(p, q)

\* Texts may be added to those there are.
LEMMA BaseIsMonotone ==
    ASSUME NEW texts, NEW more, texts \subseteq more, NEW p, Base(p, texts)
    PROVE  Base(p, more)
  <1>1. ArtifactRecords(texts) \subseteq ArtifactRecords(more)
    BY DEF ArtifactRecords
  <1>2. Seq(ArtifactRecords(texts)) \subseteq Seq(ArtifactRecords(more))
    BY <1>1
  <1>3. ProjectRecords(texts) \subseteq ProjectRecords(more)
    <2>1. \A S, T : S \subseteq T => [Kinds -> S] \subseteq [Kinds -> T]
      OBVIOUS
    <2>2. [Kinds -> Seq(ArtifactRecords(texts))] \subseteq [Kinds -> Seq(ArtifactRecords(more))]
      BY <1>2, <2>1
    <2> QED  BY <2>2 DEF ProjectRecords
  <1> QED  BY <1>3 DEF Base, Typed

\* What follows from what follows follows.
LEMMA FollowsIsTransitive ==
    ASSUME NEW p, NEW q, NEW r, Follows(p, q), Follows(q, r)
    PROVE  Follows(p, r)
  <1>1. Extends(p, r)
    BY DEF Follows, Extends
  <1>2. Cascades(p, r)
    <2> SUFFICES ASSUME NEW id \in Ids(p), IsApproved(p, id), ~IsApproved(r, id),
                        NEW other \in Ids(p), id \in Artifact(p, other).lineage
                 PROVE  ~IsLive(r, other)
      BY DEF Cascades
    <2>1. /\ id \in Ids(q) /\ other \in Ids(q) /\ id \in Artifact(q, other).lineage
          /\ IsLive(r, other) => IsLive(q, other)
      BY DEF Follows, Extends
    <2>2. CASE IsApproved(q, id)
      BY <2>1, <2>2 DEF Follows, Cascades
    <2>3. CASE ~IsApproved(q, id)
      BY <2>1, <2>3 DEF Follows, Cascades
    <2> QED  BY <2>2, <2>3
  <1> QED  BY <1>1, <1>2 DEF Follows

\* A project follows from itself.
LEMMA FollowsItself ==
    ASSUME NEW p, Settled(p)
    PROVE  Follows(p, p)
  BY DEF Follows, Extends, Cascades

\* A new project.
LEMMA NewProjectIsSettled ==
    ASSUME NEW source
    PROVE  Settled(NewProject(source))
  <1>1. source \in {source}
    OBVIOUS
  <1> QED  BY <1>1, NewProjectKeepsInv DEF Settled

\* A derivation.
LEMMA DerivingFollows ==
    ASSUME NEW p, Settled(p), NEW kind \in Kinds \ {OriginalSpec}, NEW content,
           NEW refs, CanAddDerived(p, kind, refs)
    PROVE  Follows(p, AddDerived(p, kind, content, refs))
  <1>1. PICK texts : Base(p, texts) /\ SourceLive(p)
    BY DEF Settled
  <1> DEFINE more == texts \cup {content}
  <1>2. content \in more /\ texts \subseteq more
    OBVIOUS
  <1> HIDE DEF more
  <1>3. Base(p, more)
    BY <1>1, <1>2, BaseIsMonotone
  <1>4. /\ Base(AddDerived(p, kind, content, refs), more)
        /\ SourceLive(AddDerived(p, kind, content, refs))
    BY <1>1, <1>2, <1>3, AddDerivedKeepsInv
  <1>5. /\ Extends(p, AddDerived(p, kind, content, refs))
        /\ Cascades(p, AddDerived(p, kind, content, refs))
    BY <1>2, <1>3, AddDerivedSteps
  <1> QED  BY <1>4, <1>5 DEF Follows, Settled

\* A decision.
LEMMA DecidingFollows ==
    ASSUME NEW p, Settled(p), NEW id, CanDecide(p, id), NEW decision \in ReviewDecisions
    PROVE  Follows(p, Decide(p, id, decision))
  BY DecideKeepsInv, DecideSteps DEF Settled, Follows

\* A comment.
LEMMA AnnotatingFollows ==
    ASSUME NEW p, Settled(p), NEW id, CanAnnotate(p, id)
    PROVE  Follows(p, Annotate(p, id))
  BY AnnotateKeepsInv, AnnotateSteps DEF Settled, Follows

\* A new source.
LEMMA ReplacingFollows ==
    ASSUME NEW p, Settled(p), CanReplaceSource(p), NEW content
    PROVE  Follows(p, ReplaceSource(p, content))
  <1>1. PICK texts : Base(p, texts) /\ SourceLive(p)
    BY DEF Settled
  <1> DEFINE more == texts \cup {content}
  <1>2. content \in more /\ texts \subseteq more
    OBVIOUS
  <1> HIDE DEF more
  <1>3. Base(p, more)
    BY <1>1, <1>2, BaseIsMonotone
  <1>4. Base(ReplaceSource(p, content), more) /\ SourceLive(ReplaceSource(p, content))
    BY <1>1, <1>2, <1>3, ReplaceSourceKeepsInv
  <1>5. Extends(p, ReplaceSource(p, content)) /\ Cascades(p, ReplaceSource(p, content))
    BY <1>2, <1>3, ReplaceSourceSteps
  <1> QED  BY <1>4, <1>5 DEF Follows, Settled

-----------------------------------------------------------------------------
(* Part 2.  Phases. *)

USE PhasesAssumption
USE DEF OriginalSpec, ElaborationLog, ElaboratedSpec, TestSpec, ReviewLog, ReviewedSpec,
        ReviewedTests, LogicalIRLog, LogicalIR, LogicalReview, CompilationLog,
        CompilerOutput, SandboxHandoff, TestResult, TraceabilityReport

\* The kinds of the phases are kinds of the instance, none of them evidence.
LEMMA PhaseKinds ==
    /\ PipelineKinds \subseteq Kinds \ {RuntimeEvidence}
    /\ PhaseRank \in [Kinds -> Nat]
  <1>1. RuntimeEvidence \notin PipelineKinds
    BY DEF PipelineKinds, Traced, RuntimeEvidence
  <1>2. PhaseRank \in [Kinds -> Nat]
    BY DEF PhaseRank
  <1> QED  BY <1>1, <1>2

\* The rank of each kind.
LEMMA Ranks ==
    /\ PhaseRank[OriginalSpec] = 0 /\ PhaseRank[ElaborationLog] = 1
    /\ PhaseRank[ElaboratedSpec] = 2 /\ PhaseRank[TestSpec] = 3
    /\ PhaseRank[ReviewLog] = 4 /\ PhaseRank[ReviewedSpec] = 5
    /\ PhaseRank[ReviewedTests] = 5 /\ PhaseRank[LogicalIRLog] = 6
    /\ PhaseRank[LogicalIR] = 6 /\ PhaseRank[LogicalReview] = 7
    /\ PhaseRank[CompilationLog] = 7 /\ PhaseRank[CompilerOutput] = 7
    /\ PhaseRank[SandboxHandoff] = 8 /\ PhaseRank[TestResult] = 9
    /\ PhaseRank[TraceabilityReport] = 10
  BY DEF PhaseRank, PipelineKinds, Traced

\* A kind cites kinds of lower rank.
LEMMA CitationsGoDown ==
    ASSUME NEW kind, NEW cited, <<kind, cited>> \in Citations
    PROVE  /\ kind \in PipelineKinds /\ cited \subseteq PipelineKinds
           /\ \A k \in cited : PhaseRank[k] < PhaseRank[kind]
  <1>1. kind \in PipelineKinds /\ cited \subseteq PipelineKinds
    BY DEF Citations, PipelineKinds, Traced
  <1>2. \A k \in cited : PhaseRank[k] < PhaseRank[kind]
    BY Ranks DEF Citations
  <1> QED  BY <1>1, <1>2

\* What the current version of a kind cites are the current versions of kinds
\* that it may cite.
LEMMA CurrentCites ==
    ASSUME NEW texts, NEW p, Chain(p, texts), NEW kind \in PipelineKinds, HasCurrent(p, kind)
    PROVE  /\ Current(p, kind) \in Ids(p)
           /\ Current(p, kind)[1] = kind
           /\ IsLive(p, Current(p, kind))
           /\ \E cited :
                /\ <<kind, cited>> \in Citations
                /\ AllCurrent(p, cited)
                /\ Upstream(p, kind) = {Current(p, k) : k \in cited}
  <1> DEFINE id == Current(p, kind)
             cited == KindsOf(Artifact(p, id).upstream)
  <1>1. Base(p, texts) /\ InputsLive(p) /\ Cites(p)
    BY DEF Chain, Layered
  <1>2. id \in Ids(p) /\ id[1] = kind /\ IsLive(p, id)
    BY <1>1, CurrentIsLive, PhaseKinds
  <1>3. <<kind, cited>> \in Citations
    BY <1>1, <1>2 DEF Cites
  <1>4. \A k \in cited : k \in PipelineKinds
    BY <1>3, CitationsGoDown
  <1>5. ASSUME NEW r \in Artifact(p, id).upstream
        PROVE  r[1] \in cited /\ HasCurrent(p, r[1]) /\ r = Current(p, r[1])
    <2>1. IsLive(p, r) /\ r[1] \in cited
      BY <1>1, <1>2 DEF InputsLive, KindsOf
    <2> QED  BY <1>1, <1>4, <2>1, LiveIsCurrent, PhaseKinds
  <1>6. AllCurrent(p, cited)
    BY <1>5 DEF AllCurrent, KindsOf
  <1>7. Artifact(p, id).upstream = {Current(p, k) : k \in cited}
    BY <1>5 DEF KindsOf
  <1> QED  BY <1>2, <1>3, <1>6, <1>7 DEF Upstream

-----------------------------------------------------------------------------
(***************************************************************************)
(* The invariant under one derivation and under one decision.              *)
(***************************************************************************)

\* What a content is tied to is not rewritten.
LEMMA BoundIsKept ==
    ASSUME NEW p, NEW q, Extends(p, q), NEW kind, NEW content,
           NEW upstream \in SUBSET Ids(p), NEW lineage,
           BoundTo(p, kind, content, upstream, lineage)
    PROVE  BoundTo(q, kind, content, upstream, lineage)
  <1>1. \A id \in Ids(p) : id \in Ids(q) /\ Artifact(q, id).content = Artifact(p, id).content
    BY DEF Extends
  <1>2. \A id \in upstream : Artifact(q, id).content = Artifact(p, id).content
    BY <1>1
  <1> QED  BY <1>1, <1>2 DEF BoundTo

\* A derivation keeps the invariant if the new version itself has it.
LEMMA DerivedKeepsChain ==
    ASSUME NEW texts, NEW p, Chain(p, texts), SourceLive(p),
           NEW kind, kind # OriginalSpec, NEW content \in texts, NEW refs,
           <<kind, KindsOf(refs)>> \in Citations,
           NEW q \in Derived(p, kind, content, refs),
           BoundTo(p, kind, content, refs, Above(p, refs)),
           \A r \in Above(p, refs) : <<kind, r[1]>> \in StandsOn => IsApproved(p, r)
    PROVE  /\ Chain(q, texts)
           /\ SourceLive(q)
           /\ Derives(p, q, kind, content, refs)
           /\ \A r \in refs : IsLive(p, r) /\ IsLive(q, r)
  <1> DEFINE new == Current(q, kind)
  <1>1. kind \in Kinds \ {OriginalSpec, RuntimeEvidence} /\ kind \in PipelineKinds
    BY CitationsGoDown, PhaseKinds
  <1>2. CanAddDerived(p, kind, refs) /\ q = AddDerived(p, kind, content, refs)
    BY DEF Derived
  <1>3. /\ Layered(p, PhaseRank, texts) /\ Base(p, texts) /\ LineageLive(p)
        /\ Cites(p) /\ Bound(p) /\ ApprovedAbove(p)
    BY DEF Chain, Layered
  <1>4. \A r \in refs : IsLive(p, r) /\ r \in Ids(p) /\ PhaseRank[r[1]] < PhaseRank[kind]
    <2>1. \A r \in refs : r[1] \in KindsOf(refs)
      BY DEF KindsOf
    <2> QED  BY <1>2, <2>1, CitationsGoDown DEF CanAddDerived, IsLive
  <1>5. Layered(q, PhaseRank, texts)
    BY <1>1, <1>2, <1>3, <1>4, AddDerivedKeepsLayers, PhaseKinds
  <1>6. SourceLive(q)
    BY <1>1, <1>2, <1>3, AddDerivedKeepsInv
  <1>7. Derives(p, q, kind, content, refs)
    BY <1>1, <1>2, <1>3, AddDerivedDerives
  <1>8. \A r \in refs : IsLive(q, r)
    <2> SUFFICES ASSUME NEW r \in refs  PROVE IsLive(q, r)
      OBVIOUS
    <2>1. r[1] \in Kinds
      BY <1>3, <1>4, IdsOfProject DEF Base, Typed
    <2>2. r[1] # kind /\ PhaseRank[r[1]] <= PhaseRank[kind]
      BY <1>1, <1>4, <2>1, PhaseKinds
    <2> QED  BY <1>1, <1>3, <1>4, <1>7, <2>2, LowerStaysLive, PhaseKinds
  <1>9. LineageLive(q)
    BY <1>3, <1>4, <1>7, <1>8, DerivesKeepsLineageLive
  <1>10. /\ Extends(p, q) /\ KeepsDecisions(p, q)
         /\ Ids(q) = Ids(p) \cup {new} /\ new[1] = kind
         /\ Artifact(q, new).content = content
         /\ Artifact(q, new).upstream = refs
         /\ Artifact(q, new).lineage = Above(p, refs)
    BY <1>7 DEF Derives, Above
  <1>11. \A id \in Ids(p) : Artifact(p, id).upstream \subseteq Ids(p) /\ Artifact(p, id).lineage \subseteq Ids(p)
    BY <1>3 DEF Base, LineageClosed
  <1> HIDE DEF new
  <1>12. Cites(q)
    BY <1>3, <1>10 DEF Cites, Extends
  <1>13. Bound(q)
    <2>1. ASSUME NEW id \in Ids(p)
          PROVE  BoundTo(q, id[1], Artifact(q, id).content, Artifact(q, id).upstream, Artifact(q, id).lineage)
      <3>1. BoundTo(p, id[1], Artifact(p, id).content, Artifact(p, id).upstream, Artifact(p, id).lineage)
        BY <1>3 DEF Bound
      <3>2. BoundTo(q, id[1], Artifact(p, id).content, Artifact(p, id).upstream, Artifact(p, id).lineage)
        BY <3>1, <1>10, <1>11, BoundIsKept
      <3> QED  BY <3>2, <1>10 DEF Extends
    <2>2. BoundTo(q, kind, content, refs, Above(p, refs))
      BY <1>4, <1>10, BoundIsKept
    <2>3. BoundTo(q, new[1], Artifact(q, new).content, Artifact(q, new).upstream, Artifact(q, new).lineage)
      BY <1>10, <2>2
    <2> QED  BY <1>10, <2>1, <2>3 DEF Bound
  <1>14. ApprovedAbove(q)
    <2> SUFFICES ASSUME NEW id \in Ids(q), IsLive(q, id), NEW r \in Artifact(q, id).lineage,
                        <<id[1], r[1]>> \in StandsOn
                 PROVE  IsApproved(q, r)
      BY DEF ApprovedAbove
    <2>1. IsLive(q, r)
      BY <1>9 DEF LineageLive
    <2>2. r \in Ids(p) /\ IsApproved(p, r)
      <3>1. CASE id \in Ids(p)
        <4>1. IsLive(p, id) /\ r \in Artifact(p, id).lineage
          BY <3>1, <1>10 DEF Extends
        <4> QED  BY <3>1, <4>1, <1>3, <1>11 DEF ApprovedAbove
      <3>2. CASE id = new
        <4>1. r \in Above(p, refs) /\ <<kind, r[1]>> \in StandsOn
          BY <3>2, <1>10
        <4>2. r \in Ids(p)
          BY <4>1, <1>4, <1>11 DEF Above
        <4> QED  BY <4>1, <4>2
      <3> QED  BY <3>1, <3>2, <1>10
    <2> QED  BY <2>1, <2>2, <1>10 DEF KeepsDecisions, IsApproved
  <1> QED  BY <1>4, <1>5, <1>6, <1>7, <1>8, <1>9, <1>12, <1>13, <1>14 DEF Chain

\* So does anything that adds no version and lets an approval go only with all
\* that is built on the artifact.
LEMMA FallsKeepChain ==
    ASSUME NEW texts, NEW p, Chain(p, texts),
           NEW q, Layered(q, PhaseRank, texts), LineageLive(q),
           Ids(q) = Ids(p), Extends(p, q), Cascades(p, q)
    PROVE  Chain(q, texts)
  <1>1. /\ Base(p, texts) /\ Cites(p) /\ Bound(p) /\ ApprovedAbove(p)
    BY DEF Chain, Layered
  <1>2. \A id \in Ids(p) : Artifact(p, id).upstream \subseteq Ids(p) /\ Artifact(p, id).lineage \subseteq Ids(p)
    BY <1>1 DEF Base, LineageClosed
  <1>3. Cites(q)
    BY <1>1 DEF Cites, Extends
  <1>4. Bound(q)
    <2> SUFFICES ASSUME NEW id \in Ids(p)
                 PROVE  BoundTo(q, id[1], Artifact(q, id).content, Artifact(q, id).upstream, Artifact(q, id).lineage)
      BY DEF Bound
    <2>1. BoundTo(p, id[1], Artifact(p, id).content, Artifact(p, id).upstream, Artifact(p, id).lineage)
      BY <1>1 DEF Bound
    <2>2. BoundTo(q, id[1], Artifact(p, id).content, Artifact(p, id).upstream, Artifact(p, id).lineage)
      BY <2>1, <1>2, BoundIsKept
    <2> QED  BY <2>2 DEF Extends
  <1>5. ApprovedAbove(q)
    <2> SUFFICES ASSUME NEW id \in Ids(p), IsLive(q, id), NEW r \in Artifact(q, id).lineage,
                        <<id[1], r[1]>> \in StandsOn
                 PROVE  IsApproved(q, r)
      BY DEF ApprovedAbove
    <2>1. IsLive(p, id) /\ r \in Artifact(p, id).lineage /\ r \in Ids(p)
      BY <1>2 DEF Extends
    <2>2. IsApproved(p, r)
      BY <1>1, <2>1 DEF ApprovedAbove
    <2> QED  BY <2>1, <2>2 DEF Cascades
  <1> QED  BY <1>3, <1>4, <1>5 DEF Chain

-----------------------------------------------------------------------------
(***************************************************************************)
(* What comes in pairs.                                                    *)
(***************************************************************************)

\* What falls below one artifact falls from both of a pair, or the artifact
\* is not the second of them.
LEMMA FallsKeepTwin ==
    ASSUME NEW texts, NEW p, Base(p, texts), NEW kind, NEW other, Twin(p, kind, other),
           NEW q, Extends(p, q), NEW c, c[1] # other \/ IsLive(q, c), FallsBelow(p, q, c),
           NEW id \in Ids(p), IsLive(q, id), id[1] = kind
    PROVE  \E twin \in Ids(q) :
              /\ IsLive(q, twin) /\ twin[1] = other
              /\ Artifact(q, twin).lineage \subseteq Artifact(q, id).lineage
  <1>1. IsLive(p, id)
    BY DEF Extends
  <1>2. PICK twin \in Ids(p) :
           /\ IsLive(p, twin) /\ twin[1] = other
           /\ Artifact(p, twin).lineage \subseteq Artifact(p, id).lineage
    BY <1>1 DEF Twin
  <1>3. c \notin Artifact(p, id).lineage
    BY DEF FallsBelow
  <1>4. IsLive(q, twin)
    BY <1>2, <1>3 DEF FallsBelow
  <1> QED  BY <1>2, <1>4 DEF Extends

\* A pair is left alone when a third kind gets a version.
LEMMA DerivesKeepsTwin ==
    ASSUME NEW texts, NEW p, Base(p, texts), NEW kind, NEW other, Twin(p, kind, other),
           NEW third \in Kinds \ {RuntimeEvidence}, third # kind, third # other,
           NEW q, NEW content, NEW refs, Derives(p, q, third, content, refs)
    PROVE  Twin(q, kind, other)
  <1> SUFFICES ASSUME NEW id \in Ids(q), IsLive(q, id), id[1] = kind
               PROVE  \E twin \in Ids(q) :
                          /\ IsLive(q, twin) /\ twin[1] = other
                          /\ Artifact(q, twin).lineage \subseteq Artifact(q, id).lineage
    BY DEF Twin
  <1>1. id \in Ids(p) /\ Extends(p, q)
    BY DEF Derives
  <1>2. CASE HasCurrent(p, third) /\ FallsBelow(p, q, Current(p, third))
    <2>1. Current(p, third)[1] = third
      BY <1>2, CurrentIsLive
    <2> QED  BY <1>1, <1>2, <2>1, FallsKeepTwin
  <1>3. CASE \A a \in Ids(p) : IsLive(p, a) => IsLive(q, a)
    <2>1. IsLive(p, id)
      BY <1>1 DEF Extends
    <2>2. PICK twin \in Ids(p) :
             /\ IsLive(p, twin) /\ twin[1] = other
             /\ Artifact(p, twin).lineage \subseteq Artifact(p, id).lineage
      BY <1>1, <2>1 DEF Twin
    <2> QED  BY <1>1, <1>3, <2>2 DEF Extends
  <1> QED  BY <1>2, <1>3 DEF Derives

\* A new version of the second kind is the twin of every live version of the
\* first that is built on all that it cites.
LEMMA DerivesTwin ==
    ASSUME NEW texts, NEW p, Base(p, texts), NEW kind, NEW other, kind # other,
           NEW q, NEW content, NEW refs \in SUBSET Ids(p), Derives(p, q, other, content, refs),
           \A id \in Ids(p) : IsLive(p, id) /\ id[1] = kind => refs \subseteq Artifact(p, id).lineage
    PROVE  Twin(q, kind, other)
  <1> SUFFICES ASSUME NEW id \in Ids(q), IsLive(q, id), id[1] = kind
               PROVE  \E twin \in Ids(q) :
                          /\ IsLive(q, twin) /\ twin[1] = other
                          /\ Artifact(q, twin).lineage \subseteq Artifact(q, id).lineage
    BY DEF Twin
  <1> DEFINE new == Current(q, other)
  <1>1. /\ id \in Ids(p) /\ IsLive(p, id) /\ Artifact(q, id).lineage = Artifact(p, id).lineage
        /\ new \in Ids(q) /\ IsLive(q, new) /\ new[1] = other
        /\ Artifact(q, new).lineage = refs \cup UNION {Artifact(p, r).lineage : r \in refs}
    BY DEF Derives, Extends
  <1> HIDE DEF new
  <1>2. \A r \in refs : r \in Artifact(p, id).lineage /\ Artifact(p, r).lineage \subseteq Artifact(p, id).lineage
    BY <1>1 DEF Base, LineageClosed
  <1>3. Artifact(q, new).lineage \subseteq Artifact(p, id).lineage
    BY <1>1, <1>2
  <1> QED  BY <1>1, <1>3

-----------------------------------------------------------------------------
(***************************************************************************)
(* Decisions, comments and the source.                                     *)
(***************************************************************************)

\* A decision keeps the invariant.
LEMMA DecidedKeepsInv ==
    ASSUME NEW texts, NEW p, PhaseInv(p, texts),
           NEW id, NEW decision \in ReviewDecisions, NEW q \in Decided(p, id, decision)
    PROVE  PhaseInv(q, texts)
  <1>1. /\ Chain(p, texts) /\ SourceLive(p) /\ Twins(p)
        /\ Layered(p, PhaseRank, texts) /\ Base(p, texts) /\ LineageLive(p)
    BY DEF PhaseInv, Chain, Layered
  <1>2. CanDecide(p, id) /\ q = Decide(p, id, decision)
    BY DEF Decided
  <1>3. Layered(q, PhaseRank, texts) /\ SourceLive(q)
    BY <1>1, <1>2, DecideKeepsLayers, DecideKeepsInv, PhaseKinds
  <1>4. /\ Ids(q) = Ids(p) /\ Extends(p, q) /\ Cascades(p, q) /\ IsLive(q, id)
        /\ \/ FallsBelow(p, q, id)
           \/ \A other \in Ids(p) : IsLive(p, other) => IsLive(q, other)
    BY <1>1, <1>2, DecideFalls, PhaseKinds
  <1>5. LineageLive(q)
    <2>1. CASE FallsBelow(p, q, id)
      BY <1>1, <1>4, <2>1, FallsKeepLineageLive DEF LineageLive
    <2>2. CASE \A other \in Ids(p) : IsLive(p, other) => IsLive(q, other)
      BY <1>1, <1>4, <2>2 DEF LineageLive, Extends, Base, LineageClosed
    <2> QED  BY <1>4, <2>1, <2>2
  <1>6. Chain(q, texts)
    BY <1>1, <1>3, <1>4, <1>5, FallsKeepChain
  <1>7. ASSUME NEW kind, NEW other, Twin(p, kind, other)
        PROVE  Twin(q, kind, other)
    <2>1. CASE FallsBelow(p, q, id)
      BY <1>1, <1>4, <1>7, <2>1, FallsKeepTwin DEF Twin
    <2>2. CASE \A a \in Ids(p) : IsLive(p, a) => IsLive(q, a)
      BY <1>4, <1>7, <2>2 DEF Twin, Extends
    <2> QED  BY <1>4, <2>1, <2>2
  <1> QED  BY <1>1, <1>3, <1>6, <1>7 DEF PhaseInv, Twins

\* A comment keeps it.
LEMMA AnnotatedKeepsInv ==
    ASSUME NEW texts, NEW p, PhaseInv(p, texts), NEW id, NEW q \in Annotated(p, id)
    PROVE  PhaseInv(q, texts)
  <1>1. /\ Chain(p, texts) /\ SourceLive(p) /\ Twins(p)
        /\ Layered(p, PhaseRank, texts) /\ Base(p, texts) /\ LineageLive(p)
    BY DEF PhaseInv, Chain, Layered
  <1>2. CanAnnotate(p, id) /\ q = Annotate(p, id)
    BY DEF Annotated
  <1>3. Layered(q, PhaseRank, texts) /\ SourceLive(q)
    BY <1>1, <1>2, AnnotateKeepsLayers, AnnotateKeepsInv, PhaseKinds
  <1>4. Ids(q) = Ids(p) /\ Extends(p, q) /\ Cascades(p, q)
    BY <1>1, <1>2, AnnotateSteps
  <1>5. \A other \in Ids(p) : IsLive(q, other) <=> IsLive(p, other)
    <2>1. q.artifacts = p.artifacts
      BY <1>1, <1>2 DEF Annotate, Base, Typed, ProjectRecords
    <2> QED  BY <2>1 DEF IsLive, Ids, Artifact
  <1>6. LineageLive(q)
    BY <1>1, <1>4, <1>5 DEF LineageLive, Extends, Base, LineageClosed
  <1>7. Chain(q, texts)
    BY <1>1, <1>3, <1>4, <1>6, FallsKeepChain
  <1>8. Twins(q)
    BY <1>1, <1>4, <1>5 DEF Twins, Twin, Extends
  <1> QED  BY <1>3, <1>7, <1>8 DEF PhaseInv

\* A new project has one version, of the source.
LEMMA NewProjectKeepsPhaseInv ==
    ASSUME NEW texts, NEW source \in texts, NEW p, p = NewProject(source)
    PROVE  PhaseInv(p, texts)
  <1>1. /\ Base(p, texts) /\ SourceLive(p) /\ Layered(p, PhaseRank, texts)
        /\ Ids(p) = {<<OriginalSpec, 1>>}
    BY NewProjectKeepsInv, NewProjectKeepsLayers
  <1>2. /\ Artifact(p, <<OriginalSpec, 1>>).upstream = {}
        /\ Artifact(p, <<OriginalSpec, 1>>).lineage = {}
    <2> DEFINE first == [content |-> source, upstream |-> {}, lineage |-> {}, state |-> Live]
    <2>1. p.artifacts[OriginalSpec] = <<first>>
      BY DEF NewProject
    <2>2. Artifact(p, <<OriginalSpec, 1>>) = first
      BY <2>1 DEF Artifact
    <2> QED  BY <2>2
  <1>3. LineageLive(p) /\ ApprovedAbove(p)
    BY <1>1, <1>2 DEF LineageLive, ApprovedAbove
  <1>4. Cites(p)
    <2>1. KindsOf({}) = {}
      BY DEF KindsOf
    <2>2. <<OriginalSpec, {}>> \in Citations
      BY DEF Citations
    <2> QED  BY <1>1, <1>2, <2>1, <2>2 DEF Cites
  <1>5. Bound(p)
    <2>1. \A content, upstream, lineage : BoundTo(p, OriginalSpec, content, upstream, lineage)
      BY DEF BoundTo
    <2>2. \A id \in Ids(p) : id[1] = OriginalSpec
      BY <1>1
    <2> QED  BY <2>1, <2>2 DEF Bound
  <1>6. Twins(p)
    <2>1. \A id \in Ids(p) : id[1] = OriginalSpec
      BY <1>1
    <2>2. ASSUME NEW kind, NEW other, kind # OriginalSpec
          PROVE  Twin(p, kind, other)
      BY <2>1, <2>2 DEF Twin
    <2> QED  BY <2>2 DEF Twins
  <1> QED  BY <1>1, <1>3, <1>4, <1>5, <1>6 DEF PhaseInv, Chain

\* The source of a project: all that is live is built on it, so a new one
\* leaves nothing else live.
LEMMA ReplaceSourceKeepsPhaseInv ==
    ASSUME NEW texts, NEW p, PhaseInv(p, texts), CanReplaceSource(p), NEW content \in texts
    PROVE  PhaseInv(ReplaceSource(p, content), texts)
  <1> DEFINE source == Current(p, OriginalSpec)
             kept == InvalidateFrom(p, {source})
             q == Appended(kept, OriginalSpec, content, {})
             new == Current(q, OriginalSpec)
  <1>1. /\ Chain(p, texts) /\ SourceLive(p) /\ Twins(p)
        /\ Layered(p, PhaseRank, texts) /\ Base(p, texts) /\ LineageLive(p)
    BY DEF PhaseInv, Chain, Layered
  <1>2. OriginalSpec \in Kinds \ {RuntimeEvidence} /\ HasCurrent(p, OriginalSpec)
    BY DEF RuntimeEvidence, CanReplaceSource
  <1>3. /\ Layered(kept, PhaseRank, texts) /\ Base(kept, texts) /\ ~HasCurrent(kept, OriginalSpec)
        /\ Ids(kept) = Ids(p) /\ Extends(p, kept) /\ Cascades(p, kept)
        /\ FallsBelow(p, kept, source) /\ ~IsLive(kept, source) /\ source[1] = OriginalSpec
    BY <1>1, <1>2, InvalidateFromKeepsLayers, PhaseKinds, SupersededIsGone, InvalidateFromExtends,
       InvalidateFromCascades, InvalidateFromFalls, CurrentIsLive DEF Layered
  <1>4. Len(kept.artifacts[OriginalSpec]) < MaxVersions
    BY <1>1, InvalidateFromProject DEF Base, Typed, CanReplaceSource
  <1> HIDE DEF kept, source
  <1>5. LineageLive(kept)
    BY <1>1, <1>3, FallsKeepLineageLive DEF LineageLive
  <1>6. Chain(kept, texts)
    BY <1>1, <1>3, <1>5, FallsKeepChain
  <1>7. Twins(kept)
    <2>1. ASSUME NEW kind, NEW other, other # OriginalSpec, Twin(p, kind, other)
          PROVE  Twin(kept, kind, other)
      BY <1>1, <1>3, <2>1, FallsKeepTwin DEF Twin
    <2> QED  BY <1>1, <2>1 DEF Twins
  <1>8. Layered(q, PhaseRank, texts)
    BY <1>2, <1>3, <1>4, AppendedKeepsLayers, PhaseKinds
  <1>9. Derives(kept, q, OriginalSpec, content, {})
    BY <1>2, <1>3, <1>4, AppendedIsCurrent
  <1>10. SourceLive(ReplaceSource(p, content))
    BY <1>1, ReplaceSourceKeepsInv
  <1> HIDE DEF q
  <1>11. /\ Ids(q) = Ids(kept) \cup {new} /\ new[1] = OriginalSpec
         /\ Artifact(q, new).upstream = {} /\ Artifact(q, new).lineage = {}
         /\ Extends(kept, q) /\ KeepsDecisions(kept, q)
         /\ \A id \in Ids(kept) : IsLive(kept, id) => IsLive(q, id)
    BY <1>3, <1>9 DEF Derives
  <1> HIDE DEF new
  <1>12. LineageLive(q)
    BY <1>3, <1>5, <1>9, DerivesKeepsLineageLive
  <1>13. /\ Cites(kept) /\ Bound(kept) /\ ApprovedAbove(kept)
         /\ \A id \in Ids(kept) : Artifact(kept, id).upstream \subseteq Ids(kept)
                                    /\ Artifact(kept, id).lineage \subseteq Ids(kept)
    BY <1>3, <1>6 DEF Chain, Base, LineageClosed
  <1>14. Cites(q)
    <2>1. <<new[1], KindsOf(Artifact(q, new).upstream)>> \in Citations
      BY <1>11 DEF Citations, KindsOf
    <2> QED  BY <2>1, <1>11, <1>13 DEF Cites, Extends
  <1>15. Bound(q)
    <2>1. ASSUME NEW id \in Ids(kept)
          PROVE  BoundTo(q, id[1], Artifact(q, id).content, Artifact(q, id).upstream, Artifact(q, id).lineage)
      <3>1. BoundTo(kept, id[1], Artifact(kept, id).content, Artifact(kept, id).upstream, Artifact(kept, id).lineage)
        BY <1>13 DEF Bound
      <3>2. BoundTo(q, id[1], Artifact(kept, id).content, Artifact(kept, id).upstream, Artifact(kept, id).lineage)
        BY <3>1, <1>11, <1>13, BoundIsKept
      <3> QED  BY <3>2, <1>11 DEF Extends
    <2>2. BoundTo(q, new[1], Artifact(q, new).content, Artifact(q, new).upstream, Artifact(q, new).lineage)
      BY <1>11 DEF BoundTo
    <2> QED  BY <1>11, <2>1, <2>2 DEF Bound
  <1>16. ApprovedAbove(q)
    <2> SUFFICES ASSUME NEW id \in Ids(q), IsLive(q, id), NEW r \in Artifact(q, id).lineage,
                        <<id[1], r[1]>> \in StandsOn
                 PROVE  IsApproved(q, r)
      BY DEF ApprovedAbove
    <2>1. id \in Ids(kept) /\ IsLive(kept, id) /\ r \in Artifact(kept, id).lineage /\ r \in Ids(kept)
      BY <1>11, <1>13 DEF Extends
    <2>2. IsApproved(kept, r) /\ IsLive(q, r)
      BY <2>1, <1>12, <1>13 DEF ApprovedAbove, LineageLive
    <2> QED  BY <2>1, <2>2, <1>11 DEF KeepsDecisions, IsApproved
  <1>17. Twins(q)
    <2>1. ASSUME NEW kind, NEW other, kind # OriginalSpec, other # OriginalSpec, Twin(kept, kind, other)
          PROVE  Twin(q, kind, other)
      BY <1>2, <1>3, <1>9, <2>1, DerivesKeepsTwin
    <2> QED  BY <1>7, <2>1 DEF Twins
  <1>18. PhaseInv(q, texts) \/ ReplaceSource(p, content) = p
    BY <1>8, <1>10, <1>12, <1>14, <1>15, <1>16, <1>17 DEF PhaseInv, Chain, ReplaceSource, q, kept, source
  <1> QED  BY <1>10, <1>18 DEF ReplaceSource, q, kept, source

-----------------------------------------------------------------------------
(***************************************************************************)
(* What the current version of each kind cites.                            *)
(***************************************************************************)

\* Phases 2 and 3.
LEMMA SpecificationsCite ==
    ASSUME NEW texts, NEW p, Chain(p, texts)
    PROVE  /\ HasCurrent(p, ElaboratedSpec) =>
                /\ HasCurrent(p, OriginalSpec)
                /\ \/ Upstream(p, ElaboratedSpec) = {Current(p, OriginalSpec)}
                   \/ /\ HasCurrent(p, ElaborationLog)
                      /\ Upstream(p, ElaboratedSpec) =
                            {Current(p, OriginalSpec), Current(p, ElaborationLog)}
           /\ HasCurrent(p, TestSpec) =>
                /\ HasCurrent(p, ElaboratedSpec)
                /\ \/ Upstream(p, TestSpec) = {Current(p, ElaboratedSpec)}
                   \/ /\ HasCurrent(p, ElaborationLog)
                      /\ Upstream(p, TestSpec) =
                            {Current(p, ElaboratedSpec), Current(p, ElaborationLog)}
           /\ HasCurrent(p, ReviewLog) =>
                /\ HasCurrent(p, ElaboratedSpec) /\ HasCurrent(p, TestSpec)
                /\ Upstream(p, ReviewLog) = {Current(p, ElaboratedSpec), Current(p, TestSpec)}
           /\ HasCurrent(p, ReviewedSpec) =>
                /\ HasCurrent(p, ElaboratedSpec) /\ HasCurrent(p, ReviewLog)
                /\ Upstream(p, ReviewedSpec) = {Current(p, ElaboratedSpec), Current(p, ReviewLog)}
           /\ HasCurrent(p, ReviewedTests) =>
                /\ HasCurrent(p, TestSpec) /\ HasCurrent(p, ReviewLog)
                /\ Upstream(p, ReviewedTests) = {Current(p, TestSpec), Current(p, ReviewLog)}
  <1>1. ASSUME NEW kind \in PipelineKinds, HasCurrent(p, kind)
        PROVE  \E cited : /\ <<kind, cited>> \in Citations /\ AllCurrent(p, cited)
                          /\ Upstream(p, kind) = {Current(p, k) : k \in cited}
    BY <1>1, CurrentCites
  <1>2. {ElaboratedSpec, TestSpec, ReviewLog, ReviewedSpec, ReviewedTests} \subseteq PipelineKinds
    BY DEF PipelineKinds, Traced
  <1>3. ASSUME HasCurrent(p, ElaboratedSpec)
        PROVE  /\ HasCurrent(p, OriginalSpec)
               /\ \/ Upstream(p, ElaboratedSpec) = {Current(p, OriginalSpec)}
                  \/ /\ HasCurrent(p, ElaborationLog)
                     /\ Upstream(p, ElaboratedSpec) = {Current(p, OriginalSpec), Current(p, ElaborationLog)}
    <2>1. PICK cited : /\ <<ElaboratedSpec, cited>> \in Citations /\ AllCurrent(p, cited)
                       /\ Upstream(p, ElaboratedSpec) = {Current(p, k) : k \in cited}
      BY <1>1, <1>2, <1>3
    <2>2. cited = {OriginalSpec} \/ cited = {OriginalSpec, ElaborationLog}
      BY <2>1 DEF Citations
    <2> QED  BY <2>1, <2>2 DEF AllCurrent
  <1>4. ASSUME HasCurrent(p, TestSpec)
        PROVE  /\ HasCurrent(p, ElaboratedSpec)
               /\ \/ Upstream(p, TestSpec) = {Current(p, ElaboratedSpec)}
                  \/ /\ HasCurrent(p, ElaborationLog)
                     /\ Upstream(p, TestSpec) = {Current(p, ElaboratedSpec), Current(p, ElaborationLog)}
    <2>1. PICK cited : /\ <<TestSpec, cited>> \in Citations /\ AllCurrent(p, cited)
                       /\ Upstream(p, TestSpec) = {Current(p, k) : k \in cited}
      BY <1>1, <1>2, <1>4
    <2>2. cited = {ElaboratedSpec} \/ cited = {ElaboratedSpec, ElaborationLog}
      BY <2>1 DEF Citations
    <2> QED  BY <2>1, <2>2 DEF AllCurrent
  <1>5. ASSUME NEW kind \in {ReviewLog, ReviewedSpec, ReviewedTests}, HasCurrent(p, kind),
               NEW a, NEW b, \A cited : <<kind, cited>> \in Citations => cited = {a, b}
        PROVE  HasCurrent(p, a) /\ HasCurrent(p, b) /\ Upstream(p, kind) = {Current(p, a), Current(p, b)}
    <2>1. PICK cited : /\ <<kind, cited>> \in Citations /\ AllCurrent(p, cited)
                       /\ Upstream(p, kind) = {Current(p, k) : k \in cited}
      BY <1>1, <1>2, <1>5
    <2> QED  BY <1>5, <2>1 DEF AllCurrent
  <1>6. /\ \A cited : <<ReviewLog, cited>> \in Citations => cited = {ElaboratedSpec, TestSpec}
        /\ \A cited : <<ReviewedSpec, cited>> \in Citations => cited = {ElaboratedSpec, ReviewLog}
        /\ \A cited : <<ReviewedTests, cited>> \in Citations => cited = {TestSpec, ReviewLog}
    BY DEF Citations
  <1> QED  BY <1>3, <1>4, <1>5, <1>6

\* Phases 4 to 7.
LEMMA ProgramsCite ==
    ASSUME NEW texts, NEW p, Chain(p, texts)
    PROVE  /\ \A kind \in {LogicalIRLog, LogicalIR} : HasCurrent(p, kind) =>
                /\ HasCurrent(p, ReviewedSpec) /\ HasCurrent(p, ReviewedTests)
                /\ Upstream(p, kind) = {Current(p, ReviewedSpec), Current(p, ReviewedTests)}
           /\ \A kind \in {LogicalReview, CompilerOutput} : HasCurrent(p, kind) =>
                /\ HasCurrent(p, LogicalIR)
                /\ Upstream(p, kind) = {Current(p, LogicalIR)}
           /\ HasCurrent(p, CompilationLog) =>
                /\ HasCurrent(p, ReviewedSpec) /\ HasCurrent(p, ReviewedTests) /\ HasCurrent(p, LogicalIR)
                /\ Upstream(p, CompilationLog) =
                        {Current(p, ReviewedSpec), Current(p, ReviewedTests), Current(p, LogicalIR)}
           /\ HasCurrent(p, SandboxHandoff) =>
                HasCurrent(p, CompilerOutput) /\ Upstream(p, SandboxHandoff) = {Current(p, CompilerOutput)}
           /\ HasCurrent(p, TestResult) =>
                HasCurrent(p, SandboxHandoff) /\ Upstream(p, TestResult) = {Current(p, SandboxHandoff)}
           /\ HasCurrent(p, TraceabilityReport) =>
                /\ HasCurrent(p, CompilerOutput) /\ HasCurrent(p, TestResult)
                /\ Upstream(p, TraceabilityReport) = {Current(p, CompilerOutput), Current(p, TestResult)}
  <1> DEFINE Cited(kind, cited) ==
                HasCurrent(p, kind) =>
                    /\ AllCurrent(p, cited)
                    /\ Upstream(p, kind) = {Current(p, k) : k \in cited}
  <1>1. ASSUME NEW kind \in PipelineKinds, NEW cited,
               \A other : <<kind, other>> \in Citations => other = cited
        PROVE  Cited(kind, cited)
    <2> SUFFICES ASSUME HasCurrent(p, kind)
                 PROVE  AllCurrent(p, cited) /\ Upstream(p, kind) = {Current(p, k) : k \in cited}
      OBVIOUS
    <2>1. PICK other : /\ <<kind, other>> \in Citations /\ AllCurrent(p, other)
                       /\ Upstream(p, kind) = {Current(p, k) : k \in other}
      BY CurrentCites
    <2>2. other = cited
      BY <1>1, <2>1
    <2> QED  BY <2>1, <2>2
  <1>2. {LogicalIRLog, LogicalIR, LogicalReview, CompilationLog, CompilerOutput, SandboxHandoff,
         TestResult, TraceabilityReport} \subseteq PipelineKinds
    BY DEF PipelineKinds, Traced
  <1>3. /\ \A cited : <<LogicalIRLog, cited>> \in Citations => cited = {ReviewedSpec, ReviewedTests}
        /\ \A cited : <<LogicalIR, cited>> \in Citations => cited = {ReviewedSpec, ReviewedTests}
        /\ \A cited : <<LogicalReview, cited>> \in Citations => cited = {LogicalIR}
        /\ \A cited : <<CompilationLog, cited>> \in Citations => cited = {ReviewedSpec, ReviewedTests, LogicalIR}
    BY DEF Citations
  <1>4. /\ \A cited : <<CompilerOutput, cited>> \in Citations => cited = {LogicalIR}
        /\ \A cited : <<SandboxHandoff, cited>> \in Citations => cited = {CompilerOutput}
        /\ \A cited : <<TestResult, cited>> \in Citations => cited = {SandboxHandoff}
        /\ \A cited : <<TraceabilityReport, cited>> \in Citations => cited = {CompilerOutput, TestResult}
    BY DEF Citations
  <1>5. /\ Cited(LogicalIRLog, {ReviewedSpec, ReviewedTests})
        /\ Cited(LogicalIR, {ReviewedSpec, ReviewedTests})
        /\ Cited(LogicalReview, {LogicalIR})
        /\ Cited(CompilationLog, {ReviewedSpec, ReviewedTests, LogicalIR})
    BY <1>1, <1>2, <1>3
  <1>6. /\ Cited(CompilerOutput, {LogicalIR})
        /\ Cited(SandboxHandoff, {CompilerOutput})
        /\ Cited(TestResult, {SandboxHandoff})
        /\ Cited(TraceabilityReport, {CompilerOutput, TestResult})
    BY <1>1, <1>2, <1>4
  <1> QED  BY <1>5, <1>6 DEF AllCurrent

-----------------------------------------------------------------------------
(***************************************************************************)
(* The phase functions.                                                    *)
(***************************************************************************)

\* The current version of a kind of the phases is a live version of the kind.
LEMMA CurrentOfPhase ==
    ASSUME NEW texts, NEW p, Chain(p, texts), NEW kind \in PipelineKinds, HasCurrent(p, kind)
    PROVE  /\ Current(p, kind) \in Ids(p) /\ Current(p, kind)[1] = kind
           /\ IsLive(p, Current(p, kind))
  BY CurrentIsLive, PhaseKinds DEF Chain, Layered

\* All that a live version is built on is live, and so are its kinds' current
\* versions.
LEMMA AboveIsCurrent ==
    ASSUME NEW texts, NEW p, Chain(p, texts), NEW refs, \A r \in refs : IsLive(p, r),
           NEW r \in Above(p, refs)
    PROVE  IsLive(p, r) /\ (r[1] # RuntimeEvidence => r = Current(p, r[1]))
  <1>1. Base(p, texts) /\ LineageLive(p)
    BY DEF Chain, Layered
  <1>2. IsLive(p, r)
    BY <1>1 DEF Above, LineageLive, IsLive
  <1> QED  BY <1>1, <1>2, LiveIsCurrent

\* A derivation of a kind that comes alone keeps the invariant.
LEMMA PlainDerivation ==
    ASSUME NEW texts, NEW p, PhaseInv(p, texts),
           NEW kind, kind \notin {OriginalSpec, ReviewedSpec, ReviewedTests, LogicalIRLog,
                                  LogicalIR, CompilationLog, CompilerOutput},
           NEW content \in texts, NEW refs,
           <<kind, KindsOf(refs)>> \in Citations,
           NEW q \in Derived(p, kind, content, refs),
           BoundTo(p, kind, content, refs, Above(p, refs)),
           \A r \in Above(p, refs) : <<kind, r[1]>> \in StandsOn => IsApproved(p, r)
    PROVE  PhaseInv(q, texts) /\ Derives(p, q, kind, content, refs)
  <1>1. Chain(p, texts) /\ SourceLive(p) /\ Twins(p) /\ Base(p, texts)
    BY DEF PhaseInv, Chain, Layered
  <1>2. Chain(q, texts) /\ SourceLive(q) /\ Derives(p, q, kind, content, refs)
    BY <1>1, DerivedKeepsChain
  <1>3. kind \in Kinds \ {RuntimeEvidence}
    BY CitationsGoDown, PhaseKinds
  <1>4. Twins(q)
    BY <1>1, <1>2, <1>3, DerivesKeepsTwin DEF Twins
  <1> QED  BY <1>2, <1>4 DEF PhaseInv

\* Nothing is lost over two steps if nothing is over either.
LEMMA ExtendsIsTransitive ==
    ASSUME NEW p, NEW q, NEW r, Extends(p, q), Extends(q, r)
    PROVE  Extends(p, r)
  BY DEF Extends

\* And they add what either adds.
LEMMA AddsIsTransitive ==
    ASSUME NEW p, NEW q, NEW r, NEW kinds, Adds(p, q, kinds), Adds(q, r, kinds)
    PROVE  Adds(p, r, kinds)
  <1>1. Extends(p, r)
    BY ExtendsIsTransitive DEF Adds
  <1> QED  BY <1>1 DEF Adds

\* A derivation adds a version of its kind.
LEMMA DerivesAdds ==
    ASSUME NEW p, NEW q, NEW kind, NEW content, NEW refs, Derives(p, q, kind, content, refs),
           NEW kinds, kind \in kinds
    PROVE  Adds(p, q, kinds)
  BY DEF Derives, Adds

\* The derived version is the current one of its kind, and of no other kind
\* that is not above it does the current version change.
LEMMA DerivesStays ==
    ASSUME NEW texts, NEW p, Chain(p, texts), NEW q, Chain(q, texts),
           NEW kind \in PipelineKinds, NEW content, NEW refs, Derives(p, q, kind, content, refs)
    PROVE  /\ HasCurrent(q, kind) /\ ContentOf(q, kind) = content /\ Upstream(q, kind) = refs
           /\ \A k \in PipelineKinds \ {kind} :
                PhaseRank[k] <= PhaseRank[kind] /\ HasCurrent(p, k) => Stays(p, q, k)
  <1>1. HasCurrent(q, kind) /\ ContentOf(q, kind) = content /\ Upstream(q, kind) = refs
    BY DEF Derives, ContentOf, Upstream
  <1>2. ASSUME NEW k \in PipelineKinds \ {kind}, PhaseRank[k] <= PhaseRank[kind], HasCurrent(p, k)
        PROVE  Stays(p, q, k)
    <2> DEFINE id == Current(p, k)
    <2>1. id \in Ids(p) /\ id[1] = k /\ IsLive(p, id)
      BY <1>2, CurrentOfPhase
    <2> HIDE DEF id
    <2>2. IsLive(q, id)
      BY <1>2, <2>1, LowerStaysLive, PhaseKinds DEF Chain
    <2>3. HasCurrent(q, k) /\ id = Current(q, k)
      BY <2>1, <2>2, LiveIsCurrent, PhaseKinds DEF Chain, Layered
    <2>4. /\ Artifact(q, id).content = Artifact(p, id).content
          /\ Artifact(q, id).upstream = Artifact(p, id).upstream
      BY <2>1 DEF Derives, Extends
    <2> QED  BY <2>3, <2>4 DEF Stays, ContentOf, Upstream, id
  <1> QED  BY <1>1, <1>2

\* The kinds that the phases derive without a condition on approvals, and,
\* but for a review log, on content.
LEMMA FreeDerivation ==
    ASSUME NEW texts, NEW p, PhaseInv(p, texts),
           NEW kind \in {ElaborationLog, ElaboratedSpec, TestSpec, ReviewLog},
           NEW content \in texts, kind = ReviewLog => ValidReviewLog(content), NEW refs,
           <<kind, KindsOf(refs)>> \in Citations,
           NEW q \in Derived(p, kind, content, refs)
    PROVE  PhaseInv(q, texts) /\ Derives(p, q, kind, content, refs)
  <1>1. BoundTo(p, kind, content, refs, Above(p, refs))
    BY DEF BoundTo
  <1>2. \A r \in Above(p, refs) : <<kind, r[1]>> \notin StandsOn
    BY DEF StandsOn
  <1> QED  BY <1>1, <1>2, PlainDerivation

\* Phase 2, by an author.
LEMMA SubmitSpecsKeepInv ==
    ASSUME NEW texts, MadeTexts \subseteq texts, NEW p, PhaseInv(p, texts),
           NEW q \in SubmitElaboratedSpec(p) \cup SubmitTestSpec(p)
    PROVE  PhaseInv(q, texts) /\ Adds(p, q, {ElaboratedSpec, TestSpec})
  <1>1. Chain(p, texts) /\ Drafted \in texts
    BY DEF PhaseInv, MadeTexts
  <1>2. {OriginalSpec, ElaboratedSpec} \subseteq PipelineKinds
    BY DEF PipelineKinds, Traced
  <1>3. CASE q \in SubmitElaboratedSpec(p)
    <2>1. /\ HasCurrent(p, OriginalSpec)
          /\ q \in Derived(p, ElaboratedSpec, Drafted, {Current(p, OriginalSpec)})
      BY <1>3 DEF SubmitElaboratedSpec, SubmitDerivedSpec
    <2>2. KindsOf({Current(p, OriginalSpec)}) = {OriginalSpec}
      BY <1>1, <1>2, <2>1, CurrentOfPhase DEF KindsOf
    <2>3. <<ElaboratedSpec, {OriginalSpec}>> \in Citations
      BY DEF Citations
    <2>4. PhaseInv(q, texts) /\ Derives(p, q, ElaboratedSpec, Drafted, {Current(p, OriginalSpec)})
      BY <1>1, <2>1, <2>2, <2>3, FreeDerivation
    <2> QED  BY <2>4, DerivesAdds
  <1>4. CASE q \in SubmitTestSpec(p)
    <2>1. /\ HasCurrent(p, ElaboratedSpec)
          /\ q \in Derived(p, TestSpec, Drafted, {Current(p, ElaboratedSpec)})
      BY <1>4 DEF SubmitTestSpec, SubmitDerivedSpec
    <2>2. KindsOf({Current(p, ElaboratedSpec)}) = {ElaboratedSpec}
      BY <1>1, <1>2, <2>1, CurrentOfPhase DEF KindsOf
    <2>3. <<TestSpec, {ElaboratedSpec}>> \in Citations
      BY DEF Citations
    <2>4. PhaseInv(q, texts) /\ Derives(p, q, TestSpec, Drafted, {Current(p, ElaboratedSpec)})
      BY <1>1, <2>1, <2>2, <2>3, FreeDerivation
    <2> QED  BY <2>4, DerivesAdds
  <1> QED  BY <1>3, <1>4

\* Phase 2, admitted from a provider.
LEMMA AdmitElaborationKeepsInv ==
    ASSUME NEW texts, MadeTexts \subseteq texts, NEW p, PhaseInv(p, texts),
           NEW s \in AddAdmittedElaboration(p)
    PROVE  /\ PhaseInv(s, texts) /\ Adds(p, s, {ElaborationLog, ElaboratedSpec, TestSpec})
           /\ Stays(p, s, OriginalSpec)
           /\ HasCurrent(s, ElaborationLog) /\ Upstream(s, ElaborationLog) = {Current(p, OriginalSpec)}
  <1> DEFINE source == Current(p, OriginalSpec)
  <1>1. HasCurrent(p, OriginalSpec) /\ Chain(p, texts) /\ Drafted \in texts
    BY DEF AddAdmittedElaboration, PhaseInv, MadeTexts
  <1>2. {OriginalSpec, ElaborationLog, ElaboratedSpec} \subseteq PipelineKinds
    BY DEF PipelineKinds, Traced
  <1>3. source \in Ids(p) /\ source[1] = OriginalSpec /\ source \in texts
    BY <1>1, <1>2, CurrentOfPhase DEF Ids, MadeTexts
  <1>4. PICK q \in Derived(p, ElaborationLog, source, {source}) :
           s \in Then(Derived(q, ElaboratedSpec, Drafted, {source, Current(q, ElaborationLog)}), LAMBDA r :
                      Derived(r, TestSpec, Drafted, {Current(r, ElaboratedSpec), Current(r, ElaborationLog)}))
    BY <1>1 DEF AddAdmittedElaboration, Then
  <1>5. PICK r \in Derived(q, ElaboratedSpec, Drafted, {source, Current(q, ElaborationLog)}) :
           s \in Derived(r, TestSpec, Drafted, {Current(r, ElaboratedSpec), Current(r, ElaborationLog)})
    BY <1>4 DEF Then
  <1> HIDE DEF source
  <1>6. PhaseInv(q, texts) /\ Derives(p, q, ElaborationLog, source, {source})
    <2>1. KindsOf({source}) = {OriginalSpec}
      BY <1>3 DEF KindsOf
    <2>2. <<ElaborationLog, {OriginalSpec}>> \in Citations
      BY DEF Citations
    <2> QED  BY <1>3, <1>4, <2>1, <2>2, FreeDerivation
  <1>7. PhaseInv(r, texts) /\ Derives(q, r, ElaboratedSpec, Drafted, {source, Current(q, ElaborationLog)})
    <2>1. Current(q, ElaborationLog)[1] = ElaborationLog
      BY <1>6 DEF Derives
    <2>2. KindsOf({source, Current(q, ElaborationLog)}) = {OriginalSpec, ElaborationLog}
      BY <1>3, <2>1 DEF KindsOf
    <2>3. <<ElaboratedSpec, {OriginalSpec, ElaborationLog}>> \in Citations
      BY DEF Citations
    <2> QED  BY <1>1, <1>5, <1>6, <2>2, <2>3, FreeDerivation
  <1>8. KindsOf({Current(r, ElaboratedSpec), Current(r, ElaborationLog)}) = {ElaboratedSpec, ElaborationLog}
    <2>1. Current(r, ElaboratedSpec)[1] = ElaboratedSpec /\ Current(r, ElaborationLog)[1] = ElaborationLog
      BY DEF Current
    <2> QED  BY <2>1 DEF KindsOf
  <1>9. <<TestSpec, {ElaboratedSpec, ElaborationLog}>> \in Citations
    BY DEF Citations
  <1>10. /\ PhaseInv(s, texts)
         /\ Derives(r, s, TestSpec, Drafted, {Current(r, ElaboratedSpec), Current(r, ElaborationLog)})
    BY <1>1, <1>5, <1>7, <1>8, <1>9, FreeDerivation
  <1>11. Adds(p, s, {ElaborationLog, ElaboratedSpec, TestSpec})
    <2> DEFINE kinds == {ElaborationLog, ElaboratedSpec, TestSpec}
    <2>1. Adds(p, q, kinds) /\ Adds(q, r, kinds) /\ Adds(r, s, kinds)
      BY <1>6, <1>7, <1>10, DerivesAdds
    <2> HIDE DEF kinds
    <2>2. Adds(p, s, kinds)
      BY <2>1, AddsIsTransitive
    <2> QED  BY <2>2 DEF kinds
  <1>12. /\ Stays(p, s, OriginalSpec)
         /\ HasCurrent(s, ElaborationLog) /\ Upstream(s, ElaborationLog) = {source}
    <2>1. Chain(p, texts) /\ Chain(q, texts) /\ Chain(r, texts) /\ Chain(s, texts)
      BY <1>6, <1>7, <1>10 DEF PhaseInv
    <2>2. TestSpec \in PipelineKinds
      BY DEF PipelineKinds, Traced
    <2>3. Stays(p, q, OriginalSpec) /\ HasCurrent(q, ElaborationLog) /\ Upstream(q, ElaborationLog) = {source}
      BY <1>1, <1>2, <1>6, <2>1, DerivesStays, Ranks
    <2>4. Stays(q, r, OriginalSpec) /\ Stays(q, r, ElaborationLog)
      BY <1>2, <1>7, <2>1, <2>3, DerivesStays, Ranks DEF Stays
    <2>5. Stays(r, s, OriginalSpec) /\ Stays(r, s, ElaborationLog)
      BY <1>2, <1>10, <2>1, <2>2, <2>4, DerivesStays, Ranks DEF Stays
    <2> QED  BY <2>3, <2>4, <2>5 DEF Stays
  <1> QED  BY <1>10, <1>11, <1>12 DEF source

-----------------------------------------------------------------------------
(***************************************************************************)
(* Phase 3.                                                                *)
(***************************************************************************)

\* One entry of a review log.
LEMMA RecordEntryKeepsInv ==
    ASSUME NEW texts, NEW p, PhaseInv(p, texts), NEW entry \in ReviewEntries, NEW id,
           NEW q \in RecordEntry(p, entry, id)
    PROVE  PhaseInv(q, texts) /\ Ids(q) = Ids(p) /\ Extends(p, q)
  <1> DEFINE decided == IF entry.targeted THEN {p} ELSE Decided(p, id, entry.decision)
  <1>1. PICK r \in decided : q \in IF entry.commented THEN Annotated(r, id) ELSE {r}
    BY DEF RecordEntry, Then
  <1>2. entry.decision \in ReviewDecisions
    BY DEF ReviewEntries
  <1>3. PhaseInv(r, texts) /\ Ids(r) = Ids(p) /\ Extends(p, r)
    <2>1. CASE r = p
      BY <2>1 DEF Extends
    <2>2. CASE r \in Decided(p, id, entry.decision)
      <3>1. PhaseInv(r, texts)
        BY <1>2, <2>2, DecidedKeepsInv
      <3>2. Base(p, texts) /\ CanDecide(p, id) /\ r = Decide(p, id, entry.decision)
        BY <2>2 DEF Decided, PhaseInv, Chain, Layered
      <3> QED  BY <1>2, <3>1, <3>2, DecideSteps
    <2> QED  BY <1>1, <2>1, <2>2
  <1>4. CASE q = r
    BY <1>3, <1>4
  <1>5. CASE q \in Annotated(r, id)
    <2>1. PhaseInv(q, texts)
      BY <1>3, <1>5, AnnotatedKeepsInv
    <2>2. Base(r, texts) /\ CanAnnotate(r, id) /\ q = Annotate(r, id)
      BY <1>3, <1>5 DEF Annotated, PhaseInv, Chain, Layered
    <2>3. Ids(q) = Ids(r) /\ Extends(r, q)
      BY <2>2, AnnotateSteps
    <2> QED  BY <1>3, <2>1, <2>3, ExtendsIsTransitive
  <1> QED  BY <1>1, <1>4, <1>5

\* All of them.
LEMMA RecordEntriesKeepInv ==
    ASSUME NEW texts, NEW p, PhaseInv(p, texts), NEW entries \in Seq(ReviewEntries),
           NEW elaborated, NEW tests, NEW q \in RecordEntries(p, entries, elaborated, tests)
    PROVE  PhaseInv(q, texts) /\ Ids(q) = Ids(p) /\ Extends(p, q)
  <1> DEFINE Recorded(r, n) ==
                IF n \in DOMAIN entries
                THEN RecordEntry(r, entries[n], IF entries[n].on = TestSpec THEN tests ELSE elaborated)
                ELSE {r}
  <1>1. PICK a, b, c : /\ a \in Recorded(p, 1) /\ b \in Recorded(a, 2)
                       /\ c \in Recorded(b, 3) /\ q \in Recorded(c, 4)
    <2> DEFINE As == Recorded(p, 1)
               Bs == UNION {Recorded(r, 2) : r \in As}
               Cs == UNION {Recorded(r, 3) : r \in Bs}
    <2>1. q \in UNION {Recorded(r, 4) : r \in Cs}
      BY DEF RecordEntries, Then
    <2> HIDE DEF Recorded
    <2> QED  BY <2>1
  <1>2. ASSUME NEW r, PhaseInv(r, texts), Ids(r) = Ids(p), Extends(p, r), NEW n, NEW s \in Recorded(r, n)
        PROVE  PhaseInv(s, texts) /\ Ids(s) = Ids(p) /\ Extends(p, s)
    <2>1. CASE s = r
      BY <1>2, <2>1
    <2>2. CASE n \in DOMAIN entries /\ s \in RecordEntry(r, entries[n], IF entries[n].on = TestSpec THEN tests ELSE elaborated)
      <3>1. entries[n] \in ReviewEntries
        BY <2>2
      <3>2. PhaseInv(s, texts) /\ Ids(s) = Ids(r) /\ Extends(r, s)
        BY <1>2, <2>2, <3>1, RecordEntryKeepsInv
      <3> QED  BY <1>2, <3>2, ExtendsIsTransitive
    <2> QED  BY <1>2, <2>1, <2>2
  <1>3. Extends(p, p)
    BY DEF Extends
  <1> HIDE DEF Recorded
  <1>4. PhaseInv(a, texts) /\ Ids(a) = Ids(p) /\ Extends(p, a)
    BY <1>1, <1>2, <1>3
  <1>5. PhaseInv(b, texts) /\ Ids(b) = Ids(p) /\ Extends(p, b)
    BY <1>1, <1>2, <1>4
  <1>6. PhaseInv(c, texts) /\ Ids(c) = Ids(p) /\ Extends(p, c)
    BY <1>1, <1>2, <1>5
  <1> QED  BY <1>1, <1>2, <1>6

\* The two snapshots are built on the same two specifications and log, which
\* are current and, the specifications, approved.
LEMMA SnapshotsKeepInv ==
    ASSUME NEW texts, MadeTexts \subseteq texts, NEW q, PhaseInv(q, texts),
           NEW es \in Ids(q), es[1] = ElaboratedSpec,
           NEW ts \in Ids(q), ts[1] = TestSpec, IsLive(q, ts),
           NEW log \in Ids(q), log[1] = ReviewLog,
           Artifact(q, log).upstream = {es, ts},
           BothApproved(q, es, ts), NEW review, Artifact(q, log).content = review,
           NEW r \in Derived(q, ReviewedSpec, ReviewedText(Artifact(q, es).content, review), {es, log}),
           NEW s \in Derived(r, ReviewedTests, ReviewedText(Artifact(q, ts).content, review), {ts, log})
    PROVE  PhaseInv(s, texts) /\ Adds(q, s, {ReviewLog, ReviewedSpec, ReviewedTests})
  <1> DEFINE spec == Current(r, ReviewedSpec)
             tests == Current(s, ReviewedTests)
  <1>1. /\ Chain(q, texts) /\ SourceLive(q) /\ Twins(q) /\ Base(q, texts)
        /\ q \in ProjectRecords(texts) /\ Edited \in texts
    BY DEF PhaseInv, Chain, Layered, Base, Typed, MadeTexts
  <1>2. {ElaboratedSpec, TestSpec, ReviewLog, ReviewedSpec, ReviewedTests} \subseteq PipelineKinds
    BY DEF PipelineKinds, Traced
  <1>3. IsLive(q, es) /\ IsLive(q, log)
    BY DEF Derived, CanAddDerived
  <1>4. /\ es = Current(q, ElaboratedSpec) /\ ts = Current(q, TestSpec) /\ log = Current(q, ReviewLog)
    BY <1>1, <1>2, <1>3, LiveIsCurrent, PhaseKinds
  <1>5. /\ {es, ts} \subseteq Artifact(q, log).lineage
        /\ Artifact(q, es).lineage \subseteq Artifact(q, log).lineage
    BY <1>1 DEF Base, LineageClosed
  <1>6. KindsOf({es, log}) = {ElaboratedSpec, ReviewLog} /\ KindsOf({ts, log}) = {TestSpec, ReviewLog}
    BY DEF KindsOf
  <1>7. Chain(r, texts) /\ SourceLive(r)
        /\ Derives(q, r, ReviewedSpec, ReviewedText(Artifact(q, es).content, review), {es, log})
    <2>1. <<ReviewedSpec, {ElaboratedSpec, ReviewLog}>> \in Citations
      BY DEF Citations
    <2>2. ReviewedText(Artifact(q, es).content, review) \in texts
      <3>1. Artifact(q, es) \in ArtifactRecords(texts)
        BY <1>1, IdsOfProject
      <3> QED  BY <1>1, <3>1 DEF ReviewedText, ArtifactRecords
    <2>3. BoundTo(q, ReviewedSpec, ReviewedText(Artifact(q, es).content, review), {es, log}, Above(q, {es, log}))
      BY DEF BoundTo
    <2>4. ASSUME NEW a \in Above(q, {es, log}), <<ReviewedSpec, a[1]>> \in StandsOn
          PROVE  IsApproved(q, a)
      <3>1. a[1] = ElaboratedSpec \/ a[1] = TestSpec
        BY <2>4 DEF StandsOn
      <3>2. a = Current(q, a[1])
        BY <1>1, <1>2, <1>3, <3>1, AboveIsCurrent, PhaseKinds
      <3> QED  BY <1>4, <3>1, <3>2 DEF BothApproved
    <2>5. \A a \in Above(q, {es, log}) : <<ReviewedSpec, a[1]>> \in StandsOn => IsApproved(q, a)
      BY <2>4
    <2>6. <<ReviewedSpec, KindsOf({es, log})>> \in Citations /\ ReviewedSpec # OriginalSpec
      BY <1>6, <2>1
    <2> DEFINE text == ReviewedText(Artifact(q, es).content, review)
               refs == {es, log}
    <2>7. text \in texts /\ r \in Derived(q, ReviewedSpec, text, {es, log})
          /\ BoundTo(q, ReviewedSpec, text, {es, log}, Above(q, {es, log}))
      BY <2>2, <2>3
    <2>8. /\ <<ReviewedSpec, KindsOf(refs)>> \in Citations /\ text \in texts
          /\ r \in Derived(q, ReviewedSpec, text, refs)
          /\ BoundTo(q, ReviewedSpec, text, refs, Above(q, refs))
          /\ \A a \in Above(q, refs) : <<ReviewedSpec, a[1]>> \in StandsOn => IsApproved(q, a)
      BY <2>5, <2>6, <2>7
    <2> HIDE DEF text, refs
    <2>9. Chain(r, texts) /\ SourceLive(r) /\ Derives(q, r, ReviewedSpec, text, refs)
      <3>1. Chain(q, texts) /\ SourceLive(q)
        BY <1>1
      <3> QED  BY <2>6, <2>8, <3>1, DerivedKeepsChain
    <2> QED  BY <2>9 DEF text, refs
  <1>8. /\ Base(r, texts) /\ r \in ProjectRecords(texts)
        /\ Ids(r) = Ids(q) \cup {spec} /\ spec[1] = ReviewedSpec /\ IsLive(r, spec)
        /\ Artifact(r, spec).lineage =
                {es, log} \cup UNION {Artifact(q, a).lineage : a \in {es, log}}
        /\ Extends(q, r) /\ KeepsDecisions(q, r)
        /\ \A id \in Ids(q) : IsLive(r, id) => id[1] # ReviewedSpec
    BY <1>7 DEF Derives, Chain, Layered, Base, Typed
  <1> HIDE DEF spec
  <1>9. /\ ts \in Ids(r) /\ log \in Ids(r) /\ es \in Ids(r)
        /\ Artifact(r, log).content = review /\ Artifact(r, log).lineage = Artifact(q, log).lineage
        /\ Artifact(r, ts).content = Artifact(q, ts).content
    BY <1>8 DEF Extends
  <1>10. Chain(s, texts) /\ SourceLive(s)
         /\ Derives(r, s, ReviewedTests, ReviewedText(Artifact(q, ts).content, review), {ts, log})
         /\ \A a \in {ts, log} : IsLive(r, a)
    <2>1. <<ReviewedTests, {TestSpec, ReviewLog}>> \in Citations
      BY DEF Citations
    <2>2. ReviewedText(Artifact(q, ts).content, review) \in texts
      <3>1. Artifact(q, ts) \in ArtifactRecords(texts)
        BY <1>1, IdsOfProject
      <3> QED  BY <1>1, <3>1 DEF ReviewedText, ArtifactRecords
    <2>3. BoundTo(r, ReviewedTests, ReviewedText(Artifact(q, ts).content, review), {ts, log}, Above(r, {ts, log}))
      BY <1>9 DEF BoundTo
    <2>4. \A a \in {ts, log} : IsLive(r, a)
      BY DEF Derived, CanAddDerived
    <2>5. ASSUME NEW a \in Above(r, {ts, log}), <<ReviewedTests, a[1]>> \in StandsOn
          PROVE  IsApproved(r, a)
      <3>1. a[1] = ElaboratedSpec \/ a[1] = TestSpec
        BY <2>5 DEF StandsOn
      <3>2. IsLive(r, a)
        BY <1>7, <2>4, AboveIsCurrent
      <3>3. a \in Ids(q) /\ IsLive(q, a)
        BY <1>8, <3>1, <3>2 DEF Extends, IsLive
      <3>4. a = Current(q, a[1])
        BY <1>1, <1>2, <3>1, <3>3, LiveIsCurrent, PhaseKinds
      <3>5. IsApproved(q, a)
        BY <1>4, <3>1, <3>4 DEF BothApproved
      <3> QED  BY <1>8, <3>2, <3>3, <3>5 DEF KeepsDecisions, IsApproved
    <2>6. \A a \in Above(r, {ts, log}) : <<ReviewedTests, a[1]>> \in StandsOn => IsApproved(r, a)
      BY <2>5
    <2>7. <<ReviewedTests, KindsOf({ts, log})>> \in Citations /\ ReviewedTests # OriginalSpec
      BY <1>6, <2>1
    <2> DEFINE text == ReviewedText(Artifact(q, ts).content, review)
               refs == {ts, log}
    <2>8. text \in texts /\ s \in Derived(r, ReviewedTests, text, {ts, log})
          /\ BoundTo(r, ReviewedTests, text, {ts, log}, Above(r, {ts, log}))
      BY <2>2, <2>3
    <2>9. /\ <<ReviewedTests, KindsOf(refs)>> \in Citations /\ text \in texts
          /\ s \in Derived(r, ReviewedTests, text, refs)
          /\ BoundTo(r, ReviewedTests, text, refs, Above(r, refs))
          /\ \A a \in Above(r, refs) : <<ReviewedTests, a[1]>> \in StandsOn => IsApproved(r, a)
      BY <2>6, <2>7, <2>8
    <2> HIDE DEF text, refs
    <2>10. Chain(s, texts) /\ SourceLive(s) /\ Derives(r, s, ReviewedTests, text, refs)
      BY <1>7, <2>7, <2>9, DerivedKeepsChain
    <2> QED  BY <2>4, <2>10 DEF text, refs
  <1>11. /\ Ids(s) = Ids(r) \cup {tests} /\ tests[1] = ReviewedTests /\ IsLive(s, tests)
         /\ Artifact(s, tests).lineage =
                {ts, log} \cup UNION {Artifact(r, a).lineage : a \in {ts, log}}
         /\ Extends(r, s)
         /\ \A id \in Ids(r) : IsLive(s, id) => id[1] # ReviewedTests
    BY <1>10 DEF Derives
  <1> HIDE DEF tests
  <1>12. Twin(s, ReviewedSpec, ReviewedTests)
    <2>1. ASSUME NEW id \in Ids(r), IsLive(r, id), id[1] = ReviewedSpec
          PROVE  {ts, log} \subseteq Artifact(r, id).lineage
      <3>1. id = spec
        BY <1>8, <2>1
      <3> QED  BY <1>5, <1>8, <3>1
    <2> QED  BY <1>8, <1>9, <1>10, <2>1, DerivesTwin
  <1>13. Twin(s, ReviewedTests, ReviewedSpec)
    <2> SUFFICES ASSUME NEW id \in Ids(s), IsLive(s, id), id[1] = ReviewedTests
                 PROVE  \E twin \in Ids(s) :
                            /\ IsLive(s, twin) /\ twin[1] = ReviewedSpec
                            /\ Artifact(s, twin).lineage \subseteq Artifact(s, id).lineage
      BY DEF Twin
    <2>1. id = tests
      BY <1>11
    <2>2. IsLive(s, spec)
      <3>1. Layered(r, PhaseRank, texts) /\ PhaseRank[ReviewedSpec] <= PhaseRank[ReviewedTests]
        BY <1>7, Ranks DEF Chain
      <3>2. ReviewedTests \in Kinds \ {RuntimeEvidence} /\ spec[1] # ReviewedTests
        BY <1>2, <1>8, PhaseKinds
      <3> QED  BY <1>8, <1>10, <3>1, <3>2, PhaseKinds, LowerStaysLive
    <2>3. spec \in Ids(s) /\ Artifact(s, spec).lineage = Artifact(r, spec).lineage
      BY <1>8, <1>11 DEF Extends
    <2>4. Artifact(r, spec).lineage \subseteq {log} \cup Artifact(q, log).lineage
      BY <1>5, <1>8
    <2>5. {log} \cup Artifact(q, log).lineage \subseteq Artifact(s, tests).lineage
      BY <1>9, <1>11
    <2> QED  BY <1>8, <2>1, <2>2, <2>3, <2>4, <2>5
  <1>14. Twin(s, LogicalIRLog, LogicalIR) /\ Twin(s, CompilationLog, CompilerOutput)
    <2>1. Twin(r, LogicalIRLog, LogicalIR) /\ Twin(r, CompilationLog, CompilerOutput)
      BY <1>1, <1>2, <1>7, PhaseKinds, DerivesKeepsTwin DEF Twins
    <2> QED  BY <1>2, <1>8, <1>10, <2>1, PhaseKinds, DerivesKeepsTwin
  <1>15. Adds(q, s, {ReviewLog, ReviewedSpec, ReviewedTests})
    BY <1>7, <1>10, DerivesAdds, AddsIsTransitive
  <1> QED  BY <1>10, <1>12, <1>13, <1>14, <1>15 DEF PhaseInv, Twins

\* Phase 3: the log, its decisions one after the other, and the snapshots.
LEMMA ReviewKeepsInv ==
    ASSUME NEW texts, MadeTexts \subseteq texts, NEW p, PhaseInv(p, texts),
           NEW review \in texts, review.entries \in Seq(ReviewEntries),
           NEW s \in SubmitPhase3Review(p, review)
    PROVE  PhaseInv(s, texts) /\ Adds(p, s, {ReviewLog, ReviewedSpec, ReviewedTests})
  <1> DEFINE es == Current(p, ElaboratedSpec)
             ts == Current(p, TestSpec)
             WithSnapshots(q) ==
                LET log == Current(q, ReviewLog) IN
                Then(Derived(q, ReviewedSpec, ReviewedText(Artifact(q, es).content, review), {es, log}),
                     LAMBDA r : Derived(r, ReviewedTests, ReviewedText(Artifact(q, ts).content, review), {ts, log}))
  <1>1. /\ Chain(p, texts) /\ HasCurrent(p, ElaboratedSpec) /\ HasCurrent(p, TestSpec)
        /\ ValidReviewLog(review)
    BY DEF SubmitPhase3Review, PhaseInv, AllCurrent
  <1>2. {ElaboratedSpec, TestSpec, ReviewLog} \subseteq PipelineKinds
    BY DEF PipelineKinds, Traced
  <1>3. /\ es \in Ids(p) /\ es[1] = ElaboratedSpec
        /\ ts \in Ids(p) /\ ts[1] = TestSpec
    BY <1>1, <1>2, CurrentOfPhase
  <1>4. PICK logged, q :
           /\ logged \in Derived(p, ReviewLog, review, {es, ts})
           /\ q \in RecordEntries(logged, review.entries, es, ts)
           /\ s \in IF BothApproved(q, es, ts) THEN WithSnapshots(q) ELSE {q}
    BY DEF SubmitPhase3Review, Then
  <1> HIDE DEF es, ts
  <1>5. PhaseInv(logged, texts) /\ Derives(p, logged, ReviewLog, review, {es, ts})
    <2>1. KindsOf({es, ts}) = {ElaboratedSpec, TestSpec}
      BY <1>3 DEF KindsOf
    <2>2. <<ReviewLog, {ElaboratedSpec, TestSpec}>> \in Citations
      BY DEF Citations
    <2> QED  BY <1>1, <1>4, <2>1, <2>2, FreeDerivation
  <1>6. PhaseInv(q, texts) /\ Ids(q) = Ids(logged) /\ Extends(logged, q)
    BY <1>4, <1>5, RecordEntriesKeepInv
  <1>7. Adds(p, q, {ReviewLog, ReviewedSpec, ReviewedTests})
    <2>1. Adds(p, logged, {ReviewLog, ReviewedSpec, ReviewedTests})
      BY <1>5, DerivesAdds
    <2> QED  BY <1>6, <2>1, ExtendsIsTransitive DEF Adds
  <1>8. CASE BothApproved(q, es, ts) /\ s \in WithSnapshots(q)
    <2> DEFINE log == Current(logged, ReviewLog)
    <2>1. PICK r :
             /\ r \in Derived(q, ReviewedSpec, ReviewedText(Artifact(q, es).content, review), {es, Current(q, ReviewLog)})
             /\ s \in Derived(r, ReviewedTests, ReviewedText(Artifact(q, ts).content, review), {ts, Current(q, ReviewLog)})
      BY <1>8 DEF Then
    <2>2. IsLive(q, Current(q, ReviewLog)) /\ Current(q, ReviewLog)[1] = ReviewLog
      BY <2>1 DEF Derived, CanAddDerived, Current
    <2>3. IsLive(logged, Current(q, ReviewLog)) /\ Current(q, ReviewLog) \in Ids(q)
      BY <1>6, <2>2 DEF Extends, IsLive
    <2>4. Current(q, ReviewLog) = log
      <3>1. Base(logged, texts)
        BY <1>5 DEF PhaseInv, Chain, Layered
      <3> QED  BY <1>2, <2>2, <2>3, <3>1, PhaseKinds, LiveIsCurrent
    <2>5. /\ log \in Ids(q) /\ Artifact(q, log).content = review /\ Artifact(q, log).upstream = {es, ts}
      <3>1. /\ log \in Ids(logged) /\ Artifact(logged, log).content = review
            /\ Artifact(logged, log).upstream = {es, ts}
        BY <1>5 DEF Derives
      <3> QED  BY <1>6, <3>1 DEF Extends
    <2> HIDE DEF log
    <2>6. es \in Ids(q) /\ ts \in Ids(q)
      BY <1>3, <1>5, <1>6 DEF Derives
    <2>7. IsLive(q, ts)
      BY <1>6, <2>2, <2>4, <2>5 DEF PhaseInv, Chain, Layered, InputsLive
    <2>8. PhaseInv(s, texts) /\ Adds(q, s, {ReviewLog, ReviewedSpec, ReviewedTests})
      BY <1>3, <1>6, <1>8, <2>1, <2>2, <2>4, <2>5, <2>6, <2>7, SnapshotsKeepInv
    <2> QED  BY <1>7, <2>8, AddsIsTransitive
  <1> QED  BY <1>4, <1>6, <1>7, <1>8

-----------------------------------------------------------------------------
(***************************************************************************)
(* Phases 4 and 5: a log may come before what it is the log of.            *)
(***************************************************************************)

\* The logical IR; the invariant may lack a twin for the log of it.
LEMMA LogicalIRKeepsInv ==
    ASSUME NEW texts, MadeTexts \subseteq texts, NEW p, Chain(p, texts), SourceLive(p),
           Twin(p, ReviewedSpec, ReviewedTests), Twin(p, ReviewedTests, ReviewedSpec),
           Twin(p, CompilationLog, CompilerOutput),
           NEW document \in Documents, NEW q \in AddLogicalIR(p, document)
    PROVE  /\ PhaseInv(q, texts)
           /\ Derives(p, q, LogicalIR, document, {Current(p, ReviewedSpec), Current(p, ReviewedTests)})
  <1> DEFINE refs == {Current(p, ReviewedSpec), Current(p, ReviewedTests)}
  <1>1. /\ HasCurrent(p, ReviewedSpec) /\ HasCurrent(p, ReviewedTests)
        /\ q \in Derived(p, LogicalIR, document, refs)
    BY DEF AddLogicalIR, AllCurrent
  <1>2. {ReviewedSpec, ReviewedTests, LogicalIR, LogicalIRLog} \subseteq PipelineKinds
    BY DEF PipelineKinds, Traced
  <1>3. refs \subseteq Ids(p) /\ Base(p, texts) /\ document \in texts
    BY <1>1, <1>2, CurrentOfPhase DEF Chain, Layered, MadeTexts
  <1>4. <<LogicalIR, KindsOf(refs)>> \in Citations
    <2>1. KindsOf(refs) = {ReviewedSpec, ReviewedTests}
      BY <1>1, <1>2, CurrentOfPhase DEF KindsOf
    <2> QED  BY <2>1 DEF Citations
  <1>5. \A id \in Ids(p) : IsLive(p, id) /\ id[1] = LogicalIRLog => refs \subseteq Artifact(p, id).lineage
    <2> SUFFICES ASSUME NEW id \in Ids(p), IsLive(p, id), id[1] = LogicalIRLog
                 PROVE  refs \subseteq Artifact(p, id).lineage
      OBVIOUS
    <2>1. HasCurrent(p, LogicalIRLog) /\ id = Current(p, LogicalIRLog)
      BY <1>2, <1>3, LiveIsCurrent, PhaseKinds
    <2>2. Upstream(p, LogicalIRLog) = refs
      BY <2>1, ProgramsCite
    <2> QED  BY <1>3, <2>1, <2>2 DEF Upstream, Base, LineageClosed
  <1> HIDE DEF refs
  <1>6. Chain(q, texts) /\ SourceLive(q) /\ Derives(p, q, LogicalIR, document, refs)
    <2>1. BoundTo(p, LogicalIR, document, refs, Above(p, refs))
      BY DEF BoundTo
    <2>2. \A r \in Above(p, refs) : <<LogicalIR, r[1]>> \notin StandsOn
      BY DEF StandsOn
    <2> QED  BY <1>1, <1>3, <1>4, <2>1, <2>2, DerivedKeepsChain
  <1>7. Twin(q, LogicalIRLog, LogicalIR)
    BY <1>3, <1>5, <1>6, DerivesTwin
  <1>8. /\ Twin(q, ReviewedSpec, ReviewedTests) /\ Twin(q, ReviewedTests, ReviewedSpec)
        /\ Twin(q, CompilationLog, CompilerOutput)
    BY <1>2, <1>3, <1>6, PhaseKinds, DerivesKeepsTwin
  <1> QED  BY <1>6, <1>7, <1>8 DEF PhaseInv, Twins, refs

\* The structural review of the current document.
LEMMA LogicalReviewKeepsInv ==
    ASSUME NEW texts, MadeTexts \subseteq texts, NEW p, PhaseInv(p, texts), HasCurrent(p, LogicalIR),
           NEW content \in LogicalReviews,
           content.document = Artifact(p, Current(p, LogicalIR)).content,
           NEW q \in Derived(p, LogicalReview, content, {Current(p, LogicalIR)})
    PROVE  PhaseInv(q, texts) /\ Derives(p, q, LogicalReview, content, {Current(p, LogicalIR)})
  <1> DEFINE refs == {Current(p, LogicalIR)}
  <1>1. content \in texts
    BY DEF MadeTexts
  <1>2. <<LogicalReview, KindsOf(refs)>> \in Citations
    <2>1. KindsOf(refs) = {LogicalIR}
      BY DEF KindsOf, Current
    <2> QED  BY <2>1 DEF Citations
  <1>3. BoundTo(p, LogicalReview, content, refs, Above(p, refs))
    BY DEF BoundTo
  <1> HIDE DEF refs
  <1>4. \A r \in Above(p, refs) : <<LogicalReview, r[1]>> \notin StandsOn
    BY DEF StandsOn
  <1>5. q \in Derived(p, LogicalReview, content, refs)
    BY DEF refs
  <1>6. PhaseInv(q, texts) /\ Derives(p, q, LogicalReview, content, refs)
    BY <1>1, <1>2, <1>3, <1>4, <1>5, PlainDerivation
  <1> QED  BY <1>6 DEF refs

\* The logical IR with its review; a log of it may already be there.
LEMMA LogicalIRDocumentKeepsInv ==
    ASSUME NEW texts, MadeTexts \subseteq texts, NEW p, Chain(p, texts), SourceLive(p),
           Twin(p, ReviewedSpec, ReviewedTests), Twin(p, ReviewedTests, ReviewedSpec),
           Twin(p, CompilationLog, CompilerOutput),
           NEW document \in Documents, NEW r \in AddLogicalIRDocument(p, document)
    PROVE  /\ PhaseInv(r, texts) /\ Adds(p, r, {LogicalIR, LogicalReview})
           /\ HasCurrent(r, LogicalIR) /\ ContentOf(r, LogicalIR) = document
           /\ Upstream(r, LogicalIR) = {Current(p, ReviewedSpec), Current(p, ReviewedTests)}
           /\ \A k \in {ReviewedSpec, ReviewedTests, LogicalIRLog} : HasCurrent(p, k) => Stays(p, r, k)
  <1>1. PICK q \in AddLogicalIR(p, document) :
           r \in Derived(q, LogicalReview, FirstReview(document), {Current(q, LogicalIR)})
    BY DEF AddLogicalIRDocument, Then
  <1> DEFINE refs == {Current(p, ReviewedSpec), Current(p, ReviewedTests)}
  <1>2. PhaseInv(q, texts) /\ Derives(p, q, LogicalIR, document, refs)
    BY <1>1, LogicalIRKeepsInv
  <1> HIDE DEF refs
  <1>3. FirstReview(document) \in LogicalReviews /\ FirstReview(document).document = document
    BY DEF FirstReview, LogicalReviews
  <1>4. {LogicalIR, LogicalReview, ReviewedSpec, ReviewedTests, LogicalIRLog} \subseteq PipelineKinds
    BY DEF PipelineKinds, Traced
  <1>5. /\ HasCurrent(q, LogicalIR) /\ ContentOf(q, LogicalIR) = document /\ Upstream(q, LogicalIR) = refs
        /\ \A k \in {ReviewedSpec, ReviewedTests, LogicalIRLog} : HasCurrent(p, k) => Stays(p, q, k)
    BY <1>2, <1>4, DerivesStays, Ranks DEF PhaseInv
  <1>6. PhaseInv(r, texts) /\ Derives(q, r, LogicalReview, FirstReview(document), {Current(q, LogicalIR)})
    BY <1>1, <1>2, <1>3, <1>5, LogicalReviewKeepsInv DEF ContentOf
  <1>7. \A k \in {ReviewedSpec, ReviewedTests, LogicalIRLog, LogicalIR} : HasCurrent(q, k) => Stays(q, r, k)
    BY <1>2, <1>4, <1>6, DerivesStays, Ranks DEF PhaseInv
  <1>8. /\ \A k \in {ReviewedSpec, ReviewedTests, LogicalIRLog} : HasCurrent(p, k) => Stays(p, r, k)
        /\ HasCurrent(r, LogicalIR) /\ ContentOf(r, LogicalIR) = document /\ Upstream(r, LogicalIR) = refs
    BY <1>5, <1>7 DEF Stays
  <1>9. Adds(p, r, {LogicalIR, LogicalReview})
    BY <1>2, <1>6, DerivesAdds, AddsIsTransitive
  <1> QED  BY <1>6, <1>8, <1>9 DEF refs

\* A document with the log of the interaction that made it: both are current
\* then, and built on the snapshots that were.
LEMMA LogicalIRResponseKeepsInv ==
    ASSUME NEW texts, MadeTexts \subseteq texts, NEW p, PhaseInv(p, texts), NEW document \in Documents,
           NEW q \in AddLogicalIRResponse(p, document)
    PROVE  /\ PhaseInv(q, texts) /\ Adds(p, q, {LogicalIRLog, LogicalIR, LogicalReview})
           /\ Stays(p, q, ReviewedSpec) /\ Stays(p, q, ReviewedTests)
           /\ HasCurrent(q, LogicalIRLog) /\ ContentOf(q, LogicalIRLog) = document
           /\ HasCurrent(q, LogicalIR) /\ ContentOf(q, LogicalIR) = document
           /\ Upstream(q, LogicalIR) = {Current(p, ReviewedSpec), Current(p, ReviewedTests)}
  <1> DEFINE refs == {Current(p, ReviewedSpec), Current(p, ReviewedTests)}
  <1>1. /\ Chain(p, texts) /\ SourceLive(p) /\ Base(p, texts) /\ document \in texts
        /\ Twin(p, ReviewedSpec, ReviewedTests) /\ Twin(p, ReviewedTests, ReviewedSpec)
        /\ Twin(p, CompilationLog, CompilerOutput)
    BY DEF PhaseInv, Chain, Layered, Twins, MadeTexts
  <1>2. /\ HasCurrent(p, ReviewedSpec) /\ HasCurrent(p, ReviewedTests)
        /\ {LogicalIRLog, ReviewedSpec, ReviewedTests} \subseteq PipelineKinds
    BY DEF AddLogicalIRResponse, AllCurrent, PipelineKinds, Traced
  <1>3. PICK logged \in Derived(p, LogicalIRLog, document, refs) : q \in AddLogicalIRDocument(logged, document)
    BY DEF AddLogicalIRResponse, Then
  <1>4. <<LogicalIRLog, KindsOf(refs)>> \in Citations
    <2>1. KindsOf(refs) = {ReviewedSpec, ReviewedTests}
      BY DEF KindsOf, Current
    <2> QED  BY <2>1 DEF Citations
  <1> HIDE DEF refs
  <1>5. Chain(logged, texts) /\ SourceLive(logged) /\ Derives(p, logged, LogicalIRLog, document, refs)
    <2>1. BoundTo(p, LogicalIRLog, document, refs, Above(p, refs))
      BY DEF BoundTo
    <2>2. \A r \in Above(p, refs) : <<LogicalIRLog, r[1]>> \notin StandsOn
      BY DEF StandsOn
    <2> QED  BY <1>1, <1>3, <1>4, <2>1, <2>2, DerivedKeepsChain
  <1>6. /\ Twin(logged, ReviewedSpec, ReviewedTests) /\ Twin(logged, ReviewedTests, ReviewedSpec)
        /\ Twin(logged, CompilationLog, CompilerOutput)
    BY <1>1, <1>2, <1>5, PhaseKinds, DerivesKeepsTwin
  <1>7. /\ Stays(p, logged, ReviewedSpec) /\ Stays(p, logged, ReviewedTests)
        /\ HasCurrent(logged, LogicalIRLog) /\ ContentOf(logged, LogicalIRLog) = document
    BY <1>1, <1>2, <1>5, DerivesStays, Ranks
  <1>8. /\ PhaseInv(q, texts) /\ Adds(logged, q, {LogicalIR, LogicalReview})
        /\ HasCurrent(q, LogicalIR) /\ ContentOf(q, LogicalIR) = document
        /\ Upstream(q, LogicalIR) = {Current(logged, ReviewedSpec), Current(logged, ReviewedTests)}
        /\ \A k \in {ReviewedSpec, ReviewedTests, LogicalIRLog} : HasCurrent(logged, k) => Stays(logged, q, k)
    BY <1>3, <1>5, <1>6, LogicalIRDocumentKeepsInv
  <1>9. Adds(p, q, {LogicalIRLog, LogicalIR, LogicalReview})
    <2>1. Adds(p, logged, {LogicalIRLog, LogicalIR, LogicalReview})
      BY <1>5, DerivesAdds
    <2>2. Adds(logged, q, {LogicalIRLog, LogicalIR, LogicalReview})
      BY <1>8 DEF Adds
    <2> QED  BY <2>1, <2>2, AddsIsTransitive
  <1>10. Stays(logged, q, ReviewedSpec) /\ Stays(logged, q, ReviewedTests) /\ Stays(logged, q, LogicalIRLog)
    <2>1. HasCurrent(logged, ReviewedSpec) /\ HasCurrent(logged, ReviewedTests)
      BY <1>7 DEF Stays
    <2> QED  BY <1>7, <1>8, <2>1
  <1> QED  BY <1>7, <1>8, <1>9, <1>10 DEF Stays

\* Phase 4: every way to a logical IR.
LEMMA BuildLogicalIRKeepsInv ==
    ASSUME NEW texts, MadeTexts \subseteq texts, NEW p, PhaseInv(p, texts), NEW document \in Documents,
           NEW q \in AddLogicalIR(p, document) \cup AddLogicalIRDocument(p, document)
                        \cup AddLogicalIRResponse(p, document)
    PROVE  PhaseInv(q, texts)
  <1>1. /\ Chain(p, texts) /\ SourceLive(p)
        /\ Twin(p, ReviewedSpec, ReviewedTests) /\ Twin(p, ReviewedTests, ReviewedSpec)
        /\ Twin(p, CompilationLog, CompilerOutput)
    BY DEF PhaseInv, Twins
  <1> QED  BY <1>1, LogicalIRKeepsInv, LogicalIRDocumentKeepsInv, LogicalIRResponseKeepsInv

\* A decision on the finding is a new review of the same document.
LEMMA DecideFindingKeepsInv ==
    ASSUME NEW texts, MadeTexts \subseteq texts, NEW p, PhaseInv(p, texts),
           NEW disposition \in FindingDecisions, NEW q \in DecideLogicalFinding(p, disposition)
    PROVE  PhaseInv(q, texts) /\ Adds(p, q, {LogicalReview})
  <1> DEFINE review == ContentOf(p, LogicalReview)
             content == [review EXCEPT !.finding = disposition]
  <1>1. ReviewOfCurrentIR(p) /\ q \in Derived(p, LogicalReview, content, {Current(p, LogicalIR)})
    BY DEF DecideLogicalFinding
  <1>2. /\ HasCurrent(p, LogicalIR) /\ HasCurrent(p, LogicalReview)
        /\ review.document = Artifact(p, Current(p, LogicalIR)).content
    BY <1>1 DEF ReviewOfCurrentIR, AllCurrent, ContentOf
  <1>3. LogicalReview \in PipelineKinds
    BY DEF PipelineKinds, Traced
  <1>4. review \in LogicalReviews
    <2>1. Chain(p, texts) /\ Bound(p)
      BY DEF PhaseInv, Chain
    <2>2. Current(p, LogicalReview) \in Ids(p) /\ Current(p, LogicalReview)[1] = LogicalReview
      BY <1>2, <1>3, <2>1, CurrentOfPhase
    <2> QED  BY <2>1, <2>2 DEF Bound, BoundTo, ContentOf
  <1>5. content \in LogicalReviews /\ content.document = review.document
    BY <1>4 DEF LogicalReviews
  <1> QED  BY <1>1, <1>2, <1>5, LogicalReviewKeepsInv, DerivesAdds

\* Compiler output, of an approved document only; the invariant may lack a
\* twin for the log of it.
LEMMA CompilerOutputKeepsInv ==
    ASSUME NEW texts, NEW p, Chain(p, texts), SourceLive(p),
           Twin(p, ReviewedSpec, ReviewedTests), Twin(p, ReviewedTests, ReviewedSpec),
           Twin(p, LogicalIRLog, LogicalIR),
           NEW bundle \in texts, NEW q \in AddCompilerOutput(p, bundle)
    PROVE  PhaseInv(q, texts) /\ Derives(p, q, CompilerOutput, bundle, {Current(p, LogicalIR)})
  <1> DEFINE refs == {Current(p, LogicalIR)}
  <1>1. /\ HasCurrent(p, LogicalIR) /\ IsApproved(p, Current(p, LogicalIR))
        /\ q \in Derived(p, CompilerOutput, bundle, refs)
    BY DEF AddCompilerOutput, AdmitCompilation, ReviewOfCurrentIR, AllCurrent
  <1>2. {LogicalIR, CompilationLog, CompilerOutput} \subseteq PipelineKinds
    BY DEF PipelineKinds, Traced
  <1>3. /\ refs \subseteq Ids(p) /\ Base(p, texts) /\ (\A r \in refs : IsLive(p, r))
        /\ <<CompilerOutput, KindsOf(refs)>> \in Citations
    <2>1. KindsOf(refs) = {LogicalIR}
      BY DEF KindsOf, Current
    <2>2. <<CompilerOutput, {LogicalIR}>> \in Citations
      BY DEF Citations
    <2> QED  BY <1>1, <1>2, <2>1, <2>2, CurrentOfPhase DEF Chain, Layered
  <1>4. \A id \in Ids(p) : IsLive(p, id) /\ id[1] = CompilationLog => refs \subseteq Artifact(p, id).lineage
    <2> SUFFICES ASSUME NEW id \in Ids(p), IsLive(p, id), id[1] = CompilationLog
                 PROVE  refs \subseteq Artifact(p, id).lineage
      OBVIOUS
    <2>1. HasCurrent(p, CompilationLog) /\ id = Current(p, CompilationLog)
      BY <1>2, <1>3, LiveIsCurrent, PhaseKinds
    <2>2. refs \subseteq Upstream(p, CompilationLog)
      BY <2>1, ProgramsCite
    <2> QED  BY <1>3, <2>1, <2>2 DEF Upstream, Base, LineageClosed
  <1>5. \A r \in Above(p, refs) : <<CompilerOutput, r[1]>> \in StandsOn => IsApproved(p, r)
    <2> SUFFICES ASSUME NEW r \in Above(p, refs), r[1] = LogicalIR
                 PROVE  IsApproved(p, r)
      BY DEF StandsOn
    <2>1. r = Current(p, LogicalIR)
      BY <1>2, <1>3, AboveIsCurrent, PhaseKinds
    <2> QED  BY <1>1, <2>1
  <1> HIDE DEF refs
  <1>6. BoundTo(p, CompilerOutput, bundle, refs, Above(p, refs))
    BY DEF BoundTo
  <1>7. Chain(q, texts) /\ SourceLive(q) /\ Derives(p, q, CompilerOutput, bundle, refs)
    BY <1>1, <1>3, <1>5, <1>6, DerivedKeepsChain
  <1>8. Twin(q, CompilationLog, CompilerOutput)
    BY <1>3, <1>4, <1>7, DerivesTwin
  <1>9. /\ Twin(q, ReviewedSpec, ReviewedTests) /\ Twin(q, ReviewedTests, ReviewedSpec)
        /\ Twin(q, LogicalIRLog, LogicalIR)
    BY <1>2, <1>3, <1>7, PhaseKinds, DerivesKeepsTwin
  <1> QED  BY <1>7, <1>8, <1>9 DEF PhaseInv, Twins, refs

\* Output with the log of the interaction that made it: both are current then,
\* and built on the document that was.
LEMMA CompilationResponseKeepsInv ==
    ASSUME NEW texts, NEW p, PhaseInv(p, texts), NEW bundle \in texts,
           NEW q \in AddCompilationResponse(p, bundle)
    PROVE  /\ PhaseInv(q, texts) /\ Adds(p, q, {CompilationLog, CompilerOutput})
           /\ Stays(p, q, ReviewedSpec) /\ Stays(p, q, ReviewedTests) /\ Stays(p, q, LogicalIR)
           /\ HasCurrent(q, CompilationLog) /\ ContentOf(q, CompilationLog) = bundle
           /\ HasCurrent(q, CompilerOutput) /\ ContentOf(q, CompilerOutput) = bundle
           /\ Upstream(q, CompilerOutput) = {Current(p, LogicalIR)}
  <1> DEFINE refs == {Current(p, ReviewedSpec), Current(p, ReviewedTests), Current(p, LogicalIR)}
  <1>1. /\ Chain(p, texts) /\ SourceLive(p) /\ Base(p, texts)
        /\ Twin(p, ReviewedSpec, ReviewedTests) /\ Twin(p, ReviewedTests, ReviewedSpec)
        /\ Twin(p, LogicalIRLog, LogicalIR)
    BY DEF PhaseInv, Chain, Layered, Twins
  <1>2. /\ HasCurrent(p, ReviewedSpec) /\ HasCurrent(p, ReviewedTests) /\ HasCurrent(p, LogicalIR)
        /\ {CompilationLog, CompilerOutput, ReviewedSpec, ReviewedTests, LogicalIR} \subseteq PipelineKinds
    BY DEF AddCompilationResponse, CanBuildCompilationRequest, AdmitCompilation, ReviewOfCurrentIR,
           AllCurrent, PipelineKinds, Traced
  <1>3. PICK logged \in Derived(p, CompilationLog, bundle, refs) : q \in AddCompilerOutput(logged, bundle)
    BY DEF AddCompilationResponse, Then
  <1>4. <<CompilationLog, KindsOf(refs)>> \in Citations
    <2>1. KindsOf(refs) = {ReviewedSpec, ReviewedTests, LogicalIR}
      BY DEF KindsOf, Current
    <2> QED  BY <2>1 DEF Citations
  <1> HIDE DEF refs
  <1>5. Chain(logged, texts) /\ SourceLive(logged) /\ Derives(p, logged, CompilationLog, bundle, refs)
    <2>1. BoundTo(p, CompilationLog, bundle, refs, Above(p, refs))
      BY DEF BoundTo
    <2>2. \A r \in Above(p, refs) : <<CompilationLog, r[1]>> \notin StandsOn
      BY DEF StandsOn
    <2>3. Chain(p, texts) /\ SourceLive(p) /\ CompilationLog # OriginalSpec
      BY <1>1
    <2> QED  BY <1>3, <1>4, <2>1, <2>2, <2>3, DerivedKeepsChain
  <1>6. /\ Twin(logged, ReviewedSpec, ReviewedTests) /\ Twin(logged, ReviewedTests, ReviewedSpec)
        /\ Twin(logged, LogicalIRLog, LogicalIR)
    BY <1>1, <1>2, <1>5, PhaseKinds, DerivesKeepsTwin
  <1>7. /\ Stays(p, logged, ReviewedSpec) /\ Stays(p, logged, ReviewedTests) /\ Stays(p, logged, LogicalIR)
        /\ HasCurrent(logged, CompilationLog) /\ ContentOf(logged, CompilationLog) = bundle
    BY <1>1, <1>2, <1>5, DerivesStays, Ranks
  <1>8. PhaseInv(q, texts) /\ Derives(logged, q, CompilerOutput, bundle, {Current(logged, LogicalIR)})
    BY <1>3, <1>5, <1>6, CompilerOutputKeepsInv
  <1>9. /\ HasCurrent(q, CompilerOutput) /\ ContentOf(q, CompilerOutput) = bundle
        /\ Upstream(q, CompilerOutput) = {Current(logged, LogicalIR)}
        /\ \A k \in {ReviewedSpec, ReviewedTests, LogicalIR, CompilationLog} : Stays(logged, q, k)
    BY <1>2, <1>5, <1>7, <1>8, DerivesStays, Ranks DEF PhaseInv, Stays
  <1>10. Adds(p, q, {CompilationLog, CompilerOutput})
    BY <1>5, <1>8, DerivesAdds, AddsIsTransitive
  <1> QED  BY <1>7, <1>8, <1>9, <1>10 DEF Stays

\* Phase 5.
LEMMA CompileKeepsInv ==
    ASSUME NEW texts, NEW p, PhaseInv(p, texts), NEW bundle \in texts,
           NEW q \in AddCompilerOutput(p, bundle) \cup AddCompilationResponse(p, bundle)
    PROVE  PhaseInv(q, texts)
  <1>1. /\ Chain(p, texts) /\ SourceLive(p)
        /\ Twin(p, ReviewedSpec, ReviewedTests) /\ Twin(p, ReviewedTests, ReviewedSpec)
        /\ Twin(p, LogicalIRLog, LogicalIR)
    BY DEF PhaseInv, Twins
  <1> QED  BY <1>1, CompilerOutputKeepsInv, CompilationResponseKeepsInv

-----------------------------------------------------------------------------
(***************************************************************************)
(* Phases 6 and 7.                                                         *)
(***************************************************************************)

\* A hand-off of the current, approved output.
LEMMA HandoffKeepsInv ==
    ASSUME NEW texts, NEW p, PhaseInv(p, texts), NEW files \in texts,
           NEW q \in AddSandboxHandoff(p, files)
    PROVE  PhaseInv(q, texts) /\ Adds(p, q, {SandboxHandoff})
  <1> DEFINE refs == {Current(p, CompilerOutput)}
  <1>1. /\ HasCurrent(p, CompilerOutput) /\ IsApproved(p, Current(p, CompilerOutput))
        /\ files = Artifact(p, Current(p, CompilerOutput)).content.files
        /\ q \in Derived(p, SandboxHandoff, files, refs)
    BY DEF AddSandboxHandoff, ContentOf
  <1>2. CompilerOutput \in PipelineKinds /\ Chain(p, texts)
    BY DEF PipelineKinds, Traced, PhaseInv
  <1>3. <<SandboxHandoff, KindsOf(refs)>> \in Citations
    <2>1. KindsOf(refs) = {CompilerOutput}
      BY DEF KindsOf, Current
    <2> QED  BY <2>1 DEF Citations
  <1>4. BoundTo(p, SandboxHandoff, files, refs, Above(p, refs))
    BY <1>1 DEF BoundTo
  <1>5. \A r \in Above(p, refs) : <<SandboxHandoff, r[1]>> \in StandsOn => IsApproved(p, r)
    <2> SUFFICES ASSUME NEW r \in Above(p, refs), r[1] = CompilerOutput
                 PROVE  IsApproved(p, r)
      BY DEF StandsOn
    <2>1. \A a \in refs : IsLive(p, a)
      BY <1>1, <1>2, CurrentOfPhase
    <2>2. r = Current(p, CompilerOutput)
      BY <1>2, <2>1, AboveIsCurrent, PhaseKinds
    <2> QED  BY <1>1, <2>2
  <1> HIDE DEF refs
  <1> QED  BY <1>1, <1>3, <1>4, <1>5, PlainDerivation, DerivesAdds

\* The result of a run of some hand-off with the content of the current one.
LEMMA TestResultKeepsInv ==
    ASSUME NEW texts, MadeTexts \subseteq texts, NEW p, PhaseInv(p, texts),
           NEW run \in Ids(p), NEW q \in AddTestResult(p, run)
    PROVE  PhaseInv(q, texts) /\ Derives(p, q, TestResult, run, {Current(p, SandboxHandoff)})
  <1> DEFINE refs == {Current(p, SandboxHandoff)}
  <1>1. /\ Artifact(p, run).content = Artifact(p, Current(p, SandboxHandoff)).content
        /\ q \in Derived(p, TestResult, run, refs)
    BY DEF AddTestResult, ContentOf
  <1>2. <<TestResult, KindsOf(refs)>> \in Citations
    <2>1. KindsOf(refs) = {SandboxHandoff}
      BY DEF KindsOf, Current
    <2> QED  BY <2>1 DEF Citations
  <1>3. BoundTo(p, TestResult, run, refs, Above(p, refs)) /\ run \in texts
    BY <1>1 DEF BoundTo, MadeTexts, Ids
  <1> HIDE DEF refs
  <1>4. \A r \in Above(p, refs) : <<TestResult, r[1]>> \notin StandsOn
    BY DEF StandsOn
  <1>5. PhaseInv(q, texts) /\ Derives(p, q, TestResult, run, refs)
    BY <1>1, <1>2, <1>3, <1>4, PlainDerivation
  <1> QED  BY <1>5 DEF refs

\* What is built on something is built on all that it cites.
LEMMA CitedIsAbove ==
    ASSUME NEW texts, NEW p, Base(p, texts), NEW id \in Ids(p), NEW r \in Artifact(p, id).lineage
    PROVE  r \in Ids(p) /\ Artifact(p, r).upstream \subseteq Artifact(p, id).lineage
  BY DEF Base, LineageClosed

\* A current result stands on the current version of every stage.
LEMMA ResultAncestors ==
    ASSUME NEW texts, NEW p, Chain(p, texts), HasCurrent(p, TestResult)
    PROVE  \A kind \in (Traced \cup {ReviewLog}) \ {TestResult} :
              HasCurrent(p, kind) /\ Current(p, kind) \in Artifact(p, Current(p, TestResult)).lineage
  <1> DEFINE result == Current(p, TestResult)
             Stands(kind) == HasCurrent(p, kind) /\ Current(p, kind) \in Artifact(p, result).lineage
  <1>1. Base(p, texts) /\ result \in Ids(p)
    BY CurrentOfPhase DEF Chain, Layered, PipelineKinds, Traced
  <1>2. ASSUME NEW kind, Stands(kind)
        PROVE  Upstream(p, kind) \subseteq Artifact(p, result).lineage
    BY <1>1, <1>2, CitedIsAbove DEF Upstream
  <1> HIDE DEF result
  <1>3. Stands(SandboxHandoff)
    BY <1>1, ProgramsCite DEF Base, LineageClosed, Upstream, result
  <1>4. Stands(CompilerOutput)
    BY <1>2, <1>3, ProgramsCite
  <1>5. Stands(LogicalIR)
    BY <1>2, <1>4, ProgramsCite
  <1>6. Stands(ReviewedSpec) /\ Stands(ReviewedTests)
    <2>1. /\ HasCurrent(p, ReviewedSpec) /\ HasCurrent(p, ReviewedTests)
          /\ Upstream(p, LogicalIR) = {Current(p, ReviewedSpec), Current(p, ReviewedTests)}
      BY <1>5, ProgramsCite
    <2> QED  BY <1>2, <1>5, <2>1
  <1>7. Stands(ElaboratedSpec) /\ Stands(TestSpec) /\ Stands(ReviewLog)
    <2>1. /\ HasCurrent(p, ElaboratedSpec) /\ HasCurrent(p, ReviewLog) /\ HasCurrent(p, TestSpec)
          /\ Upstream(p, ReviewedSpec) = {Current(p, ElaboratedSpec), Current(p, ReviewLog)}
          /\ Upstream(p, ReviewedTests) = {Current(p, TestSpec), Current(p, ReviewLog)}
      BY <1>6, SpecificationsCite
    <2> QED  BY <1>2, <1>6, <2>1
  <1>8. Stands(OriginalSpec)
    <2>1. HasCurrent(p, OriginalSpec) /\ Current(p, OriginalSpec) \in Upstream(p, ElaboratedSpec)
      BY <1>7, SpecificationsCite
    <2> QED  BY <1>2, <1>7, <2>1
  <1> QED  BY <1>3, <1>4, <1>5, <1>6, <1>7, <1>8 DEF Traced, result

\* An exact chain has no elaboration log in it: only a specification cites one.
LEMMA ExactChainHasNoLog ==
    ASSUME NEW texts, NEW p, Chain(p, texts), ProvenanceChain(p),
           NEW x, IsLive(p, x), x[1] \in {CompilerOutput, TestResult},
           NEW r \in Artifact(p, x).lineage
    PROVE  r[1] # ElaborationLog
  <1> SUFFICES ASSUME r[1] = ElaborationLog  PROVE FALSE
    OBVIOUS
  <1>1. Base(p, texts) /\ Cites(p) /\ LineageLive(p) /\ x \in Ids(p)
    BY DEF Chain, Layered, IsLive
  <1>2. \/ r \in Artifact(p, x).upstream
        \/ \E s \in Artifact(p, x).lineage : r \in Artifact(p, s).upstream
    BY <1>1 DEF Base, LineageClosed
  <1>3. PICK s : IsLive(p, s) /\ s \in Ids(p) /\ r \in Artifact(p, s).upstream /\ (s = x \/ s \in Artifact(p, x).lineage)
    BY <1>1, <1>2 DEF LineageLive, IsLive
  <1>4. <<s[1], KindsOf(Artifact(p, s).upstream)>> \in Citations /\ ElaborationLog \in KindsOf(Artifact(p, s).upstream)
    BY <1>1, <1>3 DEF Cites, KindsOf
  <1>5. s[1] \in {ElaboratedSpec, TestSpec}
    BY <1>4 DEF Citations
  <1>6. s = Current(p, s[1])
    BY <1>1, <1>3, <1>5, LiveIsCurrent DEF RuntimeEvidence
  <1>7. Artifact(p, s).upstream = {Current(p, OriginalSpec)} \/ Artifact(p, s).upstream = {Current(p, ElaboratedSpec)}
    BY <1>5, <1>6 DEF ProvenanceChain, Upstream
  <1> QED  BY <1>3, <1>7 DEF Current

\* The report names the current version of every stage.
LEMMA ReportKeepsInv ==
    ASSUME NEW texts, MadeTexts \subseteq texts, NEW p, PhaseInv(p, texts),
           NEW q \in AddTraceabilityReport(p)
    PROVE  PhaseInv(q, texts) /\ Adds(p, q, {TraceabilityReport})
  <1> DEFINE refs == {Current(p, CompilerOutput), Current(p, TestResult)}
             content == Provenance(p)
  <1>1. /\ AllCurrent(p, Traced) /\ q \in Derived(p, TraceabilityReport, content, refs)
        /\ Chain(p, texts) /\ ProvenanceChain(p)
    BY DEF AddTraceabilityReport, ProvenanceChain, PhaseInv
  <1>2. Traced \subseteq PipelineKinds /\ TestResult \in Traced
    BY DEF PipelineKinds, Traced
  <1>3. /\ content = [kind \in Traced |-> content[kind]]
        /\ \A kind \in Traced : content[kind] = Current(p, kind)
    BY DEF Provenance
  <1>4. content \in texts
    <2>1. \A kind \in Traced : Current(p, kind) \in ArtifactIds
      BY <1>1, <1>2, CurrentOfPhase DEF AllCurrent, Ids
    <2> QED  BY <2>1 DEF MadeTexts, Provenance
  <1>5. <<TraceabilityReport, KindsOf(refs)>> \in Citations
    <2>1. KindsOf(refs) = {CompilerOutput, TestResult}
      BY DEF KindsOf, Current
    <2> QED  BY <2>1 DEF Citations
  <1> HIDE DEF content
  <1>6. \A kind \in Traced : content[kind] \in Above(p, refs) /\ content[kind][1] = kind
    <2> SUFFICES ASSUME NEW kind \in Traced
                 PROVE  Current(p, kind) \in Above(p, refs) /\ Current(p, kind)[1] = kind
      BY <1>3
    <2>1. HasCurrent(p, TestResult)
      BY <1>1, <1>2 DEF AllCurrent
    <2>2. kind = TestResult \/ Current(p, kind) \in Artifact(p, Current(p, TestResult)).lineage
      BY <1>1, <2>1, ResultAncestors
    <2> QED  BY <2>2 DEF Above, Current
  <1>7. BoundTo(p, TraceabilityReport, content, refs, Above(p, refs))
    <2>1. ASSUME NEW r \in Above(p, refs)
          PROVE  r[1] # ElaborationLog
      <3>1. {CompilerOutput, TestResult} \subseteq Traced
        BY DEF Traced
      <3>2. \A x \in refs : IsLive(p, x) /\ x[1] \in {CompilerOutput, TestResult}
        BY <1>1, <1>2, <3>1, CurrentOfPhase DEF AllCurrent
      <3>3. CASE r \in refs
        BY <3>2, <3>3
      <3>4. CASE \E x \in refs : r \in Artifact(p, x).lineage
        BY <1>1, <3>2, <3>4, ExactChainHasNoLog
      <3> QED  BY <3>3, <3>4 DEF Above
    <2> QED  BY <1>3, <1>6, <2>1 DEF BoundTo
  <1> HIDE DEF refs
  <1>8. \A r \in Above(p, refs) : <<TraceabilityReport, r[1]>> \notin StandsOn
    BY DEF StandsOn
  <1> QED  BY <1>1, <1>4, <1>5, <1>7, <1>8, PlainDerivation, DerivesAdds

-----------------------------------------------------------------------------
(***************************************************************************)
(* The chain rules of the loader that follow from the invariant.           *)
(***************************************************************************)

\* Of the two kinds of a pair, the second is current when the first is.
LEMMA TwinIsCurrent ==
    ASSUME NEW texts, NEW p, Chain(p, texts), NEW kind \in PipelineKinds, NEW other \in PipelineKinds,
           Twin(p, kind, other), HasCurrent(p, kind)
    PROVE  HasCurrent(p, other)
  <1>1. Current(p, kind) \in Ids(p) /\ Current(p, kind)[1] = kind /\ IsLive(p, Current(p, kind))
    BY CurrentOfPhase
  <1>2. PICK twin \in Ids(p) : IsLive(p, twin) /\ twin[1] = other
    BY <1>1 DEF Twin
  <1> QED  BY <1>2, LiveIsCurrent, PhaseKinds DEF Chain, Layered

\* The content of what is current is tied to what it cites.
LEMMA CurrentIsBound ==
    ASSUME NEW texts, NEW p, Chain(p, texts), NEW kind \in PipelineKinds, HasCurrent(p, kind)
    PROVE  BoundTo(p, kind, ContentOf(p, kind), Upstream(p, kind), Artifact(p, Current(p, kind)).lineage)
  <1> DEFINE id == Current(p, kind)
  <1>1. Bound(p) /\ id \in Ids(p) /\ id[1] = kind
    BY CurrentOfPhase DEF Chain
  <1> HIDE DEF id
  <1>2. BoundTo(p, kind, Artifact(p, id).content, Artifact(p, id).upstream, Artifact(p, id).lineage)
    BY <1>1 DEF Bound
  <1> QED  BY <1>2 DEF id, ContentOf, Upstream

\* What is current is built on what it cites, and stands on current versions
\* with the approvals it needs.
LEMMA CurrentStands ==
    ASSUME NEW texts, NEW p, Chain(p, texts), NEW kind \in PipelineKinds, HasCurrent(p, kind)
    PROVE  LET above == Artifact(p, Current(p, kind)).lineage IN
           /\ Upstream(p, kind) \subseteq above
           /\ \A r \in above :
                /\ r \in Ids(p) /\ Artifact(p, r).upstream \subseteq above
                /\ <<kind, r[1]>> \in StandsOn => IsApproved(p, r)
                /\ r[1] # RuntimeEvidence => r = Current(p, r[1])
  <1> DEFINE id == Current(p, kind)
  <1>1. /\ Base(p, texts) /\ ApprovedAbove(p) /\ LineageLive(p)
        /\ id \in Ids(p) /\ id[1] = kind /\ IsLive(p, id)
    BY CurrentOfPhase DEF Chain, Layered
  <1> HIDE DEF id
  <1>2. Artifact(p, id).upstream \subseteq Artifact(p, id).lineage
    BY <1>1 DEF Base, LineageClosed
  <1>3. ASSUME NEW r \in Artifact(p, id).lineage
        PROVE  /\ r \in Ids(p) /\ Artifact(p, r).upstream \subseteq Artifact(p, id).lineage
               /\ <<kind, r[1]>> \in StandsOn => IsApproved(p, r)
               /\ r[1] # RuntimeEvidence => r = Current(p, r[1])
    <2>1. IsLive(p, r)
      BY <1>1 DEF LineageLive
    <2> QED  BY <1>1, <2>1, CitedIsAbove, LiveIsCurrent DEF ApprovedAbove
  <1> QED  BY <1>2, <1>3 DEF id, Upstream

\* Phase 3.
LEMMA ReviewRules ==
    ASSUME NEW texts, NEW p, PhaseInv(p, texts)
    PROVE  ApprovalsLoad(p) /\ ReviewLogLoads(p) /\ SnapshotsLoad(p)
  <1>1. Chain(p, texts) /\ Twins(p) /\ DecisionsFollow(p)
    BY DEF PhaseInv, Chain, Layered, Base
  <1>2. {ElaboratedSpec, TestSpec, ReviewLog, ReviewedSpec, ReviewedTests} \subseteq PipelineKinds
    BY DEF PipelineKinds, Traced
  <1>3. ApprovalsLoad(p)
    BY <1>1 DEF ApprovalsLoad, DecisionsFollow, Ids
  <1>4. ReviewLogLoads(p)
    BY <1>1, SpecificationsCite DEF ReviewLogLoads, AllCurrent
  <1>5. HasCurrent(p, ReviewedSpec) <=> HasCurrent(p, ReviewedTests)
    BY <1>1, <1>2, TwinIsCurrent DEF Twins
  <1>6. ASSUME HasCurrent(p, ReviewedSpec)
        PROVE  /\ AllCurrent(p, {ReviewLog, ElaboratedSpec, TestSpec})
               /\ Upstream(p, ReviewedSpec) = {Current(p, ElaboratedSpec), Current(p, ReviewLog)}
               /\ Upstream(p, ReviewedTests) = {Current(p, TestSpec), Current(p, ReviewLog)}
               /\ ContentOf(p, ReviewedSpec) =
                    ReviewedText(ContentOf(p, ElaboratedSpec), ContentOf(p, ReviewLog))
               /\ ContentOf(p, ReviewedTests) =
                    ReviewedText(ContentOf(p, TestSpec), ContentOf(p, ReviewLog))
               /\ IsApproved(p, Current(p, ElaboratedSpec))
               /\ IsApproved(p, Current(p, TestSpec))
    <2> DEFINE es == Current(p, ElaboratedSpec)
               ts == Current(p, TestSpec)
               log == Current(p, ReviewLog)
               above == Artifact(p, Current(p, ReviewedSpec)).lineage
    <2>1. /\ HasCurrent(p, ElaboratedSpec) /\ HasCurrent(p, ReviewLog) /\ HasCurrent(p, TestSpec)
          /\ HasCurrent(p, ReviewedTests)
          /\ Upstream(p, ReviewedSpec) = {es, log}
          /\ Upstream(p, ReviewedTests) = {ts, log}
          /\ Upstream(p, ReviewLog) = {es, ts}
      BY <1>1, <1>5, <1>6, SpecificationsCite
    <2>2. es[1] = ElaboratedSpec /\ ts[1] = TestSpec /\ log[1] = ReviewLog
      BY DEF Current
    <2>3. /\ BoundTo(p, ReviewedSpec, ContentOf(p, ReviewedSpec), {es, log}, above)
          /\ {es, log} \subseteq above
          /\ \A r \in above : /\ Artifact(p, r).upstream \subseteq above
                              /\ <<ReviewedSpec, r[1]>> \in StandsOn => IsApproved(p, r)
      <3>1. ReviewedSpec \in PipelineKinds
        BY <1>2
      <3>2. /\ BoundTo(p, ReviewedSpec, ContentOf(p, ReviewedSpec), Upstream(p, ReviewedSpec), above)
            /\ Upstream(p, ReviewedSpec) \subseteq above
            /\ \A r \in above : /\ Artifact(p, r).upstream \subseteq above
                                /\ <<ReviewedSpec, r[1]>> \in StandsOn => IsApproved(p, r)
        BY <1>1, <1>6, <3>1, CurrentIsBound, CurrentStands
      <3> QED  BY <2>1, <3>2
    <2>4. BoundTo(p, ReviewedTests, ContentOf(p, ReviewedTests), {ts, log},
                  Artifact(p, Current(p, ReviewedTests)).lineage)
      <3>1. ReviewedTests \in PipelineKinds
        BY <1>2
      <3>2. BoundTo(p, ReviewedTests, ContentOf(p, ReviewedTests), Upstream(p, ReviewedTests),
                    Artifact(p, Current(p, ReviewedTests)).lineage)
        BY <1>1, <2>1, <3>1, CurrentIsBound
      <3> QED  BY <2>1, <3>2
    <2> HIDE DEF above
    <2>5. ts \in above
      BY <2>1, <2>3 DEF Upstream
    <2>6. IsApproved(p, es) /\ IsApproved(p, ts)
      <3>1. <<ReviewedSpec, es[1]>> \in StandsOn /\ <<ReviewedSpec, ts[1]>> \in StandsOn
        BY <2>2 DEF StandsOn
      <3> QED  BY <2>3, <2>5, <3>1
    <2>7. ContentOf(p, ReviewedSpec) = ReviewedText(ContentOf(p, ElaboratedSpec), ContentOf(p, ReviewLog))
      BY <2>2, <2>3 DEF BoundTo, ContentOf
    <2>8. ContentOf(p, ReviewedTests) = ReviewedText(ContentOf(p, TestSpec), ContentOf(p, ReviewLog))
      BY <2>2, <2>4 DEF BoundTo, ContentOf
    <2> QED  BY <2>1, <2>6, <2>7, <2>8 DEF AllCurrent
  <1>7. SnapshotsLoad(p)
    BY <1>5, <1>6 DEF SnapshotsLoad
  <1> QED  BY <1>3, <1>4, <1>7

\* Phase 4.
LEMMA LogicalIRRules ==
    ASSUME NEW texts, NEW p, PhaseInv(p, texts)
    PROVE  LogicalIRLogLoads(p) /\ LogicalIRLoads(p) /\ LogicalReviewLoads(p)
  <1>1. Chain(p, texts) /\ Twins(p)
    BY DEF PhaseInv
  <1>2. {LogicalIRLog, LogicalIR, LogicalReview} \subseteq PipelineKinds
    BY DEF PipelineKinds, Traced
  <1>3. LogicalIRLoads(p)
    BY <1>1, ProgramsCite DEF LogicalIRLoads, AllCurrent
  <1>4. LogicalIRLogLoads(p)
    <2>1. HasCurrent(p, LogicalIRLog) => HasCurrent(p, LogicalIR)
      BY <1>1, <1>2, TwinIsCurrent DEF Twins
    <2> QED  BY <1>1, <2>1, ProgramsCite DEF LogicalIRLogLoads, AllCurrent
  <1>5. LogicalReviewLoads(p)
    <2> SUFFICES ASSUME HasCurrent(p, LogicalReview)  PROVE ReviewOfCurrentIR(p)
      BY DEF LogicalReviewLoads
    <2>1. HasCurrent(p, LogicalIR) /\ Upstream(p, LogicalReview) = {Current(p, LogicalIR)}
      BY <1>1, ProgramsCite
    <2>2. BoundTo(p, LogicalReview, ContentOf(p, LogicalReview), {Current(p, LogicalIR)},
                  Artifact(p, Current(p, LogicalReview)).lineage)
      BY <1>1, <1>2, <2>1, CurrentIsBound
    <2>3. ContentOf(p, LogicalReview).document = ContentOf(p, LogicalIR)
      BY <2>2 DEF BoundTo, ContentOf
    <2> QED  BY <2>1, <2>3 DEF ReviewOfCurrentIR, AllCurrent
  <1> QED  BY <1>3, <1>4, <1>5

\* Phase 5.
LEMMA CompilationRules ==
    ASSUME NEW texts, NEW p, PhaseInv(p, texts)
    PROVE  /\ CompilationLogLoads(p) /\ CompilerOutputLoads(p)
           /\ HasCurrent(p, CompilerOutput) => IsApproved(p, Current(p, LogicalIR))
  <1>1. Chain(p, texts) /\ Twins(p)
    BY DEF PhaseInv
  <1>2. {CompilationLog, CompilerOutput} \subseteq PipelineKinds
    BY DEF PipelineKinds, Traced
  <1>3. CompilerOutputLoads(p)
    BY <1>1, ProgramsCite DEF CompilerOutputLoads
  <1>4. CompilationLogLoads(p)
    <2>1. HasCurrent(p, CompilationLog) => HasCurrent(p, CompilerOutput)
      BY <1>1, <1>2, TwinIsCurrent DEF Twins
    <2> QED  BY <1>1, <2>1, ProgramsCite DEF CompilationLogLoads, AllCurrent
  <1>5. ASSUME HasCurrent(p, CompilerOutput)
        PROVE  IsApproved(p, Current(p, LogicalIR))
    <2>1. Upstream(p, CompilerOutput) = {Current(p, LogicalIR)}
      BY <1>1, <1>5, ProgramsCite
    <2>2. <<CompilerOutput, Current(p, LogicalIR)[1]>> \in StandsOn
      BY DEF StandsOn, Current
    <2> QED  BY <1>1, <1>2, <1>5, <2>1, <2>2, CurrentStands
  <1> QED  BY <1>3, <1>4, <1>5

\* Phases 6 and 7.
LEMMA RunRules ==
    ASSUME NEW texts, NEW p, PhaseInv(p, texts)
    PROVE  SandboxHandoffLoads(p) /\ TestResultLoads(p) /\ TraceabilityLoads(p)
  <1>1. Chain(p, texts)
    BY DEF PhaseInv
  <1>2. /\ {SandboxHandoff, TestResult, TraceabilityReport} \subseteq PipelineKinds
        /\ Traced \subseteq PipelineKinds /\ TestResult \in Traced
    BY DEF PipelineKinds, Traced
  <1>3. ASSUME HasCurrent(p, SandboxHandoff)
        PROVE  /\ HasCurrent(p, CompilerOutput)
               /\ Upstream(p, SandboxHandoff) = {Current(p, CompilerOutput)}
               /\ IsApproved(p, Current(p, CompilerOutput))
               /\ ContentOf(p, SandboxHandoff) = ContentOf(p, CompilerOutput).files
    <2>1. HasCurrent(p, CompilerOutput) /\ Upstream(p, SandboxHandoff) = {Current(p, CompilerOutput)}
      BY <1>1, <1>3, ProgramsCite
    <2>2. <<SandboxHandoff, Current(p, CompilerOutput)[1]>> \in StandsOn
      BY DEF StandsOn, Current
    <2>3. IsApproved(p, Current(p, CompilerOutput))
      <3>1. SandboxHandoff \in PipelineKinds
        BY <1>2
      <3> QED  BY <1>1, <1>3, <2>1, <2>2, <3>1, CurrentStands
    <2>4. BoundTo(p, SandboxHandoff, ContentOf(p, SandboxHandoff), {Current(p, CompilerOutput)},
                  Artifact(p, Current(p, SandboxHandoff)).lineage)
      <3>1. SandboxHandoff \in PipelineKinds
        BY <1>2
      <3> QED  BY <1>1, <1>3, <2>1, <3>1, CurrentIsBound
    <2> QED  BY <2>1, <2>3, <2>4 DEF BoundTo, ContentOf
  <1>4. ASSUME HasCurrent(p, TestResult)
        PROVE  /\ HasCurrent(p, SandboxHandoff)
               /\ Upstream(p, TestResult) = {Current(p, SandboxHandoff)}
               /\ Artifact(p, ContentOf(p, TestResult)).content = ContentOf(p, SandboxHandoff)
    <2>1. HasCurrent(p, SandboxHandoff) /\ Upstream(p, TestResult) = {Current(p, SandboxHandoff)}
      BY <1>1, <1>4, ProgramsCite
    <2>2. BoundTo(p, TestResult, ContentOf(p, TestResult), {Current(p, SandboxHandoff)},
                  Artifact(p, Current(p, TestResult)).lineage)
      BY <1>1, <1>2, <1>4, <2>1, CurrentIsBound
    <2> QED  BY <2>1, <2>2 DEF BoundTo, ContentOf
  <1>5. ASSUME HasCurrent(p, TraceabilityReport)
        PROVE  /\ AllCurrent(p, Traced)
               /\ Upstream(p, TraceabilityReport) = {Current(p, CompilerOutput), Current(p, TestResult)}
               /\ ContentOf(p, TraceabilityReport) = Provenance(p)
    <2> DEFINE content == ContentOf(p, TraceabilityReport)
               above == Artifact(p, Current(p, TraceabilityReport)).lineage
    <2>1. /\ HasCurrent(p, TestResult)
          /\ Upstream(p, TraceabilityReport) = {Current(p, CompilerOutput), Current(p, TestResult)}
      BY <1>1, <1>5, ProgramsCite
    <2>2. AllCurrent(p, Traced)
      BY <1>1, <2>1, ResultAncestors DEF AllCurrent
    <2>3. /\ BoundTo(p, TraceabilityReport, content, Upstream(p, TraceabilityReport), above)
          /\ \A r \in above : r[1] # RuntimeEvidence => r = Current(p, r[1])
      BY <1>1, <1>2, <1>5, CurrentIsBound, CurrentStands
    <2> HIDE DEF content, above
    <2>4. /\ content = [kind \in Traced |-> content[kind]]
          /\ \A kind \in Traced : content[kind] = Current(p, kind)
      <3>1. /\ content = [kind \in Traced |-> content[kind]]
            /\ \A kind \in Traced : content[kind] \in above /\ content[kind][1] = kind
        BY <2>3 DEF BoundTo
      <3>2. \A kind \in Traced : kind # RuntimeEvidence
        BY <1>2, PhaseKinds
      <3> QED  BY <2>3, <3>1, <3>2
    <2>5. content = [kind \in Traced |-> Current(p, kind)]
      BY <2>4
    <2> QED  BY <2>1, <2>2, <2>5 DEF Provenance, content
  <1> QED  BY <1>3, <1>4, <1>5 DEF SandboxHandoffLoads, TestResultLoads, TraceabilityLoads

-----------------------------------------------------------------------------
(***************************************************************************)
(* What a phase does to the past, whatever it writes.                      *)
(***************************************************************************)

\* A derivation.
LEMMA DerivedFollows ==
    ASSUME NEW p, Settled(p), NEW kind \in PipelineKinds \ {OriginalSpec}, NEW content, NEW refs,
           NEW q \in Derived(p, kind, content, refs)
    PROVE  Follows(p, q) /\ Settled(q)
  <1>1. CanAddDerived(p, kind, refs) /\ q = AddDerived(p, kind, content, refs)
    BY DEF Derived
  <1> QED  BY <1>1, PhaseKinds, DerivingFollows DEF Follows

\* A decision.
LEMMA DecidedFollows ==
    ASSUME NEW p, Settled(p), NEW id, NEW decision \in ReviewDecisions,
           NEW q \in Decided(p, id, decision)
    PROVE  Follows(p, q)
  BY DecidingFollows DEF Decided

\* A comment.
LEMMA AnnotatedFollows ==
    ASSUME NEW p, Settled(p), NEW id, NEW q \in Annotated(p, id)
    PROVE  Follows(p, q)
  BY AnnotatingFollows DEF Annotated

\* The kinds that the phases derive.
LEMMA DerivedKinds ==
    {ElaborationLog, ElaboratedSpec, TestSpec, ReviewLog, ReviewedSpec, ReviewedTests,
     LogicalIRLog, LogicalIR, LogicalReview, CompilationLog, CompilerOutput, SandboxHandoff,
     TestResult, TraceabilityReport} = PipelineKinds \ {OriginalSpec}
  BY DEF PipelineKinds, Traced

\* Phase 2.
LEMMA ElaborationFollows ==
    ASSUME NEW p, Settled(p),
           NEW s \in SubmitElaboratedSpec(p) \cup SubmitTestSpec(p) \cup AddAdmittedElaboration(p)
    PROVE  Follows(p, s)
  <1>1. CASE s \in SubmitElaboratedSpec(p) \cup SubmitTestSpec(p)
    BY <1>1, DerivedKinds, DerivedFollows DEF SubmitElaboratedSpec, SubmitTestSpec, SubmitDerivedSpec
  <1>2. CASE s \in AddAdmittedElaboration(p)
    <2> DEFINE source == Current(p, OriginalSpec)
    <2>1. PICK q \in Derived(p, ElaborationLog, source, {source}) :
             s \in Then(Derived(q, ElaboratedSpec, Drafted, {source, Current(q, ElaborationLog)}), LAMBDA r :
                        Derived(r, TestSpec, Drafted, {Current(r, ElaboratedSpec), Current(r, ElaborationLog)}))
      BY <1>2 DEF AddAdmittedElaboration, Then
    <2>2. PICK r \in Derived(q, ElaboratedSpec, Drafted, {source, Current(q, ElaborationLog)}) :
             s \in Derived(r, TestSpec, Drafted, {Current(r, ElaboratedSpec), Current(r, ElaborationLog)})
      BY <2>1 DEF Then
    <2> HIDE DEF source
    <2>3. Follows(p, q) /\ Settled(q)
      BY <2>1, DerivedKinds, DerivedFollows
    <2>4. Follows(q, r) /\ Settled(r)
      BY <2>2, <2>3, DerivedKinds, DerivedFollows
    <2>5. Follows(r, s)
      BY <2>2, <2>4, DerivedKinds, DerivedFollows
    <2> QED  BY <2>3, <2>4, <2>5, FollowsIsTransitive
  <1> QED  BY <1>1, <1>2

\* One entry of a review log.
LEMMA RecordEntryFollows ==
    ASSUME NEW p, Settled(p), NEW entry \in ReviewEntries, NEW id,
           NEW q \in RecordEntry(p, entry, id)
    PROVE  Follows(p, q)
  <1>1. PICK r \in IF entry.targeted THEN {p} ELSE Decided(p, id, entry.decision) :
           q \in IF entry.commented THEN Annotated(r, id) ELSE {r}
    BY DEF RecordEntry, Then
  <1>2. Follows(p, r)
    BY <1>1, FollowsItself, DecidedFollows DEF ReviewEntries
  <1>3. Follows(r, q)
    BY <1>1, <1>2, FollowsItself, AnnotatedFollows DEF Follows
  <1> QED  BY <1>2, <1>3, FollowsIsTransitive

\* All of them.
LEMMA RecordEntriesFollow ==
    ASSUME NEW p, Settled(p), NEW entries \in Seq(ReviewEntries),
           NEW elaborated, NEW tests, NEW q \in RecordEntries(p, entries, elaborated, tests)
    PROVE  Follows(p, q)
  <1> DEFINE Recorded(r, n) ==
                IF n \in DOMAIN entries
                THEN RecordEntry(r, entries[n], IF entries[n].on = TestSpec THEN tests ELSE elaborated)
                ELSE {r}
  <1>1. PICK a, b, c : /\ a \in Recorded(p, 1) /\ b \in Recorded(a, 2)
                       /\ c \in Recorded(b, 3) /\ q \in Recorded(c, 4)
    <2> DEFINE As == Recorded(p, 1)
               Bs == UNION {Recorded(r, 2) : r \in As}
               Cs == UNION {Recorded(r, 3) : r \in Bs}
    <2>1. q \in UNION {Recorded(r, 4) : r \in Cs}
      BY DEF RecordEntries, Then
    <2> HIDE DEF Recorded
    <2> QED  BY <2>1
  <1>2. ASSUME NEW r, Follows(p, r), NEW n, NEW s \in Recorded(r, n)
        PROVE  Follows(p, s)
    <2>1. CASE s = r
      BY <1>2, <2>1
    <2>2. CASE n \in DOMAIN entries /\ s \in RecordEntry(r, entries[n], IF entries[n].on = TestSpec THEN tests ELSE elaborated)
      <3>1. entries[n] \in ReviewEntries
        BY <2>2
      <3>2. Follows(r, s)
        BY <1>2, <2>2, <3>1, RecordEntryFollows DEF Follows
      <3> QED  BY <1>2, <3>2, FollowsIsTransitive
    <2> QED  BY <1>2, <2>1, <2>2
  <1> HIDE DEF Recorded
  <1>3. Follows(p, a)
    BY <1>1, <1>2, FollowsItself
  <1>4. Follows(p, b)
    BY <1>1, <1>2, <1>3
  <1>5. Follows(p, c)
    BY <1>1, <1>2, <1>4
  <1> QED  BY <1>1, <1>2, <1>5

\* Phase 3.
LEMMA ReviewFollows ==
    ASSUME NEW p, Settled(p), NEW review, review.entries \in Seq(ReviewEntries),
           NEW s \in SubmitPhase3Review(p, review)
    PROVE  Follows(p, s)
  <1> DEFINE es == Current(p, ElaboratedSpec)
             ts == Current(p, TestSpec)
             Text(q, id) == ReviewedText(Artifact(q, id).content, review)
             WithSnapshots(q) ==
                LET log == Current(q, ReviewLog) IN
                Then(Derived(q, ReviewedSpec, Text(q, es), {es, log}),
                     LAMBDA r : Derived(r, ReviewedTests, Text(q, ts), {ts, log}))
  <1>1. PICK logged, q :
           /\ logged \in Derived(p, ReviewLog, review, {es, ts})
           /\ q \in RecordEntries(logged, review.entries, es, ts)
           /\ s \in IF BothApproved(q, es, ts) THEN WithSnapshots(q) ELSE {q}
    BY DEF SubmitPhase3Review, Then
  <1> HIDE DEF es, ts, Text
  <1>2. Follows(p, logged) /\ Settled(logged)
    BY <1>1, DerivedKinds, DerivedFollows
  <1>3. Follows(p, q) /\ Settled(q)
    BY <1>1, <1>2, RecordEntriesFollow, FollowsIsTransitive DEF Follows
  <1>4. CASE s \in WithSnapshots(q)
    <2>1. PICK r :
             /\ r \in Derived(q, ReviewedSpec, Text(q, es), {es, Current(q, ReviewLog)})
             /\ s \in Derived(r, ReviewedTests, Text(q, ts), {ts, Current(q, ReviewLog)})
      BY <1>4 DEF Then
    <2>2. Follows(q, r) /\ Settled(r)
      BY <1>3, <2>1, DerivedKinds, DerivedFollows
    <2>3. Follows(r, s)
      BY <2>1, <2>2, DerivedKinds, DerivedFollows
    <2> QED  BY <1>3, <2>2, <2>3, FollowsIsTransitive
  <1> QED  BY <1>1, <1>3, <1>4

\* The logical IR and its structural review.
LEMMA LogicalIRDocumentFollows ==
    ASSUME NEW p, Settled(p), NEW document,
           NEW s \in AddLogicalIR(p, document) \cup AddLogicalIRDocument(p, document)
    PROVE  Follows(p, s)
  <1>1. ASSUME NEW q \in AddLogicalIR(p, document)
        PROVE  Follows(p, q) /\ Settled(q)
    BY DerivedKinds, DerivedFollows DEF AddLogicalIR
  <1>2. CASE s \in AddLogicalIRDocument(p, document)
    <2>1. PICK q \in AddLogicalIR(p, document) :
             s \in Derived(q, LogicalReview, FirstReview(document), {Current(q, LogicalIR)})
      BY <1>2 DEF AddLogicalIRDocument, Then
    <2>2. Follows(q, s)
      BY <1>1, <2>1, DerivedKinds, DerivedFollows
    <2> QED  BY <1>1, <2>1, <2>2, FollowsIsTransitive
  <1> QED  BY <1>1, <1>2

\* Phase 4.
LEMMA LogicalIRFollows ==
    ASSUME NEW p, Settled(p), NEW document, NEW disposition,
           NEW s \in AddLogicalIR(p, document) \cup AddLogicalIRDocument(p, document)
                       \cup AddLogicalIRResponse(p, document) \cup DecideLogicalFinding(p, disposition)
    PROVE  Follows(p, s)
  <1>1. CASE s \in AddLogicalIRResponse(p, document)
    <2>1. PICK q : /\ q \in Derived(p, LogicalIRLog, document,
                                    {Current(p, ReviewedSpec), Current(p, ReviewedTests)})
                   /\ s \in AddLogicalIRDocument(q, document)
      BY <1>1 DEF AddLogicalIRResponse, Then
    <2>2. Follows(p, q) /\ Settled(q)
      BY <2>1, DerivedKinds, DerivedFollows
    <2>3. Follows(q, s)
      BY <2>1, <2>2, LogicalIRDocumentFollows
    <2> QED  BY <2>2, <2>3, FollowsIsTransitive
  <1>2. CASE s \in DecideLogicalFinding(p, disposition)
    BY <1>2, DerivedKinds, DerivedFollows DEF DecideLogicalFinding
  <1> QED  BY <1>1, <1>2, LogicalIRDocumentFollows

\* Phase 5.
LEMMA CompilationFollows ==
    ASSUME NEW p, Settled(p), NEW bundle,
           NEW s \in AddCompilerOutput(p, bundle) \cup AddCompilationResponse(p, bundle)
    PROVE  Follows(p, s)
  <1>1. ASSUME NEW q, Settled(q), NEW r \in AddCompilerOutput(q, bundle)
        PROVE  Follows(q, r)
    BY <1>1, DerivedKinds, DerivedFollows DEF AddCompilerOutput
  <1>2. CASE s \in AddCompilationResponse(p, bundle)
    <2>1. PICK q : /\ q \in Derived(p, CompilationLog, bundle,
                             {Current(p, ReviewedSpec), Current(p, ReviewedTests), Current(p, LogicalIR)})
                   /\ s \in AddCompilerOutput(q, bundle)
      BY <1>2 DEF AddCompilationResponse, Then
    <2>2. Follows(p, q) /\ Settled(q)
      BY <2>1, DerivedKinds, DerivedFollows
    <2>3. Follows(q, s)
      BY <1>1, <2>1, <2>2
    <2> QED  BY <2>2, <2>3, FollowsIsTransitive
  <1> QED  BY <1>1, <1>2

\* Phases 6 and 7.
LEMMA RunFollows ==
    ASSUME NEW p, Settled(p), NEW files, NEW run,
           NEW s \in AddSandboxHandoff(p, files) \cup AddTestResult(p, run) \cup AddTraceabilityReport(p)
    PROVE  Follows(p, s)
  <1>1. CASE s \in AddSandboxHandoff(p, files)
    BY <1>1, DerivedKinds, DerivedFollows DEF AddSandboxHandoff
  <1>2. CASE s \in AddTestResult(p, run)
    BY <1>2, DerivedKinds, DerivedFollows DEF AddTestResult
  <1>3. CASE s \in AddTraceabilityReport(p)
    BY <1>3, DerivedKinds, DerivedFollows DEF AddTraceabilityReport
  <1> QED  BY <1>1, <1>2, <1>3
=============================================================================
