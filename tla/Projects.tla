------------------------------ MODULE Projects ------------------------------
(***************************************************************************)
(* The immutable project value of specatom_hs/projects.py and the          *)
(* functions every later phase is built from: exact-version provenance,    *)
(* approvals bound to one version, and transitive invalidation.            *)
(*                                                                         *)
(* A project is a record                                                   *)
(*    artifacts   : kind -> sequence of its versions, oldest first         *)
(*    approvals   : artifact id -> the one decision kept for it            *)
(*    annotations : set of the artifact ids that carry a comment           *)
(*                                                                         *)
(* The code names an artifact by hash(project, kind, version, content) and *)
(* a reference repeats the content hash, so a reference whose hash does    *)
(* not match is a reference to no artifact.  Here an id is the pair        *)
(* <<kind, version>> and a reference is an id.                             *)
(*                                                                         *)
(* Each function comes as a pair: CanF says when the code raises no        *)
(* exception, F is the project it returns.                                 *)
(*                                                                         *)
(* An operator introduced as a Fault is a definition with one mistake in   *)
(* it.  No specification uses it: put in the place of the definition that  *)
(* follows it, it must make the runs fail (README, "Faults").              *)
(***************************************************************************)
EXTENDS Integers, Sequences, FiniteSets

CONSTANTS
    Kinds,          \* artifact kinds of this instance, a subset of ArtifactKind
    MaxVersions     \* bound: versions of one kind that an instance may create

OriginalSpec == "original-spec"
RuntimeEvidence == "runtime-evidence"

ASSUME ProjectsAssumption ==
    /\ OriginalSpec \in Kinds
    /\ MaxVersions \in Nat \ {0}

-----------------------------------------------------------------------------
\* Artifact states and review decisions.

Live == "current"
Invalidated == "invalidated"

\* The code tells APPROVED from everything else: PENDING, CHANGES_REQUESTED
\* and REJECTED are all "withheld".  "none" is an artifact without an
\* ApprovalState.
Approved == "approved"
Withheld == "withheld"
Void == "void"
NoDecision == "none"

ReviewDecisions == {Approved, Withheld}
Decisions == ReviewDecisions \cup {Void, NoDecision}

-----------------------------------------------------------------------------
\* Looking things up.

ArtifactIds == Kinds \X (1..MaxVersions)

Ids(p) == {id \in ArtifactIds : id[2] \in DOMAIN p.artifacts[id[1]]}

Artifact(p, id) == p.artifacts[id[1]][id[2]]

IsLive(p, id) == id \in Ids(p) /\ Artifact(p, id).state = Live

LiveVersions(p, kind) ==
    {v \in DOMAIN p.artifacts[kind] : p.artifacts[kind][v].state = Live}

HasCurrent(p, kind) == LiveVersions(p, kind) # {}

\* The id of the newest live version of a kind.
Current(p, kind) ==
    <<kind, CHOOSE v \in LiveVersions(p, kind) :
                \A w \in LiveVersions(p, kind) : w <= v>>

IsApproved(p, id) == p.approvals[id] = Approved

-----------------------------------------------------------------------------
\* Invalidation.

\* The loop of _invalidate_from: passes that add what cites an invalid artifact,
\* until one adds nothing.
LoopFrom(p, seed) ==
    LET after[pass \in Nat] ==
            IF pass = 0 THEN seed
            ELSE LET invalid == after[pass - 1] IN
                 invalid \cup {id \in Ids(p) : Artifact(p, id).upstream \cap invalid # {}}
    IN  after[CHOOSE pass \in 0..Cardinality(Ids(p)) : after[pass + 1] = after[pass]]

\* Fault: one pass over the artifacts instead of repeating until none is added.
ReachedInOnePass(p, seed) ==
    {id \in Ids(p) : id \in seed \/ Artifact(p, id).upstream \cap seed # {}}

(***************************************************************************)
(* What the loop reaches from the ids in seed.  The upstream of an         *)
(* artifact never changes, so the artifacts it depends on, directly or     *)
(* not, are kept with it as lineage and the loop's fixpoint is every       *)
(* artifact whose lineage meets seed (ArtifactGraph: LineageIsTheLoop).    *)
(***************************************************************************)
Reached(p, seed) ==
    {id \in Ids(p) : id \in seed \/ Artifact(p, id).lineage \cap seed # {}}

Stale(artifact) == [artifact EXCEPT !.state = Invalidated]

InvalidateFrom(p, seed) ==
    LET invalid == Reached(p, seed) IN
    [artifacts |->
        [kind \in Kinds |->
            [v \in DOMAIN p.artifacts[kind] |->
                IF <<kind, v>> \in invalid
                THEN Stale(p.artifacts[kind][v])
                ELSE p.artifacts[kind][v]]],
     approvals |->
        [id \in ArtifactIds |->
            IF id \in invalid /\ p.approvals[id] # NoDecision
            THEN Void
            ELSE p.approvals[id]],
     annotations |-> p.annotations]

DirectDependents(p, id) ==
    {other \in Ids(p) : id \in Artifact(p, other).upstream}

-----------------------------------------------------------------------------
\* The transitions of a project.

NewProject(content) ==
    [artifacts |-> [kind \in Kinds |->
        IF kind = OriginalSpec
        THEN <<[content |-> content, upstream |-> {}, lineage |-> {}, state |-> Live]>>
        ELSE <<>>],
     approvals |-> [id \in ArtifactIds |-> NoDecision],
     annotations |-> {}]

NewVersion(p, content, refs) ==
    [content  |-> content,
     upstream |-> refs,
     lineage  |-> refs \cup UNION {Artifact(p, r).lineage : r \in refs},
     state    |-> Live]

Appended(p, kind, content, refs) ==
    [p EXCEPT !.artifacts[kind] = Append(@, NewVersion(p, content, refs))]

CanAddDerived(p, kind, refs) ==
    /\ refs # {}
    /\ \A r \in refs : IsLive(p, r)
    /\ Len(p.artifacts[kind]) < MaxVersions          \* bound

\* Fault: the previous version is left as it is.
AddDerivedBesides(p, kind, content, refs) == Appended(p, kind, content, refs)

\* Evidence is append-only; a new version of any other kind first invalidates
\* the current one and everything built on it.
AddDerived(p, kind, content, refs) ==
    LET superseded == kind # RuntimeEvidence /\ HasCurrent(p, kind)
        q == IF superseded THEN InvalidateFrom(p, {Current(p, kind)}) ELSE p
    IN  Appended(q, kind, content, refs)

CanDecide(p, id) == IsLive(p, id)

\* Fault: the previous decision is read after the new one has been stored.
DecideAfterwards(p, id, decision) ==
    LET q == [p EXCEPT !.approvals[id] = decision] IN
    IF IsApproved(q, id) /\ decision # Approved
    THEN InvalidateFrom(q, DirectDependents(q, id))
    ELSE q

\* One decision is kept per artifact.  Withdrawing an approval invalidates
\* what was built on it; the artifact itself stays live.
Decide(p, id, decision) ==
    LET q == [p EXCEPT !.approvals[id] = decision] IN
    IF IsApproved(p, id) /\ decision # Approved
    THEN InvalidateFrom(q, DirectDependents(q, id))
    ELSE q

CanAnnotate(p, id) == IsLive(p, id)

Annotate(p, id) == [p EXCEPT !.annotations = @ \cup {id}]

CanReplaceSource(p) ==
    /\ HasCurrent(p, OriginalSpec)
    /\ Len(p.artifacts[OriginalSpec]) < MaxVersions  \* bound

\* Fault: the project starts afresh from the new source.
ReplaceSourceAfresh(p, content) ==
    IF content = Artifact(p, Current(p, OriginalSpec)).content THEN p ELSE NewProject(content)

ReplaceSource(p, content) ==
    LET source == Current(p, OriginalSpec) IN
    IF content = Artifact(p, source).content
    THEN p
    ELSE Appended(InvalidateFrom(p, {source}), OriginalSpec, content, {})
=============================================================================
