---------------------------- MODULE ExecutableGate ----------------------------
(***************************************************************************)
(* The gate before executable skeletons (refuse_executable_skeleton in     *)
(* backends/petta.py): the objects it refuses and why.  A refusal is       *)
(* <<index, reason>>; an object no refusal names may be lowered.           *)
(***************************************************************************)
EXTENDS PettaGate

\* An identity only has to be text to declare an object; the first object of
\* an identity is the one references find.
Named(objects) == {obj.id : obj \in {obj \in Range(objects) : obj.id \notin NotText}}
Ambiguous(objects) ==
    {id \in Named(objects) : Cardinality({i \in DOMAIN objects : objects[i].id = id}) > 1}
Declared(objects, id) ==
    objects[CHOOSE i \in DOMAIN objects : objects[i].id = id /\ \A j \in 1..(i - 1) : objects[j].id # id]

\* Provenance is required here, not optional.
ProvenanceReason(span) == FirstReason(<<
    <<span \in {None, Blank, Spaces}, "missing-source-provenance">>,
    <<~Safe(span), "unsupported-source-span-id-type">>>>)

FactReasons(obj) == {ProfileFactReason(obj, obj.facts[k]) : k \in DOMAIN obj.facts} \ {"none"}

\* What the references of an object's facts name, written out as text.
TargetsOf(f) == {TextOf(f.args[p]) : p \in FactSchemas[f.predicate].objects}
ReferencesOf(obj) == UNION {TargetsOf(f) : f \in Range(obj.facts)}

\* The reasons a record is unsafe at the end of a path of references.  Its
\* level may be plain text, and its role anything.
NodeReason(obj) == FirstReason(<<
    <<obj.level \notin SafeByValue, "unsafe-semantic-level">>,
    <<ProvenanceReason(obj.span) # "none", ProvenanceReason(obj.span)>>,
    <<obj.facts = <<>>, "missing-profile-facts">>,
    <<FactReasons(obj) # {}, "unsafe-profile">>>>)

-----------------------------------------------------------------------------
(* The walk.  A path that ends in an unsafe object, or meets itself, stops *)
(* the walk with a reason; any other is extended by every reference of its *)
(* last object.  The first object of a path was judged by the caller.      *)

\* Fault: the walk forgets the path it came by.
PathReasonNoCycles(objects, path) ==
    LET end == Last(path) IN
    IF ~Safe(end) THEN "MissingObjectId"
    ELSE IF end \in Ambiguous(objects) THEN "AmbiguousReference"
    ELSE IF end \notin Named(objects) THEN "DanglingReference"
    ELSE IF Len(path) > 1 THEN NodeReason(Declared(objects, end))
    ELSE "none"

PathReason(objects, path) ==
    LET end == Last(path) IN
    IF ~Safe(end) THEN "MissingObjectId"
    ELSE IF end \in Range(Front(path)) THEN "ReferenceCycle"
    ELSE IF end \in Ambiguous(objects) THEN "AmbiguousReference"
    ELSE IF end \notin Named(objects) THEN "DanglingReference"
    ELSE IF Len(path) > 1 THEN NodeReason(Declared(objects, end))
    ELSE "none"

Extensions(objects, paths) ==
    UNION {{Append(path, next) : next \in ReferencesOf(Declared(objects, Last(path)))} :
              path \in {path \in paths : PathReason(objects, path) = "none"}}

\* A path longer than the number of objects has met itself.
PathsFrom(objects, start) ==
    LET within[rounds \in Nat] ==
            IF rounds = 0 THEN {<<start>>}
            ELSE LET paths == within[rounds - 1] IN paths \cup Extensions(objects, paths)
    IN  within[Len(objects) + 1]

DeepReasons(objects, start) ==
    {PathReason(objects, path) : path \in PathsFrom(objects, start)} \ {"none"}

-----------------------------------------------------------------------------
(* One reference of a fact, one fact, one object. *)

\* An empty reference inside the target is left to the dangling test.
TargetFactReasons(obj) == FactReasons(obj) \ {"empty-object-reference"}

ReferenceReason(objects, target) ==
    IF target \notin Named(objects) THEN "dangling-object-reference"
    ELSE IF target \in Ambiguous(objects) THEN "ambiguous-object-reference"
    ELSE LET obj == Declared(objects, target) IN
         IF obj.level \notin SafeByValue THEN "unsafe-reference-semantic-level"
         ELSE IF ProvenanceReason(obj.span) # "none" THEN "unsafe-reference-provenance"
         ELSE IF obj.facts = <<>> THEN "unsafe-reference-missing-profile-facts"
         ELSE IF TargetFactReasons(obj) # {} THEN "unsafe-reference-profile"
         ELSE IF ~(ReferencesOf(obj) \subseteq Named(objects)) THEN "unsafe-reference-transitive-dangling"
         ELSE IF \E next \in ReferencesOf(obj) \ Ambiguous(objects) :
                    Declared(objects, next).level \notin SafeByValue
              THEN "unsafe-reference-transitive-semantic-level"
         ELSE IF DeepReasons(objects, target) # {} THEN "unsafe-reference-deep"
         ELSE "none"

FactGateReasons(objects, obj, f) ==
    IF ProfileFactReason(obj, f) # "none" THEN {"unsafe-profile-fact"}
    ELSE {ReferenceReason(objects, target) : target \in TargetsOf(f)} \ {"none"}

OwnReason(objects, obj) == FirstReason(<<
    <<obj.id \in NotText, "unsupported-object-id-type">>,
    <<~Safe(obj.id), "missing-object-id">>,
    <<obj.role = "untyped", "unsupported-object-role-type">>,
    <<obj.level \notin KnownLevels, "unsupported-semantic-level-type">>,
    <<obj.id \in Ambiguous(objects), "duplicate-object-id">>,
    <<obj.level = "RawTextOnly", "raw-text-only-skeleton-forbidden">>,
    <<obj.level \notin ExecutableSafeLevels, "unsupported-semantic-level">>,
    <<ProvenanceReason(obj.span) # "none", ProvenanceReason(obj.span)>>,
    <<obj.facts = <<>>, "missing-profile-facts">>>>)

ExecutableRefusals(objects) ==
    UNION {IF OwnReason(objects, objects[i]) # "none" THEN {<<i, OwnReason(objects, objects[i])>>}
           ELSE {<<i, reason>> : reason \in UNION {FactGateReasons(objects, objects[i], f) :
                                                       f \in Range(objects[i].facts)}} :
              i \in DOMAIN objects}

Lowerable(objects) ==
    {i \in DOMAIN objects : \A refusal \in ExecutableRefusals(objects) : refusal[1] # i}
=============================================================================
