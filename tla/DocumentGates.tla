----------------------------- MODULE DocumentGates -----------------------------
(***************************************************************************)
(* One document on its way through the compiler's gates: validated record  *)
(* group by record group, as validate_document does, or handed to the      *)
(* backend as it is, then emitted list by list.  The validation layer      *)
(* judges the obligations and checks the document came with, never those   *)
(* it adds.                                                                *)
(***************************************************************************)
EXTENDS DocumentValidation, ExecutableGate, Diagnostics

CONSTANT Inputs        \* the documents the compiler may be given

RecordLists == {"files", "spans", "sections", "items", "objects", "obligations", "checks"}

\* Records come in lists, and so do facts and their arguments; a target is an
\* identity, or what stands for something else, and numbers are whole.  The
\* documents have not been validated before: no record bears a name validation
\* makes.
ASSUME InputsAssumption ==
    \A d \in Inputs :
        /\ d = Document(d.files, d.spans, d.sections, d.items, d.objects, d.obligations, d.checks)
        /\ \A list \in RecordLists :
              /\ IsList(d[list])
              /\ \A r \in Range(d[list]) : r.typed => IsList(r.id) /\ ~IsMadeUp(r.id)
        /\ \A obj \in Range(d.objects) :
              /\ IsList(obj.facts)
              /\ \A f \in Range(obj.facts) : IsList(f.args)
        /\ \A s \in Range(d.spans) : s.typed /\ s.numeric => {s.from, s.to, s.first, s.last} \subseteq Int
        /\ \A o \in Range(d.obligations) : o.typed => IsList(o.target)

VARIABLES
    doc,               \* the document
    entry,             \* its obligations and checks when validation began
    stage,             \* what happens to it next
    out                \* what the backend has written and refused

vars == <<doc, entry, stage, out>>

Init ==
    /\ doc \in Inputs
    /\ entry = [obligations |-> <<>>, checks |-> <<>>, validated |-> FALSE]
    /\ stage = "received"
    /\ out = NothingEmitted

-----------------------------------------------------------------------------
(* Validation. *)

BeginValidation ==
    /\ stage = "received"
    /\ entry' = [obligations |-> doc.obligations, checks |-> doc.checks, validated |-> TRUE]
    /\ stage' = "files"
    /\ UNCHANGED <<doc, out>>

Validate(at, next, validated) ==
    /\ stage = at
    /\ doc' = validated
    /\ stage' = next
    /\ UNCHANGED <<entry, out>>

\* An exception leaves what was appended before it in the document.
Raise ==
    /\ \/ stage = "spans" /\ SpansRaise(doc)
       \/ stage = "edges" /\ EdgesRaise(doc)
    /\ stage' = "raised"
    /\ UNCHANGED <<doc, entry, out>>

ValidateStep ==
    \/ Validate("files", "spans", ValidatePlainFiles(doc))
    \/ ~SpansRaise(doc) /\ Validate("spans", "identities", ValidateSourceSpans(doc))
    \/ Validate("identities", "sections", ValidateIdentities(doc))
    \/ Validate("sections", "items", ValidateSections(doc))
    \/ Validate("items", "objects", ValidateItems(doc))
    \/ Validate("objects", "layer", ValidateObjects(doc))
    \/ Validate("layer", "levels", ValidateLayerIdentities(doc, entry.obligations, entry.checks))
    \/ Validate("levels", "facts", ValidateReifiedLevels(doc))
    \/ Validate("facts", "questions", ValidateObjectFacts(doc))
    \/ Validate("questions", "obligations", ValidateQuestionObjects(doc))
    \/ Validate("obligations", "checks", ValidateObligationRecords(doc, entry.obligations))
    \/ Validate("checks", "edges", ValidateCheckRecords(doc, entry.checks))
    \/ ~EdgesRaise(doc) /\ Validate("edges", "presence", ValidateEdgeProvenance(doc))
    \/ Validate("presence", "validated", ValidatePresence(doc))

-----------------------------------------------------------------------------
(* Emission. *)

BeginEmission ==
    /\ stage \in {"received", "validated"}
    /\ stage' = "emit-files"
    /\ UNCHANGED <<doc, entry, out>>

Emit(at, next, emitted) ==
    /\ stage = at
    /\ out' = emitted
    /\ stage' = next
    /\ UNCHANGED <<doc, entry>>

\* Fault: one round of refusals, not one per level of the hierarchy.
ParentRoundOnce == Emit("emit-parents", "emit-objects", RefuseParents(doc, out))

\* The loop over the parents ends with the first round that refuses nothing.
ParentRound ==
    IF ParentRefusals(doc, out) = {} THEN Emit("emit-parents", "emit-objects", out)
    ELSE Emit("emit-parents", "emit-parents", RefuseParents(doc, out))

EmitStep ==
    \/ Emit("emit-files", "emit-spans", EmitFiles(doc, out))
    \/ Emit("emit-spans", "emit-sections", EmitSpans(doc, out))
    \/ Emit("emit-sections", "emit-items", EmitSections(doc, out))
    \/ Emit("emit-items", "emit-parents", CandidateItems(doc, out))
    \/ ParentRound
    \/ Emit("emit-objects", "emit-obligations", EmitObjects(doc, out))
    \/ Emit("emit-obligations", "emit-checks", EmitObligations(doc, out))
    \/ Emit("emit-checks", "emitted", EmitChecks(doc, out))

Done == stage \in {"emitted", "raised"} /\ UNCHANGED vars

Next == BeginValidation \/ ValidateStep \/ Raise \/ BeginEmission \/ EmitStep \/ Done

Spec == Init /\ [][Next]_vars

-----------------------------------------------------------------------------
(* Properties. *)

\* Diagnostics decide what is admitted by rules of their own; they admit the
\* objects, the obligations and the checks the backend emits, no more and no fewer.
DiagnosticsAgreeWithEmission ==
    stage = "emitted" =>
        /\ {doc.objects[i].id : i \in AdmittedObjects(doc)} = out.objects
        /\ {doc.obligations[i].id : i \in AdmittedObligations(doc)} = out.obligations
        /\ {doc.checks[i].id : i \in AdmittedChecks(doc)} = out.checks
        /\ LET summary == DiagnosticsSummary(doc, out)
               counts  == SummaryCounts(doc, out) IN
           <<summary.pass, summary.fail, summary.unknown>> = <<counts["Pass"], counts["Fail"], counts["Unknown"]>>

\* The loop over the parents keeps as many items as it can: its result is the
\* largest set of candidates whose parents are all in the set, are other items
\* and share file and section, and no item is refused twice.
ParentsAreKeptWherePossible ==
    LET candidates == {item \in Range(doc.items) : ItemReason(doc, out, item) = "none"}
        Stands(item, S) ==
            item.parent = None
            \/ \E p \in S : /\ p.id = item.parent /\ p.id # item.id
                            /\ p.file = item.file /\ p.section = item.section
        closed == {S \in SUBSET candidates : \A item \in S : Stands(item, S)} IN
    /\ out.items = {item.id : item \in UNION closed}
    /\ \A a, b \in out.refusals : a[1] = "items" /\ b[1] = "items" /\ a[2] = b[2] => a = b

\* Spans cite a file, sections and items a file, span and section, items a
\* parent, objects and obligations a span, obligations the object that owns
\* their target, and checks their obligation: all of it is emitted.
CitationsAreEmitted ==
    LET Emitted(list) == {r \in Range(doc[list]) : r.typed /\ r.id \in out[list]}
        obligations == Emitted("obligations")
        Provenance(r) == r.span \in {None, Blank} \/ ~HasManifest(doc) \/ r.span \in out.spans IN
    /\ \A s \in Emitted("spans") : s.file \in out.files
    /\ \A s \in Emitted("sections") : s.file \in out.files /\ s.span \in out.spans
    /\ \A item \in Emitted("items") :
         /\ item.file \in out.files /\ item.span \in out.spans /\ item.section \in out.sections
         /\ item.parent # None => item.parent \in out.items
    /\ \A obj \in Emitted("objects") : Provenance(obj)
    /\ \A o \in obligations :
         /\ Provenance(o)
         /\ ~OwnerNotEmitted(doc, out.objects, o.target)
    /\ \A c \in Emitted("checks") :
         \E o \in obligations : <<o.id, o.property, o.target>> = <<c.obligation, c.property, c.target>>

\* What is emitted cites only what is emitted, and of the items no more are
\* refused for it than have to be.
ManifestIsClosed ==
    /\ stage = "emit-objects" => ParentsAreKeptWherePossible
    /\ stage = "emitted" => CitationsAreEmitted

\* An object may be lowered exactly when it is sound and all it refers to is:
\* "sound" objects are declared once, safe to execute, sourced and well formed,
\* and what is reached from a reference is a set of them that refers to nothing
\* outside itself and can be ordered, every part of it having a member that
\* refers to nothing in it.  Of the object itself level and role must have their
\* types.  Of what it refers to, the role is never judged and the level may be
\* plain text, and the object a fact names itself may leave a reference empty,
\* which then names what is called None.
OnlySafeClosuresAreLowered ==
    (stage = "received" /\ \A obj \in Range(doc.objects) : obj.typed /\ obj.listed) =>
        LET objects == doc.objects
            record == [id \in Named(objects) \ Ambiguous(objects) |-> Declared(objects, id)]
            Sourced(id) == /\ Safe(id) /\ record[id].level \in SafeByValue
                           /\ ProvenanceReason(record[id].span) = "none" /\ record[id].facts # <<>>
            sound   == {id \in DOMAIN record : Sourced(id) /\ FactReasons(record[id]) = {}}
            citable == {id \in DOMAIN record :
                          Sourced(id) /\ FactReasons(record[id]) \subseteq {"empty-object-reference"}}
            refersTo == [id \in citable |-> ReferencesOf(record[id])]
            Closed(S) == \A id \in S : refersTo[id] \subseteq S
            Ordered(S) == \A part \in (SUBSET S) \ {{}} : \E id \in part : refersTo[id] \cap part = {} IN
        Lowerable(objects) =
            {i \in DOMAIN objects :
                /\ objects[i].role # "untyped" /\ objects[i].level \in KnownLevels
                /\ objects[i].id \in sound
                /\ \A target \in refersTo[objects[i].id] :
                     /\ target \in citable
                     /\ \E S \in SUBSET (sound \ {target}) :
                          refersTo[target] \subseteq S /\ Closed(S) /\ Ordered(S)}

\* What the validators found wrong with a document they finished.
Added(records, originals) == SubSeq(records, Len(originals) + 1, Len(records))
Unsettled(statuses) ==
    {c \in Range(Added(doc.checks, entry.checks)) : c.status \in statuses}

\* No two records of a list carry one identity.
CarriedOnce(records) ==
    \A i, j \in DOMAIN records :
        records[i].typed /\ records[j].typed /\ records[i].id = records[j].id => i = j

CarriedOnceEach ==
    /\ \A list \in RecordLists \ {"obligations", "checks"} : CarriedOnce(doc[list])
    /\ CarriedOnce(entry.obligations)
    /\ CarriedOnce(entry.checks)

\* But for an object's own, no identity begins with an object's, when white
\* space before them is left out: neither "o1:x" nor "o1 " nor " o1" is one if
\* "o1" is an object.
NoneLooksLikeAPart ==
    \A list \in RecordLists : \A id \in SafeIds(doc[list]), obj \in SafeIds(doc.objects) :
        id # obj => ~IsPrefix(Unindented(obj), Unindented(id))

\* A document the validators pass without a Fail or an Unknown is emitted
\* whole, if no record looks like a part of an object, padded or not.  The one
\* thing they let through that the backend refuses is a span that a generated
\* object cites and the manifest does not hold; what is said of that object
\* falls with it.
CleanIsAccepted ==
    (stage = "emitted" /\ entry.validated /\ Unsettled({"Fail", "Unknown"}) = {} /\ NoneLooksLikeAPart) =>
        LET stray == {obj \in Range(doc.objects) :
                        HasFact(obj, {"GeneratedFrom"}) /\ obj.span \notin out.spans} IN
        \A refusal \in out.refusals :
            LET record == doc[refusal[1]][refusal[2]] IN
            \/ refusal[1] = "objects" /\ record \in stray
            \/ /\ refusal[1] = "obligations"
               /\ \E obj \in stray : \/ record.span = obj.span
                                     \/ TargetObject(record.target, SafeIds(doc.objects)) = obj.id
            \/ refusal[1] = "checks" /\ record.obligation \notin out.obligations

\* Validation never answers one obligation with two statuses, when the
\* identities it is given are each carried once.
OneVerdict ==
    (stage = "validated" /\ CarriedOnceEach) =>
        LET added == Added(doc.checks, entry.checks) IN
        \A a, b \in Range(added) : a.obligation = b.obligation => a = b

\* What validation leaves Unknown for want of a level or of a schema is asked:
\* one question of its own carries a text and blocks the obligation, when no
\* two objects carry one identity.
UnknownsAreAsked ==
    (stage = "validated" /\ CarriedOnce(doc.objects)) =>
        \A c \in Unsettled({"Unknown"}) :
            c.property \in {LevelProperty, "fact-has-supported-arity"} =>
                Cardinality({i \in DOMAIN doc.objects :
                    /\ doc.objects[i].typed /\ IsMadeUp(doc.objects[i].id)
                    /\ doc.objects[i].role = "QuestionObject" /\ doc.objects[i].listed
                    /\ c.obligation \in ThirdOf(doc.objects[i], "Blocks")
                    /\ ThirdOf(doc.objects[i], "QuestionText") # {}}) = 1
=============================================================================
