----------------------------- MODULE Diagnostics -----------------------------
(***************************************************************************)
(* The diagnostics of a document (backends/diagnostics.py).  They admit    *)
(* objects and checks by rules of their own, without the output of the     *)
(* backend, and count what they admit.                                     *)
(***************************************************************************)
EXTENDS PettaGate

\* Absent, or named and, when there is a manifest, part of it.
AdmittedProvenance(doc, span) ==
    \/ span \in {None, Blank}
    \/ Safe(span) /\ (HasManifest(doc) => span \in AdmittedSpanIds(doc))

AdmittedObjects(doc) ==
    {i \in DOMAIN doc.objects :
        LET obj == doc.objects[i] IN
        /\ obj.typed /\ Safe(obj.id) /\ IsUnique(obj.id, doc.objects)
        /\ obj.role # "untyped"
        /\ obj.level \in SupportedLevels
        /\ obj.listed
        /\ AdmittedProvenance(doc, obj.span)}

\* Fault: the object that owns a target need not be admitted.
AdmittedObligationsAnyOwner(doc) ==
    {i \in DOMAIN doc.obligations :
        LET o == doc.obligations[i] IN
        /\ o.typed /\ Safe(o.id) /\ IsUnique(o.id, doc.obligations)
        /\ SafeText(o.property) /\ Safe(o.target) /\ SafeText(o.rationale)
        /\ ~HasEmptySubtarget(o.target, SafeIds(doc.objects))
        /\ ~HasPaddedSubtarget(o.target, SafeIds(doc.objects))
        /\ AdmittedProvenance(doc, o.span)}

AdmittedObligations(doc) ==
    LET declared == SafeIds(doc.objects)
        objects  == {doc.objects[i].id : i \in AdmittedObjects(doc)} IN
    {i \in DOMAIN doc.obligations :
        LET o == doc.obligations[i] IN
        /\ o.typed /\ Safe(o.id) /\ IsUnique(o.id, doc.obligations)
        /\ SafeText(o.property) /\ Safe(o.target) /\ SafeText(o.rationale)
        /\ ~HasEmptySubtarget(o.target, declared)
        /\ ~HasPaddedSubtarget(o.target, declared)
        /\ Owners(o.target, declared) # {} => TargetObject(o.target, declared) \in objects
        /\ AdmittedProvenance(doc, o.span)}

AdmittedChecks(doc) ==
    LET admitted == AdmittedObligations(doc) IN
    {i \in DOMAIN doc.checks :
        LET c == doc.checks[i] IN
        /\ c.typed /\ Safe(c.id) /\ IsUnique(c.id, doc.checks)
        /\ Safe(c.obligation)
        /\ SafeText(c.property) /\ Safe(c.target)
        /\ \E k \in admitted : /\ doc.obligations[k].id = c.obligation
                               /\ doc.obligations[k].property = c.property
                               /\ doc.obligations[k].target = c.target
        /\ c.status # "untyped" /\ SafeText(c.evidence)}

OwnFacts(obj, predicate) ==
    {k \in DOMAIN obj.facts :
        LET f == obj.facts[k] IN
        PlainFact(f) /\ f.predicate = predicate /\ Len(f.args) = 2 /\ f.args[1] = obj.id}

\* diagnostics_summary: the counts over what is admitted, and the refusals of
\* the backend.
DiagnosticsSummary(doc, out) ==
    LET checks  == AdmittedChecks(doc)
        objects == AdmittedObjects(doc)
        With(status) == Cardinality({i \in checks : doc.checks[i].status = status})
        Concepts(status) ==
            Cardinality(UNION {{<<i, k>> : k \in {k \in OwnFacts(doc.objects[i], "ConceptStatus") :
                                                    doc.objects[i].facts[k].args[2] = <<status>>}} : i \in objects}) IN
    [pass |-> With("Pass"), fail |-> With("Fail"), unknown |-> With("Unknown"),
     refusals |-> Cardinality(out.refusals),
     questions |-> Cardinality({i \in objects : doc.objects[i].role = "QuestionObject"}),
     concepts |-> [status \in {"defined", "external", "unresolved"} |-> Concepts(status)]]
=============================================================================
