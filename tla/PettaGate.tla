------------------------------ MODULE PettaGate ------------------------------
(***************************************************************************)
(* The reified PeTTa profile (backends/petta.py): what emit_reified_atoms  *)
(* admits of a document and why it refuses the rest.  The output "out"     *)
(* holds the identities whose atoms were written, list by list, and the    *)
(* refusals as <<list, index, fact, reason>>.  The reasons of one record   *)
(* are tried in order and the first is given.                              *)
(***************************************************************************)
EXTENDS Documents

NothingEmitted ==
    [files |-> {}, spans |-> {}, sections |-> {}, items |-> {}, objects |-> {},
     facts |-> {}, obligations |-> {}, checks |-> {}, refusals |-> {}]

\* The first reason whose condition holds.
FirstReason(rules) ==
    LET held == {i \in DOMAIN rules : rules[i][1]} IN
    IF held = {} THEN "none" ELSE rules[CHOOSE i \in held : \A j \in held : i <= j][2]

\* Admit the records of a list that no reason refuses.
Admit(out, list, records, Reason(_)) ==
    LET refused == {i \in DOMAIN records : Reason(records[i]) # "none"} IN
    [out EXCEPT
        ![list] = {records[i].id : i \in DOMAIN records \ refused},
        !.refusals = @ \cup {<<list, i, 0, Reason(records[i])>> : i \in refused}]

-----------------------------------------------------------------------------
(* The manifest: files, spans, sections and items. *)

PlainFileReason(doc, f) == FirstReason(<<
    <<~f.typed, "unsupported-plain-file-record-type">>,
    <<~Safe(f.id), "invalid-plain-file-id">>,
    <<~SafeText(f.path), "invalid-plain-file-path">>,
    <<~SafeText(f.digest), "invalid-plain-file-digest">>,
    <<IsDuplicate(f.id, doc.files), "duplicate-plain-file-id">>>>)

EmitFiles(doc, out) ==
    Admit(out, "files", doc.files, LAMBDA f : PlainFileReason(doc, f))

SourceSpanReason(s) == FirstReason(<<
    <<~s.typed, "unsupported-source-span-record-type">>,
    <<~Safe(s.id), "invalid-source-span-id">>,
    <<~Safe(s.file), "invalid-source-span-file-id">>,
    <<~s.numeric, "invalid-source-span-byte-bound-type">>,
    <<s.from < 0 \/ s.to < s.from, "invalid-source-span-byte-bounds">>,
    <<s.first < 1 \/ s.last < s.first, "invalid-source-span-line-bounds">>>>)

SpanReason(doc, files, s) == FirstReason(<<
    <<SourceSpanReason(s) # "none", SourceSpanReason(s)>>,
    <<IsDuplicate(s.id, doc.spans), "duplicate-source-span-id">>,
    <<s.file \notin files, "source-span-file-not-emitted">>>>)

EmitSpans(doc, out) ==
    Admit(out, "spans", doc.spans, LAMBDA s : SpanReason(doc, out.files, s))

\* The spans diagnostics and emission agree to admit.
AdmittedSpanIds(doc) ==
    LET files == {f.id : f \in {f \in Range(doc.files) : PlainFileReason(doc, f) = "none"}} IN
    {s.id : s \in {s \in Range(doc.spans) : SpanReason(doc, files, s) = "none"}}

\* One of the records carries the identity and lies in the file.
LiesIn(records, id, file) == \E r \in Range(records) : r.typed /\ r.id = id /\ r.file = file

SectionReason(doc, out, s) == FirstReason(<<
    <<~s.typed, "unsupported-section-record-type">>,
    <<~Safe(s.id), "invalid-section-id">>,
    <<~Safe(s.file), "invalid-section-file-id">>,
    <<~SafeText(s.kind), "invalid-section-kind">>,
    <<s.ordinal # "number", "invalid-section-ordinal">>,
    <<~Safe(s.span), "invalid-section-span-id">>,
    <<IsDuplicate(s.id, doc.sections), "duplicate-section-id">>,
    <<s.file \notin out.files, "section-file-not-emitted">>,
    <<s.span \notin out.spans, "section-span-not-emitted">>,
    <<~LiesIn(doc.spans, s.span, s.file), "section-span-file-mismatch">>>>)

EmitSections(doc, out) ==
    Admit(out, "sections", doc.sections, LAMBDA s : SectionReason(doc, out, s))

PlainItemReason(item) == FirstReason(<<
    <<~item.typed, "unsupported-plain-item-record-type">>,
    <<~Safe(item.id), "invalid-plain-item-id">>,
    <<~Safe(item.file), "invalid-plain-item-file-id">>,
    <<~Safe(item.section), "invalid-plain-item-section-id">>,
    <<item.parent # None /\ ~Safe(item.parent), "invalid-plain-item-parent-id">>,
    <<item.ordinal # "number", "invalid-plain-item-ordinal">>,
    <<item.level # "number", "invalid-plain-item-level">>,
    <<item.raw # "text", "invalid-plain-item-raw-text">>,
    <<~Safe(item.span), "invalid-plain-item-span-id">>>>)

ItemReason(doc, out, item) == FirstReason(<<
    <<PlainItemReason(item) # "none", PlainItemReason(item)>>,
    <<IsDuplicate(item.id, doc.items), "duplicate-plain-item-id">>,
    <<item.file \notin out.files, "plain-item-file-not-emitted">>,
    <<item.section \notin out.sections, "plain-item-section-not-emitted">>,
    <<item.span \notin out.spans, "plain-item-span-not-emitted">>,
    <<~LiesIn(doc.sections, item.section, item.file), "plain-item-section-file-mismatch">>,
    <<~LiesIn(doc.spans, item.span, item.file), "plain-item-span-file-mismatch">>>>)

CandidateItems(doc, out) ==
    Admit(out, "items", doc.items, LAMBDA item : ItemReason(doc, out, item))

\* One round of the loop over the parents: every refusal of a round is
\* decided on the items still standing when the round begins.
ParentReason(doc, standing, item) ==
    LET parents == {p \in Range(doc.items) : p.typed /\ p.id = item.parent /\ p.id \in standing} IN
    FirstReason(<<
    <<item.parent = None, "none">>,
    <<item.parent = item.id, "plain-item-self-parent">>,
    <<parents = {}, "plain-item-parent-not-emitted">>,
    <<\E p \in parents : p.file # item.file, "plain-item-parent-file-mismatch">>,
    <<\E p \in parents : p.section # item.section, "plain-item-parent-section-mismatch">>>>)

ParentRefusals(doc, out) ==
    {i \in DOMAIN doc.items :
        /\ ItemReason(doc, out, doc.items[i]) = "none" /\ doc.items[i].id \in out.items
        /\ ParentReason(doc, out.items, doc.items[i]) # "none"}

RefuseParents(doc, out) ==
    [out EXCEPT !.items = @ \ {doc.items[i].id : i \in ParentRefusals(doc, out)},
                !.refusals = @ \cup {<<"items", i, 0, ParentReason(doc, out.items, doc.items[i])>> :
                                       i \in ParentRefusals(doc, out)}]

-----------------------------------------------------------------------------
(* Objects and their facts. *)

\* With neither files nor spans there is no manifest to cite.
HasManifest(doc) == doc.files # <<>> \/ doc.spans # <<>>

\* An absent span is no defect; the empty text counts as absent.
OptionalProvenanceReason(span) == FirstReason(<<
    <<span \in {None, Blank}, "none">>,
    <<span \in NotText, "unsupported-source-span-id-type">>,
    <<~Safe(span), "missing-source-provenance">>>>)

SpanNotEmitted(doc, spans, span) == HasManifest(doc) /\ Safe(span) /\ span \notin spans

ReifiedObjectReason(obj) == FirstReason(<<
    <<obj.id \in NotText, "unsupported-object-id-type">>,
    <<~Safe(obj.id), "missing-object-id">>,
    <<obj.role = "untyped", "unsupported-object-role-type">>,
    <<obj.level \notin KnownLevels, "unsupported-semantic-level-type">>,
    <<obj.level \notin SupportedLevels, "unsupported-semantic-level">>,
    <<~obj.listed, "unsupported-object-facts-container-type">>>>)

ObjectReason(doc, out, obj) == FirstReason(<<
    <<~obj.typed, "unsupported-spec-object-record-type">>,
    <<IsDuplicate(obj.id, doc.objects), "duplicate-object-id">>,
    <<OptionalProvenanceReason(obj.span) # "none", OptionalProvenanceReason(obj.span)>>,
    <<SpanNotEmitted(doc, out.spans, obj.span), "object-source-span-not-emitted">>,
    <<ReifiedObjectReason(obj) # "none", ReifiedObjectReason(obj)>>>>)

ArgumentReason(f, p) ==
    LET value == f.args[p]
        reference == p \in FactSchemas[f.predicate].objects IN
    FirstReason(<<
    <<value = Untyped, "unsupported-fact-argument-type">>,
    <<reference /\ value \in {Number, NotANumber}, "unsupported-object-reference-type">>,
    <<value \in {None, Blank, Spaces}, IF reference THEN "empty-object-reference" ELSE "empty-fact-argument">>,
    <<value = NotANumber, "non-finite-fact-argument">>>>)

ProfileFactReason(obj, f) ==
    IF ~PlainFact(f) \/ f.predicate \notin DOMAIN FactSchemas THEN "unsupported-fact-predicate"
    ELSE IF Len(f.args) # FactSchemas[f.predicate].arity THEN "unsupported-fact-arity"
    ELSE IF FactSchemas[f.predicate].owned /\ f.args[1] \in NotText THEN "unsupported-fact-subject-type"
    ELSE IF FactSchemas[f.predicate].owned /\ f.args[1] # obj.id THEN "fact-subject-mismatch"
    ELSE FirstReason([p \in DOMAIN f.args |-> <<ArgumentReason(f, p) # "none", ArgumentReason(f, p)>>])

EmitObjects(doc, out) ==
    LET admitted == Admit(out, "objects", doc.objects, LAMBDA obj : ObjectReason(doc, out, obj))
        carried  == {i \in DOMAIN doc.objects : ObjectReason(doc, out, doc.objects[i]) = "none"}
        facts    == UNION {{<<i, k>> : k \in DOMAIN doc.objects[i].facts} : i \in carried}
        Reason(at) == ProfileFactReason(doc.objects[at[1]], doc.objects[at[1]].facts[at[2]]) IN
    [admitted EXCEPT
        !.facts = {at \in facts : Reason(at) = "none"},
        !.refusals = @ \cup {<<"facts", at[1], at[2], Reason(at)>> : at \in {at \in facts : Reason(at) # "none"}}]

-----------------------------------------------------------------------------
(* Obligations and checks. *)

\* The most specific declared object that owns a target.
Owners(target, declared) == {id \in declared : target = id \/ IsSubtargetOf(target, id)}
TargetObject(target, declared) ==
    CHOOSE id \in Owners(target, declared) :
        \A other \in Owners(target, declared) : Len(other) <= Len(id)

HasEmptySubtarget(target, declared) ==
    \E id \in declared : IsSubtargetOf(target, id) /\ Subtarget(target, id) = <<"blank">>

\* Padding, format characters before white space, between an object and the
\* colon after it.
PaddedSeparator(target, id) ==
    \E padding \in {<<"zw">>, <<" ">>, <<"zw", " ">>} : IsSubtargetOf(target, id \o padding)

\* The target is read without white space around it, so that no identity that
\* begins with white space begins it.
HasPaddedSubtarget(target, declared) ==
    LET stripped == Stripped(target) IN
    \E id \in {id \in declared : Head(id) # " "} :
        \/ IsSubtargetOf(stripped, id) /\ (target # stripped \/ ~Canonical(stripped, id))
        \/ PaddedSeparator(stripped, id)

OwnerNotEmitted(doc, objects, target) ==
    /\ Owners(target, SafeIds(doc.objects)) # {}
    /\ TargetObject(target, SafeIds(doc.objects)) \notin objects

ObligationReason(doc, out, o) == FirstReason(<<
    <<~o.typed, "unsupported-validation-obligation-record-type">>,
    <<o.id \in NotText, "unsupported-validation-obligation-id-type">>,
    <<~Safe(o.id), "missing-validation-obligation-id">>,
    <<IsDuplicate(o.id, doc.obligations), "duplicate-validation-obligation-id">>,
    <<~SafeText(o.property), "missing-validation-obligation-property">>,
    <<~Safe(o.target), "missing-validation-obligation-target-id">>,
    <<~SafeText(o.rationale), "missing-validation-obligation-rationale">>,
    <<OptionalProvenanceReason(o.span) # "none", OptionalProvenanceReason(o.span)>>,
    <<SpanNotEmitted(doc, out.spans, o.span), "validation-obligation-source-span-not-emitted">>,
    <<HasEmptySubtarget(o.target, SafeIds(doc.objects)), "validation-obligation-target-has-empty-object-subtarget">>,
    <<HasPaddedSubtarget(o.target, SafeIds(doc.objects)), "validation-obligation-target-has-padded-object-subtarget">>,
    <<OwnerNotEmitted(doc, out.objects, o.target), "validation-obligation-target-object-not-emitted">>>>)

EmitObligations(doc, out) ==
    Admit(out, "obligations", doc.obligations, LAMBDA o : ObligationReason(doc, out, o))

CheckReason(doc, out, c) ==
    LET cited == {o \in Range(doc.obligations) : o.typed /\ o.id = c.obligation /\ o.id \in out.obligations} IN
    FirstReason(<<
    <<~c.typed, "unsupported-check-record-type">>,
    <<c.id \in NotText, "unsupported-check-id-type">>,
    <<~Safe(c.id), "missing-check-id">>,
    <<IsDuplicate(c.id, doc.checks), "duplicate-check-id">>,
    <<~Safe(c.obligation), "missing-check-obligation-id">>,
    <<c.obligation \notin out.obligations, "check-obligation-not-emitted">>,
    <<~SafeText(c.property), "missing-check-property">>,
    <<~Safe(c.target), "missing-check-target-id">>,
    <<\E o \in cited : o.property # c.property, "check-property-mismatch-with-obligation">>,
    <<\E o \in cited : o.target # c.target, "check-target-mismatch-with-obligation">>,
    <<c.status = "untyped", "unsupported-check-status-type">>,
    <<~SafeText(c.evidence), "missing-check-evidence">>>>)

EmitChecks(doc, out) ==
    Admit(out, "checks", doc.checks, LAMBDA c : CheckReason(doc, out, c))

\* document-validation-summary counts the records written and nothing else.
SummaryCounts(doc, out) ==
    [status \in {"Pass", "Fail", "Unknown"} |->
        Cardinality({i \in DOMAIN doc.checks : /\ doc.checks[i].typed
                                               /\ doc.checks[i].id \in out.checks
                                               /\ doc.checks[i].status = status})]
=============================================================================
