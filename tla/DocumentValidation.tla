-------------------------- MODULE DocumentValidation --------------------------
(***************************************************************************)
(* The validators (validators.py): what validate_document appends to a     *)
(* document, one operator per group of records in the order it visits      *)
(* them.  Each operator takes the document so far; those that judge        *)
(* obligations and checks also take the lists as they were on entry, for   *)
(* the validation layer never judges what it has just added.               *)
(***************************************************************************)
EXTENDS Documents

\* The place of a record in its list, counted in strokes.
Place(i) == [k \in 1..i |-> "|"]

\* Names made out of hashes, of what the validators add and of what has no name.
IsMadeUp(id) ==
    /\ id # <<>>
    /\ id[1] \in {"vobl", "chk", "question", "malformed-plain-file", "malformed-source-span",
                  "malformed-section", "malformed-item", "malformed-object",
                  "malformed-validation-obligation", "malformed-check-record"}

RecordTarget(record, malformed, i) ==
    IF record.typed /\ Safe(record.id) THEN record.id ELSE <<malformed>> \o Place(i)

\* A span reference is absent or names something.
SafeOptional(id) == id = None \/ Safe(id)

-----------------------------------------------------------------------------
(* Files. *)

SafeFileFields(f) == SafeText(f.path) /\ SafeText(f.digest) /\ f.text # "untyped"

FileJudgements(f, i) ==
    <<Test("plain-file-has-valid-record-type", RecordTarget(f, "malformed-plain-file", i), None, f.typed)>>
    \o When(f.typed,
        <<Test("plain-file-has-safe-fields", f.id, None, SafeFileFields(f))>>)
    \o When(f.typed /\ SafeFileFields(f),
        <<Test("plain-file-digest-matches-content", f.id, None, f.digest = "matches")>>)

ValidatePlainFiles(doc) ==
    JudgeEach(doc, doc.files, LAMBDA i : FileJudgements(doc.files[i], i))

FileIdentityJudgements(doc, f) ==
    When(f.typed,
        <<Test("plain-file-identity-is-unique", f.id, None, IsUnique(f.id, doc.files)),
          Test("plain-file-has-safe-identity", f.id, None, Safe(f.id))>>)

-----------------------------------------------------------------------------
(* Spans: identity of the file, order of the bounds, place in the file and *)
(* the lines the bytes are on.                                             *)

BoundsAreOrdered(s) ==
    s.numeric /\ s.from >= 0 /\ s.from <= s.to /\ s.first >= 1 /\ s.first <= s.last

LineForOffset(f, offset) == Cardinality({b \in f.breaks : b < offset}) + 1

InBounds(f, s) == s.from < s.to /\ s.to <= f.size

LinesMatch(f, s) ==
    /\ s.first = LineForOffset(f, s.from)
    /\ s.last = LineForOffset(f, s.to - 1)

SpanJudgements(doc, s, i) ==
    LET known == IsUnique(s.file, doc.files)
        file  == ByLastId(doc.files, s.file)
        T(property, holds) == Test(property, s.id, s.id, holds) IN
    <<Test("source-span-has-valid-record-type", RecordTarget(s, "malformed-source-span", i), None, s.typed)>>
    \o When(s.typed, <<T("source-span-has-safe-file-identity", Safe(s.file))>>)
    \o When(s.typed /\ Safe(s.file), <<T("source-span-has-safe-bounds", BoundsAreOrdered(s))>>)
    \o When(s.typed /\ Safe(s.file) /\ BoundsAreOrdered(s),
        IF ~known THEN <<T("source-span-within-file-bounds", FALSE)>>
        ELSE <<T("source-span-within-file-bounds", InBounds(file, s)),
               T("source-span-lines-match-byte-offsets", InBounds(file, s) /\ LinesMatch(file, s))>>)

ValidateSourceSpans(doc) ==
    JudgeEach(doc, doc.spans, LAMBDA i : SpanJudgements(doc, doc.spans[i], i))

\* The length of the file's text is taken whatever the text is: a span with
\* good bounds in a file whose text is not text ends the validation.
SpansRaise(doc) ==
    \E s \in Range(doc.spans) :
        /\ s.typed /\ Safe(s.file) /\ BoundsAreOrdered(s)
        /\ IsUnique(s.file, doc.files)
        /\ ByLastId(doc.files, s.file).text = "untyped"

SpanIdentityJudgements(doc, s) ==
    When(s.typed,
        <<Test("source-span-identity-is-unique", s.id, s.id, IsUnique(s.id, doc.spans)),
          Test("source-span-has-safe-identity", s.id, s.id, Safe(s.id))>>)

ValidateIdentities(doc) ==
    AddJudgements(doc,
        OfEach(doc.files, LAMBDA i : FileIdentityJudgements(doc, doc.files[i]))
        \o OfEach(doc.spans, LAMBDA i : SpanIdentityJudgements(doc, doc.spans[i])))

-----------------------------------------------------------------------------
(* Sections and items. *)

\* Fault: the span is known, in whatever file.
SpanIsInSomeFile(doc, span, file) == IsUnique(span, doc.spans)

\* The file a span record is in, when exactly one span has the identity.
SpanIsIn(doc, span, file) ==
    IsUnique(span, doc.spans) /\ ByLastId(doc.spans, span).file = file

SectionJudgements(doc, s, i) ==
    LET T(property, holds) == Test(property, s.id, s.span, holds) IN
    <<Test("section-has-valid-record-type", RecordTarget(s, "malformed-section", i), None, s.typed)>>
    \o When(s.typed,
        <<Test("section-has-safe-source-span", s.id, IF Safe(s.span) THEN s.span ELSE None, Safe(s.span))>>)
    \o When(s.typed /\ Safe(s.span),
        <<T("section-identity-is-unique", IsUnique(s.id, doc.sections)),
          T("section-has-safe-identity", Safe(s.id)),
          T("section-has-safe-fields", s.kind = "text" /\ s.ordinal = "number"),
          T("section-has-safe-file-identity", Safe(s.file))>>)
    \o When(s.typed /\ Safe(s.span) /\ Safe(s.file),
        <<T("section-file-is-indexed", IsUnique(s.file, doc.files)),
          T("section-has-source-span", IsUnique(s.span, doc.spans)),
          T("section-span-file-matches-section-file", SpanIsIn(doc, s.span, s.file))>>)

ValidateSections(doc) ==
    JudgeEach(doc, doc.sections, LAMBDA i : SectionJudgements(doc, doc.sections[i], i))

SafeLinks(item) == Safe(item.file) /\ Safe(item.section) /\ SafeOptional(item.parent)

ItemLinkJudgements(doc, item) ==
    LET T(property, holds) == Test(property, item.id, item.span, holds) IN
    <<T("item-file-is-indexed", IsUnique(item.file, doc.files)),
      T("item-has-section", IsUnique(item.section, doc.sections)),
      T("item-file-matches-section-file",
        IsUnique(item.section, doc.sections) /\ ByLastId(doc.sections, item.section).file = item.file),
      T("item-has-source-span", IsUnique(item.span, doc.spans)),
      T("item-span-file-matches-item-file", SpanIsIn(doc, item.span, item.file))>>

ItemParentJudgements(doc, item) ==
    LET known  == IsUnique(item.parent, doc.items)
        parent == ByLastId(doc.items, item.parent)
        T(property, holds) == Test(property, item.id, item.span, holds) IN
    <<T("item-parent-is-indexed", known),
      T("item-parent-is-not-self", item.parent # item.id),
      T("item-parent-context-matches",
        known /\ parent.file = item.file /\ parent.section = item.section)>>

ItemJudgements(doc, item, i) ==
    LET T(property, holds) == Test(property, item.id, item.span, holds) IN
    <<Test("item-has-valid-record-type", RecordTarget(item, "malformed-item", i), None, item.typed)>>
    \o When(item.typed,
        <<Test("item-has-safe-source-span", item.id, IF Safe(item.span) THEN item.span ELSE None, Safe(item.span))>>)
    \o When(item.typed /\ Safe(item.span),
        <<T("item-identity-is-unique", IsUnique(item.id, doc.items)),
          T("item-has-safe-identity", Safe(item.id)),
          T("item-has-safe-fields",
            item.ordinal = "number" /\ item.level = "number" /\ item.raw = "text"),
          T("item-has-safe-link-identities", SafeLinks(item))>>)
    \o When(item.typed /\ Safe(item.span) /\ SafeLinks(item), ItemLinkJudgements(doc, item))
    \o When(item.typed /\ Safe(item.span) /\ SafeLinks(item) /\ item.parent # None,
        ItemParentJudgements(doc, item))

ValidateItems(doc) ==
    JudgeEach(doc, doc.items, LAMBDA i : ItemJudgements(doc, doc.items[i], i))

-----------------------------------------------------------------------------
(* Objects, and the identities of the obligations and checks on entry. *)

HasProvenance(doc, obj) ==
    IsUnique(obj.span, doc.spans) \/ HasFact(obj, {"GeneratedFrom"})

ObjectJudgements(doc, obj, i) ==
    LET T(property, holds) == Test(property, obj.id, obj.span, holds) IN
    <<Test("object-has-valid-record-type", RecordTarget(obj, "malformed-object", i), None, obj.typed)>>
    \o When(obj.typed,
        <<T("object-identity-is-unique", IsUnique(obj.id, doc.objects)),
          T("object-has-safe-identity", Safe(obj.id)),
          T("object-has-known-role", obj.role # "untyped"),
          T("object-has-known-semantic-level", obj.level \in KnownLevels),
          T("object-has-valid-facts-container", obj.listed),
          Test("object-has-safe-source-span-id", obj.id,
               IF obj.span \in NotText THEN None ELSE obj.span, SafeOptional(obj.span)),
          T("object-has-source-or-generated-provenance", HasProvenance(doc, obj))>>)

ValidateObjects(doc) ==
    JudgeEach(doc, doc.objects, LAMBDA i : ObjectJudgements(doc, doc.objects[i], i))

ObligationIdentityJudgements(original, o, i) ==
    <<Test("validation-obligation-has-valid-record-type",
           RecordTarget(o, "malformed-validation-obligation", i), None, o.typed)>>
    \o When(o.typed,
        <<Test("validation-obligation-identity-is-unique", o.id, o.span, IsUnique(o.id, original)),
          Test("validation-obligation-has-safe-identity", o.id, o.span, Safe(o.id))>>)

CheckIdentityJudgements(original, c, i) ==
    <<Test("check-has-valid-record-type", RecordTarget(c, "malformed-check-record", i), None, c.typed)>>
    \o When(c.typed,
        <<Test("check-identity-is-unique", c.id, None, IsUnique(c.id, original)),
          Test("check-has-safe-identity", c.id, None, Safe(c.id))>>)

ValidateLayerIdentities(doc, obligations, checks) ==
    AddJudgements(doc,
        OfEach(obligations, LAMBDA i : ObligationIdentityJudgements(obligations, obligations[i], i))
        \o OfEach(checks, LAMBDA i : CheckIdentityJudgements(checks, checks[i], i)))

-----------------------------------------------------------------------------
(* Levels and facts.  What the profile cannot carry stays Unknown, and a    *)
(* question that blocks the obligation is appended after the loop, once.    *)

LevelProperty == "object-supported-by-petta-reified-profile"

\* Fault: one question for all that lacks the same thing.
QuestionOnce(tag, about, span, predicate, oid) ==
    LET qid == <<"question", tag>> IN
    Object(qid, "QuestionObject", "TemplateParsed", span,
           <<Fact(predicate, <<qid, about>>), Fact("QuestionText", <<qid, <<"text">>>>),
             Fact("Blocks", <<qid, oid>>)>>)

Question(tag, about, span, predicate, oid) ==
    LET qid == <<"question", tag>> \o about IN
    Object(qid, "QuestionObject", "TemplateParsed", span,
           <<Fact(predicate, <<qid, about>>), Fact("QuestionText", <<qid, <<"text">>>>),
             Fact("Blocks", <<qid, oid>>)>>)

\* The questions of a list that are new to the document, each identity once.
FreshQuestions(doc, questions) ==
    LET fresh(n) == /\ questions[n].id \notin SafeIds(doc.objects)
                    /\ \A j \in 1..(n - 1) : questions[j].id # questions[n].id
        asked[n \in 0..Len(questions)] ==
            IF n = 0 THEN <<>>
            ELSE IF fresh(n) THEN Append(asked[n - 1], questions[n]) ELSE asked[n - 1] IN
    asked[Len(questions)]

LevelQuestion(obj) ==
    Question("unsupported-petta-reified-level", Append(obj.id, obj.level), obj.span,
             "UnsupportedSemanticLevel", ObligationId(LevelProperty, obj.id))

ValidateReifiedLevels(doc) ==
    LET judged == JudgeEach(doc, doc.objects,
            LAMBDA i : LET obj == doc.objects[i] IN
                When(obj.typed, <<Judgement(LevelProperty, obj.id, obj.span,
                    IF obj.level \in SupportedLevels THEN "Pass" ELSE "Unknown")>>))
        questions == OfEach(doc.objects,
            LAMBDA i : LET obj == doc.objects[i] IN
                When(obj.typed /\ obj.level \notin SupportedLevels, <<LevelQuestion(obj)>>)) IN
    AddObjects(judged, FreshQuestions(doc, questions))

\* Fault: facts of one predicate share a target.
FactTargetByPredicate(obj, i) ==
    obj.id \o <<"fact", IF obj.facts[i].form # "tuple" THEN "empty" ELSE obj.facts[i].predicate>>

FactTarget(obj, i) ==
    obj.id \o <<"fact">> \o Place(i)
           \o <<IF obj.facts[i].form # "tuple" THEN "empty" ELSE obj.facts[i].predicate>>

SafeArgument(f, position) ==
    LET value == f.args[position] IN
    /\ value \notin {None, Blank, Spaces, Untyped, NotANumber}
    /\ position \in FactSchemas[f.predicate].objects => value # Number

ReferencesResolve(f, objects, items, obligations) ==
    LET schema == FactSchemas[f.predicate]
        All(positions, known) == \A p \in positions : f.args[p] \in known IN
    All(schema.objects, objects) /\ All(schema.items, items) /\ All(schema.obligations, obligations)

HasSchema(f) == f.predicate \in DOMAIN FactSchemas
RightArity(f) == Len(f.args) = FactSchemas[f.predicate].arity
SubjectIsOwner(obj, f) ==
    FactSchemas[f.predicate].owned => f.args[1] \notin NotText /\ f.args[1] = obj.id

FactJudgements(doc, obj, i) ==
    LET f == obj.facts[i]
        J(property, status) == Judgement(property, FactTarget(obj, i), obj.span, status)
        T(property, holds) == Test(property, FactTarget(obj, i), obj.span, holds) IN
    IF ~PlainFact(f) THEN <<J("fact-has-supported-arity", "Fail")>>
    ELSE IF ~HasSchema(f) THEN <<J("fact-has-supported-arity", "Unknown")>>
    ELSE IF ~RightArity(f) THEN <<J("fact-has-supported-arity", "Fail")>>
    ELSE <<J("fact-has-supported-arity", "Pass"),
           T("fact-arguments-are-backend-safe", \A p \in DOMAIN f.args : SafeArgument(f, p)),
           T("fact-subject-matches-object", SubjectIsOwner(obj, f)),
           T("fact-references-known-targets",
             ReferencesResolve(f, SafeIds(doc.objects), SafeIds(doc.items), SafeIds(doc.obligations)))>>

PredicateQuestion(obj, i) ==
    Question("unsupported-fact-predicate", FactTarget(obj, i), obj.span, "UnsupportedFactPredicate",
             ObligationId("fact-has-supported-arity", FactTarget(obj, i)))

\* What each fact of the objects gives rise to.
OfEachFact(doc, F(_, _)) ==
    OfEach(doc.objects, LAMBDA k : LET obj == doc.objects[k] IN
        When(obj.typed /\ obj.listed, OfEach(obj.facts, LAMBDA i : F(obj, i))))

ValidateObjectFacts(doc) ==
    LET judged == AddJudgements(doc, OfEachFact(doc, LAMBDA obj, i : FactJudgements(doc, obj, i)))
        questions == OfEachFact(doc, LAMBDA obj, i :
            When(PlainFact(obj.facts[i]) /\ ~HasSchema(obj.facts[i]), <<PredicateQuestion(obj, i)>>)) IN
    AddObjects(judged, FreshQuestions(doc, questions))

-----------------------------------------------------------------------------
(* Questions must carry their text and block a known obligation. *)

ThirdOf(obj, predicate) ==
    {f.args[2] : f \in {f \in Range(obj.facts) :
        PlainFact(f) /\ f.predicate = predicate /\ Len(f.args) = 2}}

QuestionJudgements(doc, obj) ==
    LET blocked == {id \in ThirdOf(obj, "Blocks") : Safe(id)} IN
    When(obj.typed /\ obj.role = "QuestionObject" /\ obj.listed,
        <<Test("question-has-review-text", obj.id, obj.span,
               \E text \in ThirdOf(obj, "QuestionText") : Safe(text)),
          Test("question-blocks-validation-obligation", obj.id, obj.span,
               blocked \cap SafeIds(doc.obligations) # {})>>)

ValidateQuestionObjects(doc) ==
    JudgeEach(doc, doc.objects, LAMBDA i : QuestionJudgements(doc, doc.objects[i]))

-----------------------------------------------------------------------------
(* The validation layer judges its own records on entry. *)

TargetIsDeclared(doc, obligations, target) ==
    LET known == SafeIds(doc.files) \cup SafeIds(doc.sections) \cup SafeIds(doc.items)
                 \cup SafeIds(doc.spans) \cup SafeIds(doc.objects)
                 \cup SafeIds(obligations) \cup SafeIds(doc.checks) IN
    /\ target \notin NotText
    /\ \/ target \in known
       \/ \E id \in SafeIds(doc.objects) : IsSubtargetOf(target, id) /\ Canonical(target, id)

ObligationJudgements(doc, obligations, o) ==
    LET T(property, holds) == Test(property, o.id, o.span, holds) IN
    When(o.typed,
        <<T("validation-obligation-has-safe-property", SafeText(o.property)),
          T("validation-obligation-has-reviewable-rationale", SafeText(o.rationale)),
          T("validation-obligation-has-safe-target", Safe(o.target)),
          Test("validation-obligation-has-safe-source-span-id", o.id,
               IF o.span \in NotText THEN None ELSE o.span, SafeOptional(o.span)),
          Judgement("obligation-has-source-provenance", o.id, o.span,
               IF o.span = None THEN "Unknown"
               ELSE IF o.span \in SafeIds(doc.spans) THEN "Pass" ELSE "Fail"),
          T("obligation-target-is-declared", TargetIsDeclared(doc, obligations, o.target))>>)

ValidateObligationRecords(doc, obligations) ==
    JudgeEach(doc, obligations, LAMBDA i : ObligationJudgements(doc, obligations, obligations[i]))

CheckJudgements(doc, c) ==
    LET linked == Safe(c.obligation) /\ c.obligation \in SafeIds(doc.obligations)
        cited  == ByLastId(doc.obligations, c.obligation)
        span   == IF linked THEN cited.span ELSE None
        T(property, holds) == Test(property, c.id, span, holds) IN
    When(c.typed,
        <<T("check-has-safe-property", SafeText(c.property)),
          T("check-has-safe-target", Safe(c.target)),
          T("check-status-is-known", c.status # "untyped"),
          T("check-has-evidence", SafeText(c.evidence)),
          T("check-has-safe-obligation-id", Safe(c.obligation)),
          T("check-links-known-obligation", linked)>>)
    \o When(c.typed /\ linked,
        <<T("check-target-matches-obligation", c.property = cited.property /\ c.target = cited.target)>>)

ValidateCheckRecords(doc, checks) ==
    JudgeEach(doc, checks, LAMBDA i : CheckJudgements(doc, checks[i]))

-----------------------------------------------------------------------------
(* Edges cite a span inside the span of an item. *)

EdgePredicates == {"DataFlowEdge", "TemporalOrderEdge"}

\* Scanning the items in order stops at the first that contains the span; a
\* carried span that is no span, or bounds that cannot be compared, raise.
HoldsSpan(item, s) ==
    item.extent.file = s.file /\ item.extent.from <= s.from /\ s.to <= item.extent.to

Incomparable(item, s) == item.span = Untyped \/ (item.extent.file = s.file /\ ~s.numeric)

IsEdge(obj) == obj.typed /\ HasFact(obj, EdgePredicates)

EdgesRaise(doc) ==
    \E obj \in Range(doc.objects) :
        /\ IsEdge(obj)
        /\ obj.span \in SafeIds(doc.spans)
        /\ LET s == ByLastId(doc.spans, obj.span)
               items == TypedOf(doc.items) IN
           \E i \in DOMAIN items :
               /\ Incomparable(items[i], s)
               /\ \A j \in 1..(i - 1) : ~HoldsSpan(items[j], s)

\* The first item that contains the span counts, if its own span has a name.
EdgeStatus(doc, obj) ==
    LET holders == SelectSeq(TypedOf(doc.items), LAMBDA item : HoldsSpan(item, ByLastId(doc.spans, obj.span))) IN
    IF obj.span \in SafeIds(doc.spans) /\ holders # <<>> /\ holders[1].span \notin {None, Blank} THEN "Pass"
    ELSE IF obj.span \notin {None, Blank} THEN "Unknown" ELSE "Fail"

ValidateEdgeProvenance(doc) ==
    JudgeEach(doc, doc.objects,
        LAMBDA i : LET obj == doc.objects[i] IN
            When(IsEdge(obj), <<Judgement("edge-has-item-level-source-provenance", obj.id, obj.span,
                                          EdgeStatus(doc, obj))>>))

\* A document without objects says so of its first file.
ValidatePresence(doc) ==
    LET named == {i \in DOMAIN doc.files : doc.files[i].typed /\ Safe(doc.files[i].id)}
        about == IF named = {} THEN <<"document">> ELSE doc.files[Min(named)].id IN
    IF doc.objects # <<>> THEN doc
    ELSE AddJudgements(doc, <<Judgement("semantic-objects-present", about, None, "Unknown")>>)
=============================================================================
