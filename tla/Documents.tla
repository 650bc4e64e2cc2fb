------------------------------ MODULE Documents ------------------------------
(***************************************************************************)
(* The document the compiler works on (schema.py): seven lists of records  *)
(* and the identities already given to obligations and checks.             *)
(*                                                                         *)
(* Documents may be built by hand, so any field may hold something its     *)
(* annotation rules out.  An identity is a tuple of words, which colons    *)
(* join: <<"o1", "part">> is "o1:part".  Padding is a word that no colon   *)
(* precedes: <<"o1", " ">> is "o1 ", and <<"o1", " ", "part">> "o1 :part"; *)
(* a run of padding of one kind is one word.  None and Untyped stand for   *)
(* an absent identity and for a value that is not text.  "typed" says      *)
(* whether the entry is a record of the kind its list holds, "text" stands *)
(* for any non-blank text, "blank" and "untyped" for the values a text     *)
(* field must not have.                                                    *)
(***************************************************************************)
EXTENDS Integers, SequencesExt, FiniteSetsExt

None    == <<"none">>
Blank   == <<>>                \* the empty text
Spaces  == <<" ">>             \* text of white space only
Untyped == <<"not text">>
Number  == <<"number">>        \* a scalar that is not text
NotANumber == <<"nan">>        \* a float that is not finite

\* not isinstance(x, str)
NotText == {None, Untyped, Number, NotANumber}

\* isinstance(x, str) and x.strip()
Safe(id) == id \notin NotText \cup {Blank, Spaces}

\* str(x), which gives an absent value a name.
TextOf(x) == IF x = None THEN <<"None">> ELSE x

\* A sequence of whatever it is of.
IsList(s) == s \in Seq(Range(s))

\* A text field that holds text.
SafeText(x) == x \notin {"blank", "untyped"}

\* White space, and the format characters that show no width.
Padding == {" ", "zw"}

\* x.lstrip() and x.strip(): format characters are not white space.
Unindented(id) == IF id # <<>> /\ Head(id) = " " THEN Tail(id) ELSE id
Stripped(id) ==
    LET rest == Unindented(id) IN
    IF rest # <<>> /\ Last(rest) = " " THEN Front(rest) ELSE rest

\* A target "object:subtarget" extends the object's identity by a colon and a
\* subtarget.  A subtarget that is empty is "blank", one that is not canonical
\* "padded" or holds padding.
IsSubtargetOf(target, id) == IsStrictPrefix(id, target) /\ target[Len(id) + 1] \notin Padding
Subtarget(target, id) == SubSeq(target, Len(id) + 1, Len(target))
Canonical(target, id) ==
    /\ Subtarget(target, id) # <<"blank">>
    /\ ({"padded"} \cup Padding) \cap Range(Subtarget(target, id)) = {}

\* A level that is a member of SemanticLevel, and plain text that equals one:
\* the members are texts themselves, so that a set of them holds either.
SupportedLevels == {"TemplateParsed", "FormallyTyped", "BackendLowered", "Verified"}
ExecutableSafeLevels == {"BackendLowered", "Verified"}
KnownLevels == SupportedLevels \cup {"RawTextOnly", "Executed", "Rejected"}
SafeByValue == ExecutableSafeLevels \cup {"'BackendLowered'", "'Verified'"}

(***************************************************************************)
(* Fact schemas.  A predicate fixes the number of its arguments, which of  *)
(* them name objects, items or obligations, and whether the first argument *)
(* must be the object that carries the fact.  Predicates of one shape      *)
(* behave alike, and one or two of each shape are kept.                    *)
(***************************************************************************)
Shape(arity, objects, items, obligations, owned) ==
    [arity |-> arity, objects |-> objects, items |-> items,
     obligations |-> obligations, owned |-> owned]

FactSchemas ==
    [RawText                  |-> Shape(2, {}, {}, {}, TRUE),
     QuestionText             |-> Shape(2, {}, {}, {}, TRUE),
     Requirement              |-> Shape(1, {}, {}, {}, TRUE),
     SourceItem               |-> Shape(2, {}, {2}, {}, TRUE),
     RefersToConcept          |-> Shape(2, {2}, {}, {}, TRUE),
     Covers                   |-> Shape(2, {2}, {}, {}, TRUE),
     GeneratedFrom            |-> Shape(2, {2}, {}, {}, TRUE),
     Blocks                   |-> Shape(2, {}, {}, {2}, TRUE),
     ConceptStatus            |-> Shape(2, {}, {}, {}, FALSE),
     DataFlowEdge             |-> Shape(4, {}, {}, {}, FALSE),
     TemporalOrderEdge        |-> Shape(3, {}, {}, {}, FALSE),
     UnsupportedSemanticLevel |-> Shape(2, {}, {}, {}, TRUE),
     UnsupportedFactPredicate |-> Shape(2, {}, {}, {}, TRUE)]

\* "form" is "tuple", "empty" for an empty tuple, "other" for anything else;
\* a predicate that is not text is "untyped".
Fact(predicate, args) == [form |-> "tuple", predicate |-> predicate, args |-> args]

-----------------------------------------------------------------------------
(* Records. *)

File(id, size, breaks) ==
    [typed |-> TRUE, id |-> id, path |-> "text", digest |-> "matches", text |-> "text",
     size |-> size, breaks |-> breaks]

Span(id, file, from, to, first, last) ==
    [typed |-> TRUE, id |-> id, file |-> file, numeric |-> TRUE,
     from |-> from, to |-> to, first |-> first, last |-> last]

Section(id, file, span) ==
    [typed |-> TRUE, id |-> id, file |-> file, span |-> span, kind |-> "text", ordinal |-> "number"]

\* "extent" is the span record an item carries itself.
Item(id, file, section, parent, span, extent) ==
    [typed |-> TRUE, id |-> id, file |-> file, section |-> section, parent |-> parent,
     span |-> span, extent |-> extent, ordinal |-> "number", level |-> "number", raw |-> "text"]

Object(id, role, level, span, facts) ==
    [typed |-> TRUE, id |-> id, role |-> role, level |-> level, span |-> span,
     listed |-> TRUE, facts |-> facts]

Obligation(id, property, target, span) ==
    [typed |-> TRUE, id |-> id, property |-> property, target |-> target,
     rationale |-> "text", span |-> span]

Check(id, obligation, property, target, status) ==
    [typed |-> TRUE, id |-> id, obligation |-> obligation, property |-> property,
     target |-> target, status |-> status, evidence |-> "text"]

\* What __init__ leaves in the two sets of identities: nothing, whatever the
\* lists are given.
Document(files, spans, sections, items, objects, obligations, checks) ==
    [files |-> files, spans |-> spans, sections |-> sections, items |-> items,
     objects |-> objects, obligations |-> obligations, checks |-> checks,
     obligationIds |-> {}, checkIds |-> {}]

-----------------------------------------------------------------------------
(* Reading a list. *)

TypedOf(records) == SelectSeq(records, LAMBDA r : r.typed)

SafeIds(records) == {r.id : r \in {r \in Range(records) : r.typed /\ Safe(r.id)}}

\* Where the records of a list carry an identity.
Carriers(records, id) ==
    IF Safe(id) THEN {i \in DOMAIN records : records[i].typed /\ records[i].id = id} ELSE {}

IsUnique(id, records) == \E i \in Carriers(records, id) : Carriers(records, id) = {i}
IsDuplicate(id, records) == \E i, j \in Carriers(records, id) : i # j

\* The record a dictionary keyed by identity holds: the last of its key.
ByLastId(records, id) ==
    records[CHOOSE i \in DOMAIN records :
              /\ records[i].typed /\ records[i].id = id
              /\ \A j \in DOMAIN records : j > i => ~(records[j].typed /\ records[j].id = id)]

PlainFact(f) == f.form = "tuple" /\ f.predicate # "untyped"

HasFact(obj, predicates) ==
    obj.listed /\ \E i \in DOMAIN obj.facts :
                    PlainFact(obj.facts[i]) /\ obj.facts[i].predicate \in predicates

-----------------------------------------------------------------------------
(* Obligations and checks are appended once, by their stable identity.  An *)
(* obligation's identity is its property and target, a check's the         *)
(* obligation, the status and the evidence.  The evidence is left out: two *)
(* records of one identity that fare alike share their checks here, where  *)
(* evidence that quotes the record would keep them apart.                  *)

ObligationId(property, target) == <<"vobl", property>> \o target
CheckId(oid, status) == <<"chk", status>> \o oid

AddValidationObligation(doc, property, target, span) ==
    LET oid == ObligationId(property, target) IN
    IF oid \in doc.obligationIds THEN doc
    ELSE [doc EXCEPT !.obligationIds = @ \cup {oid},
                     !.obligations = Append(@, Obligation(oid, property, target, span))]

AddCheck(doc, property, target, status) ==
    LET oid == ObligationId(property, target)
        cid == CheckId(oid, status) IN
    IF cid \in doc.checkIds THEN doc
    ELSE [doc EXCEPT !.checkIds = @ \cup {cid},
                     !.checks = Append(@, Check(cid, oid, property, target, status))]

\* A judgement is an obligation and the check that answers it at once.
Judgement(property, target, span, status) ==
    [property |-> property, target |-> target, span |-> span, status |-> status]

Test(property, target, span, holds) ==
    Judgement(property, target, span, IF holds THEN "Pass" ELSE "Fail")

When(condition, judgements) == IF condition THEN judgements ELSE <<>>

AddJudgement(doc, j) ==
    AddCheck(AddValidationObligation(doc, j.property, j.target, j.span),
             j.property, j.target, j.status)

AddJudgements(doc, judgements) ==
    LET after[n \in 0..Len(judgements)] ==
            IF n = 0 THEN doc ELSE AddJudgement(after[n - 1], judgements[n]) IN
    after[Len(judgements)]

\* The judgements J(i) of the records of a list, in the list's order.
OfEach(records, J(_)) == FlattenSeq([i \in DOMAIN records |-> J(i)])

JudgeEach(doc, records, J(_)) == AddJudgements(doc, OfEach(records, J))

AddObjects(doc, objects) == [doc EXCEPT !.objects = @ \o objects]
=============================================================================
