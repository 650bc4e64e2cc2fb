--------------------------- MODULE MCDocumentGates ---------------------------
(***************************************************************************)
(* Documents for DocumentGates: a sound one, and the documents with one or *)
(* two of its fields replaced, its records repeated or removed.            *)
(***************************************************************************)
EXTENDS DocumentGates

F1 == <<"f1">>
F2 == <<"f2">>
S1 == <<"s1">>
S2 == <<"s2">>
S3 == <<"s3">>
C1 == <<"c1">>
C2 == <<"c2">>
I1 == <<"i1">>
I2 == <<"i2">>
I3 == <<"i3">>
O1 == <<"o1">>
O2 == <<"o2">>
O3 == <<"o3">>
E1 == <<"e1">>
Q1 == <<"q1">>
V1 == <<"v1">>
V2 == <<"v2">>
K1 == <<"k1">>
K2 == <<"k2">>

Word == <<"word">>

\* The first file has two lines of five bytes.
Span1 == Span(S1, F1, 0, 4, 1, 1)
Span2 == Span(S2, F1, 5, 10, 2, 2)
Span3 == Span(S3, F2, 0, 6, 1, 1)

\* o1 refers to o2 and o2 to o3; the target of v2 is a part of o1.
Sound == Document(
    <<File(F1, 10, {4}), File(F2, 6, {})>>,
    <<Span1, Span2, Span3>>,
    <<Section(C1, F1, S1), Section(C2, F2, S3)>>,
    <<Item(I1, F1, C1, None, S1, Span1), Item(I2, F1, C1, I1, S2, Span2), Item(I3, F1, C1, I2, S2, Span2)>>,
    <<Object(O1, "Requirement", "BackendLowered", S1,
             <<Fact("Requirement", <<O1>>), Fact("RefersToConcept", <<O1, O2>>)>>),
      Object(O2, "Concept", "BackendLowered", S2, <<Fact("Covers", <<O2, O3>>)>>),
      Object(O3, "Concept", "Verified", S2, <<Fact("ConceptStatus", <<O3, <<"defined">>>>)>>),
      Object(E1, "DataFlow", "BackendLowered", S2, <<Fact("DataFlowEdge", <<Word, Word, Number, Word>>)>>),
      Object(Q1, "QuestionObject", "BackendLowered", S1,
             <<Fact("QuestionText", <<Q1, Word>>), Fact("Blocks", <<Q1, V1>>)>>)>>,
    <<Obligation(V1, "text", O1, S1), Obligation(V2, "text", Append(O1, "part"), S2)>>,
    <<Check(K1, V1, "text", O1, "Pass"), Check(K2, V2, "text", Append(O1, "part"), "Unknown")>>)

Defect(list, index, field, value) == [list |-> list, index |-> index, field |-> field, value |-> value]

Replace(d, defect) == [d EXCEPT ![defect.list][defect.index][defect.field] = defect.value]

\* Defects of the manifest.
ManifestDefects == <<
    Defect("files", 1, "typed", FALSE), Defect("files", 1, "id", Untyped), Defect("files", 1, "id", F2),
    Defect("files", 1, "path", "blank"), Defect("files", 1, "digest", "differs"),
    Defect("files", 2, "digest", "blank"), Defect("files", 2, "text", "untyped"),
    Defect("spans", 1, "typed", FALSE), Defect("spans", 1, "id", Blank), Defect("spans", 1, "id", S2),
    Defect("spans", 1, "file", <<"gone">>), Defect("spans", 2, "file", F2), Defect("spans", 2, "numeric", FALSE),
    Defect("spans", 2, "to", 11), Defect("spans", 2, "to", 3), Defect("spans", 2, "first", 1),
    Defect("spans", 2, "first", 0), Defect("spans", 2, "last", 3),
    Defect("sections", 1, "typed", FALSE), Defect("sections", 1, "id", C2), Defect("sections", 1, "file", F2),
    Defect("sections", 1, "span", S3), Defect("sections", 1, "kind", "blank"),
    Defect("sections", 1, "ordinal", "untyped"), Defect("sections", 1, "span", Untyped),
    Defect("items", 1, "typed", FALSE), Defect("items", 1, "id", Spaces), Defect("items", 1, "id", I2),
    Defect("items", 1, "parent", I1), Defect("items", 1, "parent", I3), Defect("items", 1, "parent", <<"gone">>),
    Defect("items", 2, "parent", Blank), Defect("items", 1, "section", C2), Defect("items", 1, "file", F2),
    Defect("items", 2, "span", S3), Defect("items", 2, "span", None), Defect("items", 2, "raw", "untyped"),
    Defect("items", 2, "ordinal", "untyped"), Defect("items", 2, "extent", Span1),
    Defect("items", 3, "typed", FALSE), Defect("items", 3, "id", I2), Defect("spans", 1, "from", -1)>>

\* Defects of the objects and of their facts.
WithFact(fact) == <<fact, Fact("ConceptStatus", <<O3, Number>>)>>

ObjectDefects == <<
    Defect("objects", 1, "typed", FALSE), Defect("objects", 1, "id", Untyped), Defect("objects", 1, "id", O2),
    Defect("objects", 2, "id", Blank), Defect("objects", 3, "id", O1), Defect("objects", 1, "role", "untyped"),
    Defect("objects", 2, "level", "RawTextOnly"), Defect("objects", 3, "level", "TemplateParsed"),
    Defect("objects", 2, "level", "untyped"), Defect("objects", 2, "listed", FALSE),
    Defect("objects", 4, "level", "Executed"), Defect("objects", 3, "level", "'Verified'"),
    Defect("objects", 3, "role", "untyped"), Defect("objects", 4, "id", <<"None">>),
    Defect("objects", 4, "id", Append(O1, " ")), Defect("objects", 4, "id", <<" ", "o1">>),
    Defect("objects", 2, "span", None), Defect("objects", 3, "span", <<"gone">>), Defect("objects", 3, "span", Spaces),
    Defect("objects", 2, "span", Untyped), Defect("objects", 4, "span", S3), Defect("objects", 4, "span", Blank),
    Defect("objects", 3, "facts", <<>>),
    Defect("objects", 3, "facts", WithFact(Fact("Covers", <<O3, O1>>))),
    Defect("objects", 3, "facts", WithFact(Fact("Covers", <<O3, O3>>))),
    Defect("objects", 3, "facts", WithFact(Fact("Covers", <<O3, <<"gone">>>>))),
    Defect("objects", 3, "facts", WithFact(Fact("Covers", <<O3, Blank>>))),
    Defect("objects", 3, "facts", WithFact(Fact("Covers", <<O3, None>>))),
    Defect("objects", 3, "facts", WithFact(Fact("Covers", <<O3, Number>>))),
    Defect("objects", 3, "facts", WithFact(Fact("Covers", <<O2, O1>>))),
    Defect("objects", 3, "facts", WithFact(Fact("GeneratedFrom", <<O3, O2>>))),
    Defect("objects", 3, "facts", WithFact(Fact("SourceItem", <<O3, I2>>))),
    Defect("objects", 3, "facts", WithFact(Fact("SourceItem", <<O3>>))),
    Defect("objects", 3, "facts", WithFact(Fact("Unheard", <<O3>>))),
    Defect("objects", 3, "facts", WithFact(Fact("ConceptStatus", <<O3, NotANumber>>))),
    Defect("objects", 3, "facts", WithFact([Fact("Covers", <<>>) EXCEPT !.form = "empty"])),
    Defect("objects", 1, "facts", <<Fact("Covers", <<O1, O3>>), Fact("RefersToConcept", <<O1, Spaces>>)>>),
    Defect("objects", 5, "facts", <<Fact("Blocks", <<Q1, <<"gone">>>>)>>)>>

\* Defects of the obligations and checks.
LayerDefects == <<
    Defect("obligations", 1, "typed", FALSE), Defect("obligations", 1, "id", None),
    Defect("obligations", 1, "id", V2), Defect("obligations", 1, "property", "blank"),
    Defect("obligations", 1, "target", <<"gone">>), Defect("obligations", 1, "target", Untyped),
    Defect("obligations", 2, "target", Append(O1, "blank")), Defect("obligations", 2, "target", Append(O1, "padded")),
    Defect("obligations", 2, "target", <<"o1", " ", "part">>), Defect("obligations", 2, "target", <<" ", "o1", "part">>),
    Defect("obligations", 2, "target", <<"o1", "zw", "part">>),
    Defect("obligations", 2, "target", Append(O2, "part")), Defect("obligations", 1, "rationale", "blank"),
    Defect("obligations", 1, "span", None), Defect("obligations", 1, "span", <<"gone">>),
    Defect("obligations", 1, "span", Untyped),
    Defect("checks", 1, "typed", FALSE), Defect("checks", 1, "id", Untyped), Defect("checks", 1, "id", K2),
    Defect("checks", 1, "obligation", V2), Defect("checks", 1, "obligation", <<"gone">>),
    Defect("checks", 1, "obligation", None), Defect("checks", 1, "property", "other"),
    Defect("checks", 1, "target", O2), Defect("checks", 1, "status", "untyped"),
    Defect("checks", 1, "status", "Fail"), Defect("checks", 1, "evidence", "blank")>>

\* The documents with one defect, and those with two in different fields.
One(defects) == {Replace(Sound, defects[i]) : i \in DOMAIN defects}

Apart(a, b) == a.list # b.list \/ a.index # b.index \/ a.field # b.field

Two(first, second) ==
    {Replace(Replace(Sound, first[p[1]]), second[p[2]]) :
        p \in {p \in (DOMAIN first) \X (DOMAIN second) : Apart(first[p[1]], second[p[2]])}}

ItemDefects == SubSeq(ManifestDefects, 26, 41)

Lists == {"files", "spans", "sections", "items", "objects", "obligations", "checks"}
Emptied == {[Sound EXCEPT ![list] = <<>>] : list \in Lists}
           \cup {[Sound EXCEPT !.files = <<>>, !.spans = <<>>],
                 Document(<<>>, <<>>, <<>>, <<>>, <<>>, <<>>, <<>>)}

MCInputs ==
    {Sound} \cup Emptied
    \cup One(ManifestDefects) \cup One(ObjectDefects) \cup One(LayerDefects)
    \cup Two(ItemDefects, ItemDefects)
    \cup Two(SubSeq(ObjectDefects, 1, 16), SubSeq(ObjectDefects, 1, 16))
    \cup Two(SubSeq(ObjectDefects, 6, 22), SubSeq(ObjectDefects, 23, 38))
    \cup Two(SubSeq(ObjectDefects, 1, 3), LayerDefects)
=============================================================================
