------------------------ MODULE CleanDocumentsProofs ------------------------
(***************************************************************************)
(* A document that validation passes is emitted whole, for every document: *)
(* what validators.py asks against what petta.py refuses.                  *)
(*                                                                         *)
(* Judgements are about records and facts of the document (Grounds), and   *)
(* those of a group, when all passed, say what the records are (Part).  So *)
(* while nothing was found wrong, the records judged are sound, and the    *)
(* obligations and checks that were added are told apart by their names    *)
(* (AccountedInv).  What is refused is refused for a reason the rules give *)
(* (RefusalsInv), and of a sound document only a stray object gives one.   *)
(***************************************************************************)
EXTENDS DocumentGatesProofs

-----------------------------------------------------------------------------
(* Judgements that passed, record by record. *)

\* No judgement failed or was left unknown.
Passed(J) == \A j \in J : j.status \notin {"Fail", "Unknown"}

\* What a test that passed says.
LEMMA TestPassed ==
    ASSUME NEW property, NEW target, NEW span, NEW holds
    PROVE  LET j == Test(property, target, span, holds) IN
           /\ j.status \notin {"Fail", "Unknown"} => holds
           /\ j.span = span
  BY DEF Test, Judgement

\* What a record is of which every judgement passed, and the spans its judgements
\* carry: a file.
LEMMA SoundFile ==
    ASSUME NEW r, NEW i, Passed(Range(FileJudgements(r, i)))
    PROVE  /\ r.typed /\ SafeFileFields(r)
           /\ \A j \in Range(FileJudgements(r, i)) : j.span = None
  <1> DEFINE a == Test("plain-file-has-valid-record-type", RecordTarget(r, "malformed-plain-file", i), None, r.typed)
             b == Test("plain-file-has-safe-fields", r.id, None, SafeFileFields(r))
             c == Test("plain-file-digest-matches-content", r.id, None, r.digest = "matches")
  <1>1. Range(FileJudgements(r, i)) =
            {a} \cup Under(r.typed, {b}) \cup Under(r.typed /\ SafeFileFields(r), {c})
    BY FileTold DEF Told
  <1>2. /\ a.status \notin {"Fail", "Unknown"} => r.typed
        /\ b.status \notin {"Fail", "Unknown"} => SafeFileFields(r)
        /\ a.span = None /\ b.span = None /\ c.span = None
    BY DEF Test, Judgement
  <1> HIDE DEF a, b, c
  <1>3. QED BY <1>1, <1>2 DEF Passed, Under

\* A span.
LEMMA SoundSpanRecord ==
    ASSUME NEW d, NEW r, NEW i, Passed(Range(SpanJudgements(d, r, i)))
    PROVE  /\ r.typed /\ Safe(r.file) /\ BoundsAreOrdered(r) /\ IsUnique(r.file, d.files)
           /\ \A j \in Range(SpanJudgements(d, r, i)) : j.span \in {None, r.id}
  <1> DEFINE a == Test("source-span-has-valid-record-type", RecordTarget(r, "malformed-source-span", i), None, r.typed)
             b == Test("source-span-has-safe-file-identity", r.id, r.id, Safe(r.file))
             c == Test("source-span-has-safe-bounds", r.id, r.id, BoundsAreOrdered(r))
             e == Test("source-span-within-file-bounds", r.id, r.id, FALSE)
             f == Test("source-span-within-file-bounds", r.id, r.id, InBounds(ByLastId(d.files, r.file), r))
             g == Test("source-span-lines-match-byte-offsets", r.id, r.id, InBounds(ByLastId(d.files, r.file), r) /\ LinesMatch(ByLastId(d.files, r.file), r))
  <1>1. Range(SpanJudgements(d, r, i)) =
            {a}
            \cup Under(r.typed, {b})
            \cup Under(r.typed /\ Safe(r.file), {c})
            \cup Under(r.typed /\ Safe(r.file) /\ BoundsAreOrdered(r), IF ~IsUnique(r.file, d.files) THEN {e} ELSE {f, g})
    BY SpanTold DEF Told
  <1>2. (a.status \notin {"Fail", "Unknown"} => r.typed) /\ a.span = None
    BY DEF Test, Judgement
  <1>3. (b.status \notin {"Fail", "Unknown"} => Safe(r.file)) /\ b.span = r.id
    BY DEF Test, Judgement
  <1>4. (c.status \notin {"Fail", "Unknown"} => BoundsAreOrdered(r)) /\ c.span = r.id
    BY DEF Test, Judgement
  <1>5. (e.status \notin {"Fail", "Unknown"} => FALSE) /\ e.span = r.id
    BY DEF Test, Judgement
  <1>6. (f.status \notin {"Fail", "Unknown"} => InBounds(ByLastId(d.files, r.file), r)) /\ f.span = r.id
    BY DEF Test, Judgement
  <1>7. (g.status \notin {"Fail", "Unknown"} => InBounds(ByLastId(d.files, r.file), r) /\ LinesMatch(ByLastId(d.files, r.file), r)) /\ g.span = r.id
    BY DEF Test, Judgement
  <1> HIDE DEF a, b, c, e, f, g
  <1>8. QED BY <1>1, <1>2, <1>3, <1>4, <1>5, <1>6, <1>7 DEF Passed, Under

\* A file's identity.
LEMMA SoundFileIdentity ==
    ASSUME NEW d, NEW r, r.typed, Passed(Range(FileIdentityJudgements(d, r)))
    PROVE  /\ Safe(r.id) /\ IsUnique(r.id, d.files)
           /\ \A j \in Range(FileIdentityJudgements(d, r)) : j.span \in {None}
  <1> DEFINE a == Test("plain-file-identity-is-unique", r.id, None, IsUnique(r.id, d.files))
             b == Test("plain-file-has-safe-identity", r.id, None, Safe(r.id))
  <1>1. Range(FileIdentityJudgements(d, r)) =
            Under(r.typed, {a, b})
    BY FileIdentityTold DEF Told
  <1>2. (a.status \notin {"Fail", "Unknown"} => IsUnique(r.id, d.files)) /\ a.span = None
    BY DEF Test, Judgement
  <1>3. (b.status \notin {"Fail", "Unknown"} => Safe(r.id)) /\ b.span = None
    BY DEF Test, Judgement
  <1> HIDE DEF a, b
  <1>4. QED BY <1>1, <1>2, <1>3 DEF Passed, Under

\* A span's identity.
LEMMA SoundSpanIdentity ==
    ASSUME NEW d, NEW r, r.typed, Passed(Range(SpanIdentityJudgements(d, r)))
    PROVE  /\ Safe(r.id) /\ IsUnique(r.id, d.spans)
           /\ \A j \in Range(SpanIdentityJudgements(d, r)) : j.span \in {r.id}
  <1> DEFINE a == Test("source-span-identity-is-unique", r.id, r.id, IsUnique(r.id, d.spans))
             b == Test("source-span-has-safe-identity", r.id, r.id, Safe(r.id))
  <1>1. Range(SpanIdentityJudgements(d, r)) =
            Under(r.typed, {a, b})
    BY SpanIdentityTold DEF Told
  <1>2. (a.status \notin {"Fail", "Unknown"} => IsUnique(r.id, d.spans)) /\ a.span = r.id
    BY DEF Test, Judgement
  <1>3. (b.status \notin {"Fail", "Unknown"} => Safe(r.id)) /\ b.span = r.id
    BY DEF Test, Judgement
  <1> HIDE DEF a, b
  <1>4. QED BY <1>1, <1>2, <1>3 DEF Passed, Under

\* A section.
LEMMA SoundSection ==
    ASSUME NEW d, NEW r, NEW i, Passed(Range(SectionJudgements(d, r, i)))
    PROVE  /\ r.typed /\ Safe(r.span) /\ Safe(r.id) /\ IsUnique(r.id, d.sections)
           /\ r.kind = "text" /\ r.ordinal = "number" /\ Safe(r.file)
           /\ IsUnique(r.file, d.files) /\ SpanIsIn(d, r.span, r.file)
           /\ \A j \in Range(SectionJudgements(d, r, i)) : j.span \in {None, r.span}
  <1> DEFINE a == Test("section-has-valid-record-type", RecordTarget(r, "malformed-section", i), None, r.typed)
             b == Test("section-has-safe-source-span", r.id, IF Safe(r.span) THEN r.span ELSE None, Safe(r.span))
             c == Test("section-identity-is-unique", r.id, r.span, IsUnique(r.id, d.sections))
             e == Test("section-has-safe-identity", r.id, r.span, Safe(r.id))
             f == Test("section-has-safe-fields", r.id, r.span, r.kind = "text" /\ r.ordinal = "number")
             g == Test("section-has-safe-file-identity", r.id, r.span, Safe(r.file))
             h == Test("section-file-is-indexed", r.id, r.span, IsUnique(r.file, d.files))
             k == Test("section-has-source-span", r.id, r.span, IsUnique(r.span, d.spans))
             l == Test("section-span-file-matches-section-file", r.id, r.span, SpanIsIn(d, r.span, r.file))
  <1>1. Range(SectionJudgements(d, r, i)) =
            {a}
            \cup Under(r.typed, {b})
            \cup Under(r.typed /\ Safe(r.span), {c, e, f, g})
            \cup Under(r.typed /\ Safe(r.span) /\ Safe(r.file), {h, k, l})
    BY SectionTold DEF Told
  <1>2. (a.status \notin {"Fail", "Unknown"} => r.typed) /\ a.span = None
    BY DEF Test, Judgement
  <1>3. (b.status \notin {"Fail", "Unknown"} => Safe(r.span)) /\ b.span = (IF Safe(r.span) THEN r.span ELSE None)
    BY DEF Test, Judgement
  <1>4. (c.status \notin {"Fail", "Unknown"} => IsUnique(r.id, d.sections)) /\ c.span = r.span
    BY DEF Test, Judgement
  <1>5. (e.status \notin {"Fail", "Unknown"} => Safe(r.id)) /\ e.span = r.span
    BY DEF Test, Judgement
  <1>6. (f.status \notin {"Fail", "Unknown"} => r.kind = "text" /\ r.ordinal = "number") /\ f.span = r.span
    BY DEF Test, Judgement
  <1>7. (g.status \notin {"Fail", "Unknown"} => Safe(r.file)) /\ g.span = r.span
    BY DEF Test, Judgement
  <1>8. (h.status \notin {"Fail", "Unknown"} => IsUnique(r.file, d.files)) /\ h.span = r.span
    BY DEF Test, Judgement
  <1>9. (k.status \notin {"Fail", "Unknown"} => IsUnique(r.span, d.spans)) /\ k.span = r.span
    BY DEF Test, Judgement
  <1>10. (l.status \notin {"Fail", "Unknown"} => SpanIsIn(d, r.span, r.file)) /\ l.span = r.span
    BY DEF Test, Judgement
  <1> HIDE DEF a, b, c, e, f, g, h, k, l
  <1>11. QED BY <1>1, <1>2, <1>3, <1>4, <1>5, <1>6, <1>7, <1>8, <1>9, <1>10 DEF Passed, Under

\* An item.
LEMMA SoundItemRecord ==
    ASSUME NEW d, NEW r, NEW i, Passed(Range(ItemJudgements(d, r, i)))
    PROVE  /\ r.typed /\ Safe(r.span) /\ Safe(r.id) /\ IsUnique(r.id, d.items) /\ SafeLinks(r)
           /\ r.ordinal = "number" /\ r.level = "number" /\ r.raw = "text"
           /\ IsUnique(r.file, d.files) /\ IsUnique(r.section, d.sections)
           /\ ByLastId(d.sections, r.section).file = r.file /\ SpanIsIn(d, r.span, r.file)
           /\ r.parent # None => /\ IsUnique(r.parent, d.items) /\ r.parent # r.id
                               /\ ByLastId(d.items, r.parent).file = r.file
                               /\ ByLastId(d.items, r.parent).section = r.section
           /\ \A j \in Range(ItemJudgements(d, r, i)) : j.span \in {None, r.span}
  <1> DEFINE a == Test("item-has-valid-record-type", RecordTarget(r, "malformed-item", i), None, r.typed)
             b == Test("item-has-safe-source-span", r.id, IF Safe(r.span) THEN r.span ELSE None, Safe(r.span))
             c == Test("item-identity-is-unique", r.id, r.span, IsUnique(r.id, d.items))
             e == Test("item-has-safe-identity", r.id, r.span, Safe(r.id))
             f == Test("item-has-safe-fields", r.id, r.span, r.ordinal = "number" /\ r.level = "number" /\ r.raw = "text")
             g == Test("item-has-safe-link-identities", r.id, r.span, SafeLinks(r))
             h == Test("item-file-is-indexed", r.id, r.span, IsUnique(r.file, d.files))
             k == Test("item-has-section", r.id, r.span, IsUnique(r.section, d.sections))
             l == Test("item-file-matches-section-file", r.id, r.span, IsUnique(r.section, d.sections) /\ ByLastId(d.sections, r.section).file = r.file)
             m == Test("item-has-source-span", r.id, r.span, IsUnique(r.span, d.spans))
             n == Test("item-span-file-matches-item-file", r.id, r.span, SpanIsIn(d, r.span, r.file))
             o == Test("item-parent-is-indexed", r.id, r.span, IsUnique(r.parent, d.items))
             p == Test("item-parent-is-not-self", r.id, r.span, r.parent # r.id)
             q == Test("item-parent-context-matches", r.id, r.span, IsUnique(r.parent, d.items) /\ ByLastId(d.items, r.parent).file = r.file /\ ByLastId(d.items, r.parent).section = r.section)
  <1>1. Told(ItemJudgements(d, r, i),
            {a}
            \cup Under(r.typed, {b})
            \cup Under(r.typed /\ Safe(r.span), {c, e, f, g})
            \cup Under(r.typed /\ Safe(r.span) /\ SafeLinks(r), {h, k, l, m, n})
            \cup Under(r.typed /\ Safe(r.span) /\ SafeLinks(r) /\ r.parent # None, {o, p, q}))
    BY ItemTold, Zenon
  <1>2. (a.status \notin {"Fail", "Unknown"} => r.typed) /\ a.span = None
    BY DEF Test, Judgement
  <1>3. (b.status \notin {"Fail", "Unknown"} => Safe(r.span)) /\ b.span = (IF Safe(r.span) THEN r.span ELSE None)
    BY DEF Test, Judgement
  <1>4. (c.status \notin {"Fail", "Unknown"} => IsUnique(r.id, d.items)) /\ c.span = r.span
    BY DEF Test, Judgement
  <1>5. (e.status \notin {"Fail", "Unknown"} => Safe(r.id)) /\ e.span = r.span
    BY DEF Test, Judgement
  <1>6. (f.status \notin {"Fail", "Unknown"} => r.ordinal = "number" /\ r.level = "number" /\ r.raw = "text") /\ f.span = r.span
    BY DEF Test, Judgement
  <1>7. (g.status \notin {"Fail", "Unknown"} => SafeLinks(r)) /\ g.span = r.span
    BY DEF Test, Judgement
  <1>8. (h.status \notin {"Fail", "Unknown"} => IsUnique(r.file, d.files)) /\ h.span = r.span
    BY DEF Test, Judgement
  <1>9. (k.status \notin {"Fail", "Unknown"} => IsUnique(r.section, d.sections)) /\ k.span = r.span
    BY DEF Test, Judgement
  <1>10. (l.status \notin {"Fail", "Unknown"} => IsUnique(r.section, d.sections) /\ ByLastId(d.sections, r.section).file = r.file) /\ l.span = r.span
    BY DEF Test, Judgement
  <1>11. (m.status \notin {"Fail", "Unknown"} => IsUnique(r.span, d.spans)) /\ m.span = r.span
    BY DEF Test, Judgement
  <1>12. (n.status \notin {"Fail", "Unknown"} => SpanIsIn(d, r.span, r.file)) /\ n.span = r.span
    BY DEF Test, Judgement
  <1>13. (o.status \notin {"Fail", "Unknown"} => IsUnique(r.parent, d.items)) /\ o.span = r.span
    BY DEF Test, Judgement
  <1>14. (p.status \notin {"Fail", "Unknown"} => r.parent # r.id) /\ p.span = r.span
    BY DEF Test, Judgement
  <1>15. (q.status \notin {"Fail", "Unknown"} => IsUnique(r.parent, d.items) /\ ByLastId(d.items, r.parent).file = r.file /\ ByLastId(d.items, r.parent).section = r.section) /\ q.span = r.span
    BY DEF Test, Judgement
  <1> HIDE DEF a, b, c, e, f, g, h, k, l, m, n, o, p, q
  <1>16. QED BY <1>1, <1>2, <1>3, <1>4, <1>5, <1>6, <1>7, <1>8, <1>9, <1>10, <1>11, <1>12, <1>13, <1>14, <1>15 DEF Passed, Under, Told

\* An object.
LEMMA SoundObjectRecord ==
    ASSUME NEW d, NEW r, NEW i, Passed(Range(ObjectJudgements(d, r, i)))
    PROVE  /\ r.typed /\ Safe(r.id) /\ IsUnique(r.id, d.objects)
           /\ r.role # "untyped" /\ r.listed /\ SafeOptional(r.span) /\ HasProvenance(d, r)
           /\ \A j \in Range(ObjectJudgements(d, r, i)) : j.span \in {None, r.span}
  <1> DEFINE a == Test("object-has-valid-record-type", RecordTarget(r, "malformed-object", i), None, r.typed)
             b == Test("object-identity-is-unique", r.id, r.span, IsUnique(r.id, d.objects))
             c == Test("object-has-safe-identity", r.id, r.span, Safe(r.id))
             e == Test("object-has-known-role", r.id, r.span, r.role # "untyped")
             f == Test("object-has-known-semantic-level", r.id, r.span, r.level \in KnownLevels)
             g == Test("object-has-valid-facts-container", r.id, r.span, r.listed)
             h == Test("object-has-safe-source-span-id", r.id, IF r.span \in NotText THEN None ELSE r.span, SafeOptional(r.span))
             k == Test("object-has-source-or-generated-provenance", r.id, r.span, HasProvenance(d, r))
  <1>1. Range(ObjectJudgements(d, r, i)) =
            {a}
            \cup Under(r.typed, {b, c, e, f, g, h, k})
    BY ObjectTold DEF Told
  <1>2. (a.status \notin {"Fail", "Unknown"} => r.typed) /\ a.span = None
    BY DEF Test, Judgement
  <1>3. (b.status \notin {"Fail", "Unknown"} => IsUnique(r.id, d.objects)) /\ b.span = r.span
    BY DEF Test, Judgement
  <1>4. (c.status \notin {"Fail", "Unknown"} => Safe(r.id)) /\ c.span = r.span
    BY DEF Test, Judgement
  <1>5. (e.status \notin {"Fail", "Unknown"} => r.role # "untyped") /\ e.span = r.span
    BY DEF Test, Judgement
  <1>6. (f.status \notin {"Fail", "Unknown"} => r.level \in KnownLevels) /\ f.span = r.span
    BY DEF Test, Judgement
  <1>7. (g.status \notin {"Fail", "Unknown"} => r.listed) /\ g.span = r.span
    BY DEF Test, Judgement
  <1>8. (h.status \notin {"Fail", "Unknown"} => SafeOptional(r.span)) /\ h.span = (IF r.span \in NotText THEN None ELSE r.span)
    BY DEF Test, Judgement
  <1>9. (k.status \notin {"Fail", "Unknown"} => HasProvenance(d, r)) /\ k.span = r.span
    BY DEF Test, Judgement
  <1> HIDE DEF a, b, c, e, f, g, h, k
  <1>10. QED BY <1>1, <1>2, <1>3, <1>4, <1>5, <1>6, <1>7, <1>8, <1>9 DEF Passed, Under

\* An obligation's identity.
LEMMA SoundObligationIdentity ==
    ASSUME NEW original, NEW r, NEW i, Passed(Range(ObligationIdentityJudgements(original, r, i)))
    PROVE  /\ r.typed /\ Safe(r.id) /\ IsUnique(r.id, original)
           /\ \A j \in Range(ObligationIdentityJudgements(original, r, i)) : j.span \in {None, r.span}
  <1> DEFINE a == Test("validation-obligation-has-valid-record-type", RecordTarget(r, "malformed-validation-obligation", i), None, r.typed)
             b == Test("validation-obligation-identity-is-unique", r.id, r.span, IsUnique(r.id, original))
             c == Test("validation-obligation-has-safe-identity", r.id, r.span, Safe(r.id))
  <1>1. Range(ObligationIdentityJudgements(original, r, i)) =
            {a}
            \cup Under(r.typed, {b, c})
    BY ObligationIdentityTold DEF Told
  <1>2. (a.status \notin {"Fail", "Unknown"} => r.typed) /\ a.span = None
    BY DEF Test, Judgement
  <1>3. (b.status \notin {"Fail", "Unknown"} => IsUnique(r.id, original)) /\ b.span = r.span
    BY DEF Test, Judgement
  <1>4. (c.status \notin {"Fail", "Unknown"} => Safe(r.id)) /\ c.span = r.span
    BY DEF Test, Judgement
  <1> HIDE DEF a, b, c
  <1>5. QED BY <1>1, <1>2, <1>3, <1>4 DEF Passed, Under

\* A check's identity.
LEMMA SoundCheckIdentity ==
    ASSUME NEW original, NEW r, NEW i, Passed(Range(CheckIdentityJudgements(original, r, i)))
    PROVE  /\ r.typed /\ Safe(r.id) /\ IsUnique(r.id, original)
           /\ \A j \in Range(CheckIdentityJudgements(original, r, i)) : j.span \in {None}
  <1> DEFINE a == Test("check-has-valid-record-type", RecordTarget(r, "malformed-check-record", i), None, r.typed)
             b == Test("check-identity-is-unique", r.id, None, IsUnique(r.id, original))
             c == Test("check-has-safe-identity", r.id, None, Safe(r.id))
  <1>1. Range(CheckIdentityJudgements(original, r, i)) =
            {a}
            \cup Under(r.typed, {b, c})
    BY CheckIdentityTold DEF Told
  <1>2. (a.status \notin {"Fail", "Unknown"} => r.typed) /\ a.span = None
    BY DEF Test, Judgement
  <1>3. (b.status \notin {"Fail", "Unknown"} => IsUnique(r.id, original)) /\ b.span = None
    BY DEF Test, Judgement
  <1>4. (c.status \notin {"Fail", "Unknown"} => Safe(r.id)) /\ c.span = None
    BY DEF Test, Judgement
  <1> HIDE DEF a, b, c
  <1>5. QED BY <1>1, <1>2, <1>3, <1>4 DEF Passed, Under

\* A question.
LEMMA SoundQuestion ==
    ASSUME NEW d, NEW r, Passed(Range(QuestionJudgements(d, r)))
    PROVE  \A j \in Range(QuestionJudgements(d, r)) : j.span \in {r.span}
  <1> DEFINE a == Test("question-has-review-text", r.id, r.span, \E text \in ThirdOf(r, "QuestionText") : Safe(text))
             b == Test("question-blocks-validation-obligation", r.id, r.span, {id \in ThirdOf(r, "Blocks") : Safe(id)} \cap SafeIds(d.obligations) # {})
  <1>1. Range(QuestionJudgements(d, r)) =
            Under(r.typed /\ r.role = "QuestionObject" /\ r.listed, {a, b})
    BY QuestionTold DEF Told
  <1>2. (a.status \notin {"Fail", "Unknown"} => \E text \in ThirdOf(r, "QuestionText") : Safe(text)) /\ a.span = r.span
    BY DEF Test, Judgement
  <1>3. (b.status \notin {"Fail", "Unknown"} => {id \in ThirdOf(r, "Blocks") : Safe(id)} \cap SafeIds(d.obligations) # {}) /\ b.span = r.span
    BY DEF Test, Judgement
  <1> HIDE DEF a, b
  <1>4. QED BY <1>1, <1>2, <1>3 DEF Passed, Under

\* An obligation.
LEMMA SoundObligation ==
    ASSUME NEW d, NEW original, NEW r, r.typed, Passed(Range(ObligationJudgements(d, original, r)))
    PROVE  /\ SafeText(r.property) /\ SafeText(r.rationale) /\ Safe(r.target)
           /\ r.span \in SafeIds(d.spans) /\ TargetIsDeclared(d, original, r.target)
           /\ \A j \in Range(ObligationJudgements(d, original, r)) : j.span \in {None, r.span}
  <1> DEFINE a == Test("validation-obligation-has-safe-property", r.id, r.span, SafeText(r.property))
             b == Test("validation-obligation-has-reviewable-rationale", r.id, r.span, SafeText(r.rationale))
             c == Test("validation-obligation-has-safe-target", r.id, r.span, Safe(r.target))
             e == Test("validation-obligation-has-safe-source-span-id", r.id, IF r.span \in NotText THEN None ELSE r.span, SafeOptional(r.span))
             f == Judgement("obligation-has-source-provenance", r.id, r.span, IF r.span = None THEN "Unknown" ELSE IF r.span \in SafeIds(d.spans) THEN "Pass" ELSE "Fail")
             g == Test("obligation-target-is-declared", r.id, r.span, TargetIsDeclared(d, original, r.target))
  <1>1. Range(ObligationJudgements(d, original, r)) =
            Under(r.typed, {a, b, c, e, f, g})
    BY ObligationTold DEF Told
  <1>2. (a.status \notin {"Fail", "Unknown"} => SafeText(r.property)) /\ a.span = r.span
    BY DEF Test, Judgement
  <1>3. (b.status \notin {"Fail", "Unknown"} => SafeText(r.rationale)) /\ b.span = r.span
    BY DEF Test, Judgement
  <1>4. (c.status \notin {"Fail", "Unknown"} => Safe(r.target)) /\ c.span = r.span
    BY DEF Test, Judgement
  <1>5. (e.status \notin {"Fail", "Unknown"} => SafeOptional(r.span)) /\ e.span = (IF r.span \in NotText THEN None ELSE r.span)
    BY DEF Test, Judgement
  <1>6. (f.status \notin {"Fail", "Unknown"} => r.span \in SafeIds(d.spans)) /\ f.span = r.span
    BY TestPassed DEF Judgement
  <1>7. (g.status \notin {"Fail", "Unknown"} => TargetIsDeclared(d, original, r.target)) /\ g.span = r.span
    BY DEF Test, Judgement
  <1> HIDE DEF a, b, c, e, f, g
  <1>8. QED BY <1>1, <1>2, <1>3, <1>4, <1>5, <1>6, <1>7 DEF Passed, Under

\* A check.
LEMMA SoundCheck ==
    ASSUME NEW d, NEW r, r.typed, Passed(Range(CheckJudgements(d, r)))
    PROVE  /\ SafeText(r.property) /\ Safe(r.target) /\ r.status # "untyped" /\ SafeText(r.evidence) /\ Linked(d, r)
           /\ r.property = ByLastId(d.obligations, r.obligation).property
           /\ r.target = ByLastId(d.obligations, r.obligation).target
           /\ \A j \in Range(CheckJudgements(d, r)) : j.span \in {CitedSpan(d, r)}
  <1> DEFINE a == Test("check-has-safe-property", r.id, CitedSpan(d, r), SafeText(r.property))
             b == Test("check-has-safe-target", r.id, CitedSpan(d, r), Safe(r.target))
             c == Test("check-status-is-known", r.id, CitedSpan(d, r), r.status # "untyped")
             e == Test("check-has-evidence", r.id, CitedSpan(d, r), SafeText(r.evidence))
             f == Test("check-has-safe-obligation-id", r.id, CitedSpan(d, r), Safe(r.obligation))
             g == Test("check-links-known-obligation", r.id, CitedSpan(d, r), Linked(d, r))
             h == Test("check-target-matches-obligation", r.id, CitedSpan(d, r), r.property = ByLastId(d.obligations, r.obligation).property /\ r.target = ByLastId(d.obligations, r.obligation).target)
  <1>1. Range(CheckJudgements(d, r)) =
            Under(r.typed, {a, b, c, e, f, g})
            \cup Under(r.typed /\ Linked(d, r), {h})
    BY CheckTold DEF Told
  <1>2. (a.status \notin {"Fail", "Unknown"} => SafeText(r.property)) /\ a.span = CitedSpan(d, r)
    BY DEF Test, Judgement
  <1>3. (b.status \notin {"Fail", "Unknown"} => Safe(r.target)) /\ b.span = CitedSpan(d, r)
    BY DEF Test, Judgement
  <1>4. (c.status \notin {"Fail", "Unknown"} => r.status # "untyped") /\ c.span = CitedSpan(d, r)
    BY DEF Test, Judgement
  <1>5. (e.status \notin {"Fail", "Unknown"} => SafeText(r.evidence)) /\ e.span = CitedSpan(d, r)
    BY DEF Test, Judgement
  <1>6. (f.status \notin {"Fail", "Unknown"} => Safe(r.obligation)) /\ f.span = CitedSpan(d, r)
    BY DEF Test, Judgement
  <1>7. (g.status \notin {"Fail", "Unknown"} => Linked(d, r)) /\ g.span = CitedSpan(d, r)
    BY DEF Test, Judgement
  <1>8. (h.status \notin {"Fail", "Unknown"} => r.property = ByLastId(d.obligations, r.obligation).property /\ r.target = ByLastId(d.obligations, r.obligation).target) /\ h.span = CitedSpan(d, r)
    BY DEF Test, Judgement
  <1> HIDE DEF a, b, c, e, f, g, h
  <1>9. QED BY <1>1, <1>2, <1>3, <1>4, <1>5, <1>6, <1>7, <1>8 DEF Passed, Under

-----------------------------------------------------------------------------
(* What a clean document has been found to be. *)

Clean(d, e) == \A c \in AnswersIn(d, e) : c.status \notin {"Fail", "Unknown"}

FilesSound(d) == \A f \in Range(d.files) : f.typed /\ SafeFileFields(f)

SpansSound(d) ==
    \A s \in Range(d.spans) : s.typed /\ Safe(s.file) /\ BoundsAreOrdered(s) /\ IsUnique(s.file, d.files)

IdsSound(records) == \A r \in Range(records) : Safe(r.id) /\ IsUnique(r.id, records)

SectionsSound(d) ==
    /\ IdsSound(d.sections)
    /\ \A s \in Range(d.sections) :
         /\ s.typed /\ Safe(s.span) /\ s.kind = "text" /\ s.ordinal = "number" /\ Safe(s.file)
         /\ IsUnique(s.file, d.files) /\ SpanIsIn(d, s.span, s.file)

ItemsSound(d) ==
    /\ IdsSound(d.items)
    /\ \A item \in Range(d.items) :
         /\ item.typed /\ Safe(item.span) /\ SafeLinks(item)
         /\ item.ordinal = "number" /\ item.level = "number" /\ item.raw = "text"
         /\ IsUnique(item.file, d.files) /\ IsUnique(item.section, d.sections)
         /\ ByLastId(d.sections, item.section).file = item.file /\ SpanIsIn(d, item.span, item.file)
         /\ item.parent # None =>
              /\ IsUnique(item.parent, d.items) /\ item.parent # item.id
              /\ ByLastId(d.items, item.parent).file = item.file
              /\ ByLastId(d.items, item.parent).section = item.section

ObjectsSound(d) ==
    /\ IdsSound(d.objects)
    /\ \A obj \in Range(d.objects) :
         /\ obj.typed /\ obj.role # "untyped" /\ obj.listed /\ SafeOptional(obj.span)
         /\ HasProvenance(d, obj)

LayerSound(records) == IdsSound(records) /\ \A r \in Range(records) : r.typed

LevelsSound(d) == \A obj \in Range(d.objects) : ~Unsupported(obj)

SoundFact(obj, f) ==
    /\ PlainFact(f) /\ HasSchema(f) /\ RightArity(f)
    /\ \A p \in DOMAIN f.args : SafeArgument(f, p)
    /\ SubjectIsOwner(obj, f)

FactsSound(d) ==
    \A obj \in Asking(d.objects) : \A i \in DOMAIN obj.facts : SoundFact(obj, obj.facts[i])

\* A target is a record, or a part of an object.
IsDeclared(d, t) ==
    \/ \E list \in RecordLists : t \in SafeIds(d[list])
    \/ \E id \in SafeIds(d.objects) : IsSubtargetOf(t, id) /\ Canonical(t, id)

ObligationsSound(d, e) ==
    \A o \in Range(e.obligations) : o.typed =>
        /\ SafeText(o.property) /\ SafeText(o.rationale) /\ Safe(o.target)
        /\ o.span \in SafeIds(d.spans) /\ IsDeclared(d, o.target)

ChecksSound(d, e) ==
    \A c \in Range(e.checks) : c.typed =>
        /\ SafeText(c.property) /\ Safe(c.target) /\ c.status # "untyped" /\ SafeText(c.evidence)
        /\ Safe(c.obligation)
        /\ \E o \in Range(d.obligations) :
             o.typed /\ <<o.id, o.property, o.target>> = <<c.obligation, c.property, c.target>>

\* What the judgements of one group say when they all passed.
Part(d, e, group) ==
    IF group = 1 THEN FilesSound(d)
    ELSE IF group = 2 THEN SpansSound(d)
    ELSE IF group = 3 THEN IdsSound(d.files)
    ELSE IF group = 4 THEN IdsSound(d.spans)
    ELSE IF group = 5 THEN SectionsSound(d)
    ELSE IF group = 6 THEN ItemsSound(d)
    ELSE IF group = 7 THEN ObjectsSound(d)
    ELSE IF group = 8 THEN LayerSound(e.obligations)
    ELSE IF group = 9 THEN LayerSound(e.checks)
    ELSE IF group = 10 THEN LevelsSound(d)
    ELSE IF group = 11 THEN FactsSound(d)
    ELSE IF group = 13 THEN ObligationsSound(d, e)
    ELSE IF group = 14 THEN ChecksSound(d, e)
    ELSE TRUE

Sound(d, e, n) == \A group \in 1..n : Part(d, e, group)

\* r has the records of d, and its obligations and checks or more.
Beyond(d, r) ==
    /\ <<r.files, r.spans, r.sections, r.items, r.objects>> = <<d.files, d.spans, d.sections, d.items, d.objects>>
    /\ Range(d.obligations) \subseteq Range(r.obligations)
    /\ Range(d.checks) \subseteq Range(r.checks)

\* What was declared, or found sound, stays so when judgements are added.
LEMMA DeclaredBeyond ==
    ASSUME NEW d, NEW r, Beyond(d, r), NEW t, IsDeclared(d, t)
    PROVE  IsDeclared(r, t)
  <1>1. \A list \in RecordLists : Range(d[list]) \subseteq Range(r[list])
    BY DEF Beyond, RecordLists
  <1>2. \A list \in RecordLists : SafeIds(d[list]) \subseteq SafeIds(r[list])
    BY <1>1 DEF SafeIds
  <1>3. d.objects = r.objects
    BY DEF Beyond
  <1>4. QED BY <1>2, <1>3 DEF IsDeclared

LEMMA PartsStand ==
    ASSUME NEW d, NEW e, NEW r, Beyond(d, r), NEW group, Part(d, e, group)
    PROVE  Part(r, e, group)
  <1>1. /\ r.files = d.files /\ r.spans = d.spans /\ r.sections = d.sections
        /\ r.items = d.items /\ r.objects = d.objects
    BY DEF Beyond
  <1>2. /\ FilesSound(d) => FilesSound(r)
        /\ SpansSound(d) => SpansSound(r)
        /\ LevelsSound(d) => LevelsSound(r)
        /\ FactsSound(d) => FactsSound(r)
    BY <1>1 DEF FilesSound, SpansSound, LevelsSound, FactsSound
  <1>3. SectionsSound(d) => SectionsSound(r)
    BY <1>1 DEF SectionsSound, SpanIsIn
  <1>4. ItemsSound(d) => ItemsSound(r)
    BY <1>1 DEF ItemsSound, SpanIsIn
  <1>5. ObjectsSound(d) => ObjectsSound(r)
    BY <1>1 DEF ObjectsSound, HasProvenance
  <1>6. ObligationsSound(d, e) => ObligationsSound(r, e)
    BY <1>1, DeclaredBeyond DEF ObligationsSound
  <1>7. ChecksSound(d, e) => ChecksSound(r, e)
    BY DEF ChecksSound, Beyond
  <1>8. QED BY <1>1, <1>2, <1>3, <1>4, <1>5, <1>6, <1>7 DEF Part

-----------------------------------------------------------------------------
(* What judgements are about, and what was added because of them. *)

\* The records that may be judged of d, which came with the layer e.
Records(d, e) ==
    Range(d.files) \cup Range(d.spans) \cup Range(d.sections) \cup Range(d.items) \cup Range(d.objects)
    \cup Range(e.obligations) \cup Range(e.checks)

\* A target is a record, or one of the records has no name, or it is a fact.
TargetIn(d, e, t) ==
    \/ \E r \in Records(d, e) : r.typed /\ (t = r.id \/ ~Safe(r.id))
    \/ \E obj \in Asking(d.objects) : \E i \in DOMAIN obj.facts :
         PlainFact(obj.facts[i]) /\ HasSchema(obj.facts[i]) /\ t = FactTarget(obj, i)

\* A span is one of the document's, or what a record of it cites.
SpanIn(d, e, x) ==
    \/ x = None
    \/ \E s \in Range(d.spans) : s.typed /\ x = s.id
    \/ \E r \in Range(d.sections) \cup Range(d.items) \cup Range(d.objects) \cup Range(e.obligations) :
         r.typed /\ x = r.span

Grounds(d, e, K) == \A j \in K : TargetIn(d, e, j.target) /\ SpanIn(d, e, j.span)

IsAdded(j) == IsList(j.target) /\ Group(j.property) \in 1..16 /\ j.status # "untyped"

\* The obligations os and the checks cs were added to the layer e.
LayeredBy(d, e, os, cs) ==
    /\ IsList(os) /\ d.obligations = e.obligations \o os /\ Once(os, {}, d.obligationIds)
    /\ IsList(cs) /\ d.checks = e.checks \o cs /\ Once(cs, {}, d.checkIds)
    /\ \A o \in Range(os) : \E j : IsAdded(j) /\ o = ObligationOf(j)
    /\ \A c \in Range(cs) : c.obligation \in d.obligationIds /\ \E j : IsAdded(j) /\ c = CheckOf(j)

GroundedBy(d, e, os, cs) ==
    /\ \A o \in Range(os) : TargetIn(d, e, o.target) /\ SpanIn(d, e, o.span)
    /\ \A c \in Range(cs) : TargetIn(d, e, c.target)

\* What was given with the document, and does not change.
Given(d, e) ==
    /\ \A s \in Range(d.spans) : s.typed /\ s.numeric => {s.from, s.to, s.first, s.last} \subseteq Int
    /\ \A o \in Range(e.obligations) : o.typed => IsList(o.target)

Accounted(d, e, n) ==
    /\ Given(d, e)
    /\ \E os, cs : /\ LayeredBy(d, e, os, cs)
                   /\ Clean(d, e) => GroundedBy(d, e, os, cs) /\ Sound(d, e, n)

\* Records added once, and others after them once, are added once together.
LEMMA OnceTwice ==
    ASSUME NEW s, IsList(s), NEW t, IsList(t), NEW A, NEW B, NEW C, Once(s, A, B), Once(t, B, C)
    PROVE  Once(s \o t, A, C)
  <1>1. PICK D : D = Range(s) \cup Range(t)
    OBVIOUS
  <1>2. s \in Seq(D) /\ t \in Seq(D)
    BY <1>1 DEF IsList
  <1>3. PICK u : u = s \o t
    OBVIOUS
  <1>4. /\ Len(s) \in Nat /\ Len(t) \in Nat /\ DOMAIN s = 1..Len(s) /\ DOMAIN t = 1..Len(t)
        /\ DOMAIN u = 1..(Len(s) + Len(t))
        /\ \A i \in 1..(Len(s) + Len(t)) : u[i] = IF i <= Len(s) THEN s[i] ELSE t[i - Len(s)]
    BY <1>2, <1>3, ConcatProperties
  <1>5. \A i \in DOMAIN u : \/ i \in DOMAIN s /\ u[i] = s[i]
                            \/ i - Len(s) \in DOMAIN t /\ u[i] = t[i - Len(s)]
    BY <1>4
  <1>6. (\A i \in DOMAIN s : i \in DOMAIN u /\ u[i] = s[i])
        /\ (\A i \in DOMAIN t : i + Len(s) \in DOMAIN u /\ u[i + Len(s)] = t[i])
    BY <1>4
  <1>7. C = A \cup {u[i].id : i \in DOMAIN u}
    <2>1. B = A \cup {s[i].id : i \in DOMAIN s} /\ C = B \cup {t[i].id : i \in DOMAIN t}
      BY DEF Once
    <2>2. ASSUME NEW x \in C PROVE x \in A \cup {u[i].id : i \in DOMAIN u}
      BY <2>1, <1>6
    <2>3. ASSUME NEW x \in A \cup {u[i].id : i \in DOMAIN u} PROVE x \in C
      BY <2>1, <1>5
    <2>4. QED BY <2>2, <2>3
  <1>8. ASSUME NEW i \in DOMAIN u
        PROVE  /\ u[i].id \notin A
               /\ i \in DOMAIN s => u[i].id \in B
               /\ i \notin DOMAIN s => u[i].id \notin B
    <2>1. B = A \cup {s[k].id : k \in DOMAIN s}
          /\ (\A k \in DOMAIN s : s[k].id \notin A) /\ (\A k \in DOMAIN t : t[k].id \notin B)
      BY DEF Once
    <2>2. QED BY <2>1, <1>5, <1>6
  <1>9. ASSUME NEW i \in DOMAIN u, NEW k \in DOMAIN u, u[i].id = u[k].id
        PROVE  i = k
    <2>1. (i \in DOMAIN s /\ k \in DOMAIN s) \/ (i \notin DOMAIN s /\ k \notin DOMAIN s)
      BY <1>8, <1>9
    <2>2. CASE i \in DOMAIN s /\ k \in DOMAIN s
      BY <2>2, <1>6, <1>9 DEF Once
    <2>3. CASE i \notin DOMAIN s /\ k \notin DOMAIN s
      <3>1. i - Len(s) \in DOMAIN t /\ k - Len(s) \in DOMAIN t /\ t[i - Len(s)].id = t[k - Len(s)].id
        BY <2>3, <1>5, <1>9
      <3>2. i - Len(s) = k - Len(s)
        BY <3>1 DEF Once
      <3>3. QED BY <3>2, <1>4
    <2>4. QED BY <2>1, <2>2, <2>3
  <1>10. Once(u, A, C)
    BY <1>7, <1>8, <1>9 DEF Once
  <1>11. QED BY <1>3, <1>10

\* The status of a check is told by its identity.
LEMMA StatusTold ==
    ASSUME NEW j, NEW k, IsList(j.target), IsList(k.target), CheckOf(j).id = CheckOf(k).id
    PROVE  j.status = k.status
  <1>1. ASSUME NEW p, NEW t, IsList(t)
        PROVE  IsList(ObligationId(p, t))
    <2>1. IsList(<<"vobl", p>>)
      BY Written DEF Told
    <2>2. QED BY <1>1, <2>1, BothLists DEF ObligationId
  <1>2. ASSUME NEW x, NEW v, IsList(v)
        PROVE  (<<"chk", x>> \o v)[2] = x
    <2>1. PICK C : C = Range(v) \cup {"chk", x}
      OBVIOUS
    <2>2. v \in Seq(C)
      BY <1>2, <2>1 DEF IsList
    <2>3. QED BY <2>1, <2>2
  <1>3. PICK a, b : a = ObligationId(j.property, j.target) /\ b = ObligationId(k.property, k.target)
    OBVIOUS
  <1>4. IsList(a) /\ IsList(b)
    BY <1>1, <1>3
  <1>5. <<"chk", j.status>> \o a = <<"chk", k.status>> \o b
    BY <1>3 DEF CheckOf, Check, CheckId
  <1>6. QED BY <1>2, <1>4, <1>5

\* The obligation and the check a judgement becomes.
LEMMA JudgementIs ==
    ASSUME NEW j
    PROVE  /\ ObligationOf(j).typed /\ ObligationOf(j).id = ObligationId(j.property, j.target)
           /\ ObligationOf(j).property = j.property /\ ObligationOf(j).target = j.target
           /\ ObligationOf(j).rationale = "text" /\ ObligationOf(j).span = j.span
           /\ CheckOf(j).typed /\ CheckOf(j).id = CheckId(ObligationId(j.property, j.target), j.status)
           /\ CheckOf(j).obligation = ObligationId(j.property, j.target)
           /\ CheckOf(j).property = j.property /\ CheckOf(j).target = j.target
           /\ CheckOf(j).status = j.status /\ CheckOf(j).evidence = "text"
  BY DEF ObligationOf, Obligation, CheckOf, Check

\* The answers are the checks that were added.
LEMMA AnswersAre ==
    ASSUME NEW d, NEW e, IsList(e.checks), NEW os, NEW cs, LayeredBy(d, e, os, cs)
    PROVE  AnswersIn(d, e) = Range(cs)
  <1>1. Added(d.checks, e.checks) = cs
    BY Appended DEF LayeredBy
  <1>2. QED BY <1>1 DEF AnswersIn

\* The judgements K add the obligations ps and the checks ds to d.
AddsTo(d, r, K, ps, ds) ==
    /\ ps \in Seq({ObligationOf(j) : j \in K}) /\ r.obligations = d.obligations \o ps
    /\ Once(ps, d.obligationIds, r.obligationIds)
    /\ ds \in Seq({CheckOf(j) : j \in K}) /\ r.checks = d.checks \o ds
    /\ Once(ds, d.checkIds, r.checkIds)

IsJoin(u, s, t) == u = s \o t

\* The obligations and checks of d were os and cs; with ps and ds they are those
\* of r.
Layers(d, r, e, K, os, cs, ps, ds, os2, cs2) ==
    /\ LayeredBy(r, e, os2, cs2)
    /\ Range(os2) = Range(os) \cup Range(ps) /\ Range(cs2) = Range(cs) \cup Range(ds)
    /\ Range(ps) \subseteq {ObligationOf(j) : j \in K} /\ Range(ds) \subseteq {CheckOf(j) : j \in K}
    /\ Range(d.obligations) = Range(e.obligations) \cup Range(os)
    /\ Beyond(d, r)

\* What is added to what was added before.
LEMMA JoinedLists ==
    ASSUME NEW u, NEW s, NEW t, IsJoin(u, s, t), IsList(s), IsList(t)
    PROVE  Longer(u, s, t) /\ IsList(u) /\ Range(u) = Range(s) \cup Range(t)
  <1>1. IsList(s \o t) /\ Range(s \o t) = Range(s) \cup Range(t)
    BY BothLists
  <1>2. QED BY <1>1 DEF Longer, IsJoin

LEMMA JoinedLonger ==
    ASSUME NEW s, NEW t, NEW u, NEW a, NEW b, NEW c, Longer(t, s, a), Longer(u, t, b), IsJoin(c, a, b)
    PROVE  Longer(u, s, c)
  <1>1. Longer(u, s, a \o b)
    BY LongerStill
  <1>2. QED BY <1>1 DEF IsJoin

LEMMA JoinedOnce ==
    ASSUME NEW u, NEW s, IsList(s), NEW t, IsList(t), IsJoin(u, s, t),
           NEW A, NEW B, NEW C, Once(s, A, B), Once(t, B, C)
    PROVE  Once(u, A, C)
  <1>1. Once(s \o t, A, C)
    BY OnceTwice
  <1>2. QED BY <1>1 DEF IsJoin

\* Another step of validation adds to the layer.
LEMMA LayeredFurther ==
    ASSUME NEW d, NEW e, IsList(e.obligations), IsList(e.checks), NEW os, NEW cs, LayeredBy(d, e, os, cs),
           NEW r, NEW K, Extended(d, r, K), \A j \in K : IsAdded(j),
           NEW ps, NEW ds, AddsTo(d, r, K, ps, ds),
           NEW os2, IsJoin(os2, os, ps), NEW cs2, IsJoin(cs2, cs, ds)
    PROVE  Layers(d, r, e, K, os, cs, ps, ds, os2, cs2)
  <1>1. PICK P, D : P = {ObligationOf(j) : j \in K} /\ D = {CheckOf(j) : j \in K}
    OBVIOUS
  <1>2. /\ ps \in Seq(P) /\ IsJoin(r.obligations, d.obligations, ps)
        /\ Once(ps, d.obligationIds, r.obligationIds)
        /\ ds \in Seq(D) /\ IsJoin(r.checks, d.checks, ds)
        /\ Once(ds, d.checkIds, r.checkIds)
    BY <1>1 DEF AddsTo, IsJoin
  <1>3. IsList(ps) /\ Range(ps) \subseteq P /\ IsList(ds) /\ Range(ds) \subseteq D
    BY <1>2, SequenceIsList DEF Range
  <1>4. /\ IsList(os) /\ IsJoin(d.obligations, e.obligations, os) /\ Once(os, {}, d.obligationIds)
        /\ IsList(cs) /\ IsJoin(d.checks, e.checks, cs) /\ Once(cs, {}, d.checkIds)
    BY DEF LayeredBy, IsJoin
  <1>5. /\ Longer(d.obligations, e.obligations, os) /\ IsList(d.obligations)
        /\ Longer(d.checks, e.checks, cs) /\ IsList(d.checks)
        /\ Range(d.obligations) = Range(e.obligations) \cup Range(os)
        /\ Range(d.checks) = Range(e.checks) \cup Range(cs)
    BY <1>4, JoinedLists
  <1>6. /\ Longer(r.obligations, d.obligations, ps) /\ Longer(r.checks, d.checks, ds)
        /\ Range(r.obligations) = Range(d.obligations) \cup Range(ps)
        /\ Range(r.checks) = Range(d.checks) \cup Range(ds)
    BY <1>2, <1>3, <1>5, JoinedLists
  <1>7. /\ Longer(r.obligations, e.obligations, os2) /\ IsList(os2) /\ Range(os2) = Range(os) \cup Range(ps)
        /\ Longer(r.checks, e.checks, cs2) /\ IsList(cs2) /\ Range(cs2) = Range(cs) \cup Range(ds)
    BY <1>3, <1>4, <1>5, <1>6, JoinedLonger, JoinedLists
  <1>8. Once(os2, {}, r.obligationIds) /\ Once(cs2, {}, r.checkIds)
    BY <1>2, <1>3, <1>4, JoinedOnce
  <1>9. \A o \in Range(os) \cup Range(ps) : \E j : IsAdded(j) /\ o = ObligationOf(j)
    <2>1. \A o \in Range(os) : \E j : IsAdded(j) /\ o = ObligationOf(j)
      BY DEF LayeredBy
    <2>2. QED BY <2>1, <1>1, <1>3
  <1>10. \A c \in Range(cs) \cup Range(ds) : c.obligation \in r.obligationIds /\ \E j : IsAdded(j) /\ c = CheckOf(j)
    <2>1. d.obligationIds \subseteq r.obligationIds
      BY <1>2 DEF Once
    <2>2. \A c \in Range(cs) : c.obligation \in d.obligationIds /\ \E j : IsAdded(j) /\ c = CheckOf(j)
      BY DEF LayeredBy
    <2>3. ASSUME NEW c \in Range(ds)
          PROVE  c.obligation \in r.obligationIds /\ \E j : IsAdded(j) /\ c = CheckOf(j)
      <3>1. PICK j \in K : c = CheckOf(j)
        BY <1>1, <1>3
      <3>2. c.obligation = ObligationOf(j).id
        BY <3>1, JudgementIs
      <3>3. ObligationOf(j).id \in r.obligationIds
        BY DEF Extended
      <3>4. QED BY <3>1, <3>2, <3>3
    <2>4. QED BY <2>1, <2>2, <2>3
  <1>11. LayeredBy(r, e, os2, cs2)
    BY <1>7, <1>8, <1>9, <1>10 DEF LayeredBy, Longer
  <1>12. Beyond(d, r)
    BY <1>6 DEF Beyond, Extended
  <1>13. QED BY <1>1, <1>3, <1>5, <1>6, <1>7, <1>11, <1>12 DEF Layers

\* When nothing is found wrong with r, the judgements that led to it passed.
LEMMA CleanPassed ==
    ASSUME NEW d, NEW e, IsList(e.checks), NEW os, NEW cs, LayeredBy(d, e, os, cs),
           NEW r, NEW K, Extended(d, r, K), \A j \in K : IsAdded(j),
           NEW os2, NEW cs2, LayeredBy(r, e, os2, cs2), Range(cs) \subseteq Range(cs2), Clean(r, e)
    PROVE  Clean(d, e) /\ Passed(K)
  <1>1. AnswersIn(d, e) = Range(cs) /\ AnswersIn(r, e) = Range(cs2)
    BY AnswersAre
  <1>2. Clean(d, e)
    BY <1>1 DEF Clean
  <1>3. ASSUME NEW j \in K
        PROVE  j.status \notin {"Fail", "Unknown"}
    <2>1. CheckOf(j).id \in r.checkIds /\ IsList(j.target)
      BY DEF Extended, IsAdded
    <2>2. r.checkIds = {cs2[i].id : i \in DOMAIN cs2}
      BY DEF LayeredBy, Once
    <2>3. PICK i \in DOMAIN cs2 : cs2[i].id = CheckOf(j).id
      BY <2>1, <2>2
    <2>4. PICK c : c = cs2[i]
      OBVIOUS
    <2>5. c \in Range(cs2)
      BY <2>3, <2>4 DEF Range
    <2>6. PICK k : IsAdded(k) /\ c = CheckOf(k)
      BY <2>5 DEF LayeredBy
    <2>7. k.status = j.status
      BY <2>1, <2>3, <2>4, <2>6, StatusTold DEF IsAdded
    <2>8. c.status = k.status
      BY <2>6, JudgementIs
    <2>9. QED BY <1>1, <2>5, <2>7, <2>8 DEF Clean
  <1>4. QED BY <1>2, <1>3 DEF Passed

\* The obligations are those of e and more, and the spans they cite are the
\* document's, or what its records cite.
CitesIn(d, e) ==
    /\ Range(e.obligations) \subseteq Range(d.obligations)
    /\ \A o \in Range(d.obligations) : o.typed => SpanIn(d, e, o.span)

\* What the judgements of a step say when they all passed.
Earned(d, e, K, first, last) ==
    Clean(d, e) /\ Sound(d, e, first - 1) /\ CitesIn(d, e) /\ Passed(K)
        => Grounds(d, e, K) /\ \A group \in first..last : Part(d, e, group)

\* A step whose judgements are of records and, passed, say what they should
\* leaves a document that is accounted for.
LEMMA AccountedFurther ==
    ASSUME NEW d, NEW e, IsLayer(e), NEW first \in 1..16, NEW last \in first..16, Accounted(d, e, first - 1),
           NEW r, NEW K, NEW p, Adds(d, r, K, first, last, p), Earned(d, e, K, first, last)
    PROVE  Accounted(r, e, last)
  <1>1. PICK os, cs : /\ LayeredBy(d, e, os, cs)
                      /\ Clean(d, e) => GroundedBy(d, e, os, cs) /\ Sound(d, e, first - 1)
    BY DEF Accounted
  <1>2. IsList(e.obligations) /\ IsList(e.checks)
    BY DEF IsLayer
  <1>3. Extended(d, r, K) /\ \A j \in K : IsAdded(j)
    <2>1. first..last \subseteq 1..16
      OBVIOUS
    <2>2. QED BY <2>1 DEF Adds, Judged, IsAdded, IsJudgement
  <1>4. PICK ps, ds : AddsTo(d, r, K, ps, ds)
    BY <1>3 DEF Extended, AddsTo
  <1>5. PICK os2, cs2 : IsJoin(os2, os, ps) /\ IsJoin(cs2, cs, ds)
    BY DEF IsJoin
  <1>6. Layers(d, r, e, K, os, cs, ps, ds, os2, cs2)
    BY <1>1, <1>2, <1>3, <1>4, <1>5, LayeredFurther
  <1>7. Given(r, e)
    BY <1>6 DEF Accounted, Given, Beyond, Layers
  <1>8. Range(d.obligations) = Range(e.obligations) \cup Range(os)
    BY <1>6 DEF Layers
  <1>9. ASSUME Clean(r, e)
        PROVE  GroundedBy(r, e, os2, cs2) /\ Sound(r, e, last)
    <2>1. Clean(d, e) /\ Passed(K)
      BY <1>1, <1>2, <1>3, <1>6, <1>9, CleanPassed DEF Layers
    <2>2. GroundedBy(d, e, os, cs) /\ Sound(d, e, first - 1)
      BY <1>1, <2>1
    <2>3. CitesIn(d, e)
      <3>1. \A o \in Range(e.obligations) : o.typed => SpanIn(d, e, o.span)
        BY DEF SpanIn
      <3>2. QED BY <3>1, <2>2, <1>8 DEF CitesIn, GroundedBy
    <2>4. Grounds(d, e, K) /\ \A group \in first..last : Part(d, e, group)
      BY <2>1, <2>2, <2>3 DEF Earned
    <2>5. \A t : TargetIn(d, e, t) => TargetIn(r, e, t)
      BY <1>6 DEF TargetIn, Records, Beyond, Layers
    <2>6. \A x : SpanIn(d, e, x) => SpanIn(r, e, x)
      BY <1>6 DEF SpanIn, Beyond, Layers
    <2>7. \A o \in Range(ps) : TargetIn(r, e, o.target) /\ SpanIn(r, e, o.span)
      <3> SUFFICES ASSUME NEW o \in Range(ps) PROVE TargetIn(r, e, o.target) /\ SpanIn(r, e, o.span)
        OBVIOUS
      <3>1. PICK j \in K : o = ObligationOf(j)
        BY <1>6 DEF Layers
      <3>2. o.target = j.target /\ o.span = j.span
        BY <3>1, JudgementIs
      <3>3. QED BY <3>2, <2>4, <2>5, <2>6 DEF Grounds
    <2>8. \A c \in Range(ds) : TargetIn(r, e, c.target)
      <3> SUFFICES ASSUME NEW c \in Range(ds) PROVE TargetIn(r, e, c.target)
        OBVIOUS
      <3>1. PICK j \in K : c = CheckOf(j)
        BY <1>6 DEF Layers
      <3>2. c.target = j.target
        BY <3>1, JudgementIs
      <3>3. QED BY <3>2, <2>4, <2>5 DEF Grounds
    <2>9. GroundedBy(r, e, os2, cs2)
      BY <1>6, <2>2, <2>5, <2>6, <2>7, <2>8 DEF GroundedBy, Layers
    <2>10. \A group \in 1..last : group \in 1..(first - 1) \/ group \in first..last
      OBVIOUS
    <2>11. \A group \in 1..last : Part(d, e, group)
      BY <2>2, <2>4, <2>10 DEF Sound
    <2>12. Sound(r, e, last)
      BY <1>6, <2>11, PartsStand DEF Sound, Layers
    <2>13. QED BY <2>9, <2>12
  <1>10. QED BY <1>6, <1>7, <1>9 DEF Accounted, Layers

-----------------------------------------------------------------------------
(* What the judgements of each group say when they all passed. *)

\* A judgement of the type of a record is about one of the records.
LEMMA RecordGrounded ==
    ASSUME NEW d, NEW e, NEW r \in Records(d, e), r.typed, NEW s, NEW group, NEW type, NEW malformed, NEW i,
           JudgesRecord(s, group, r, type, RecordTarget(r, malformed, i))
    PROVE  \A j \in Range(s) : TargetIn(d, e, j.target)
  <1> SUFFICES ASSUME NEW j \in Range(s) PROVE TargetIn(d, e, j.target)
    OBVIOUS
  <1>1. j.target = r.id \/ j.target = RecordTarget(r, malformed, i)
    BY DEF JudgesRecord
  <1>2. j.target = r.id \/ ~Safe(r.id)
    BY <1>1 DEF RecordTarget
  <1>3. QED BY <1>2 DEF TargetIn

\* So are the others.
LEMMA OtherGrounded ==
    ASSUME NEW d, NEW e, NEW r \in Records(d, e), NEW s, NEW group \in 1..16, NEW t,
           JudgesRecord(s, group, r, "none", t)
    PROVE  \A j \in Range(s) : r.typed /\ TargetIn(d, e, j.target)
  <1> SUFFICES ASSUME NEW j \in Range(s) PROVE r.typed /\ TargetIn(d, e, j.target)
    OBVIOUS
  <1>1. j.property # "none"
    <2>1. Group("none") = 0
      BY DEF Group
    <2>2. QED BY <2>1 DEF JudgesRecord
  <1>2. r.typed /\ j.target = r.id
    BY <1>1 DEF JudgesRecord
  <1>3. QED BY <1>2 DEF TargetIn

\* The judgements of files, all passed; and of the groups after them.
LEMMA FilesEarned ==
    ASSUME NEW d, NEW e, Passed(FileSet(d))
    PROVE  Grounds(d, e, FileSet(d)) /\ FilesSound(d)
  <1>1. ASSUME NEW i \in DOMAIN d.files, NEW r, r = d.files[i]
        PROVE  /\ r.typed /\ SafeFileFields(r)
               /\ \A j \in Range(FileJudgements(r, i)) : TargetIn(d, e, j.target) /\ SpanIn(d, e, j.span)
    <2>1. r \in Range(d.files)
      BY <1>1 DEF Range
    <2>2. Passed(Range(FileJudgements(r, i)))
      BY <1>1 DEF FileSet, AllOf, Passed
    <2>3. /\ r.typed /\ SafeFileFields(r)
          /\ \A j \in Range(FileJudgements(r, i)) : j.span \in {None}
      BY <2>2, SoundFile
    <2>4. JudgesRecord(FileJudgements(r, i), 1, r, "plain-file-has-valid-record-type", RecordTarget(r, "malformed-plain-file", i))
      BY FileGroup
    <2>5. \A j \in Range(FileJudgements(r, i)) : TargetIn(d, e, j.target)
      BY <2>1, <2>3, <2>4, RecordGrounded DEF Records
    <2>6. \A j \in Range(FileJudgements(r, i)) : SpanIn(d, e, j.span)
      BY <2>1, <2>3 DEF SpanIn
    <2>7. QED BY <2>3, <2>5, <2>6
  <1>2. Grounds(d, e, FileSet(d))
    BY <1>1 DEF Grounds, FileSet, AllOf
  <1>3. FilesSound(d)
    BY <1>1 DEF FilesSound, Range
  <1>4. QED BY <1>2, <1>3

LEMMA SpansEarned ==
    ASSUME NEW d, NEW e, Passed(SpanSet(d))
    PROVE  Grounds(d, e, SpanSet(d)) /\ SpansSound(d)
  <1>1. ASSUME NEW i \in DOMAIN d.spans, NEW r, r = d.spans[i]
        PROVE  /\ r.typed /\ Safe(r.file) /\ BoundsAreOrdered(r) /\ IsUnique(r.file, d.files)
               /\ \A j \in Range(SpanJudgements(d, r, i)) : TargetIn(d, e, j.target) /\ SpanIn(d, e, j.span)
    <2>1. r \in Range(d.spans)
      BY <1>1 DEF Range
    <2>2. Passed(Range(SpanJudgements(d, r, i)))
      BY <1>1 DEF SpanSet, AllOf, Passed
    <2>3. /\ r.typed /\ Safe(r.file) /\ BoundsAreOrdered(r) /\ IsUnique(r.file, d.files)
          /\ \A j \in Range(SpanJudgements(d, r, i)) : j.span \in {None, r.id}
      BY <2>2, SoundSpanRecord
    <2>4. JudgesRecord(SpanJudgements(d, r, i), 2, r, "source-span-has-valid-record-type", RecordTarget(r, "malformed-source-span", i))
      BY SpanGroup
    <2>5. \A j \in Range(SpanJudgements(d, r, i)) : TargetIn(d, e, j.target)
      BY <2>1, <2>3, <2>4, RecordGrounded DEF Records
    <2>6. \A j \in Range(SpanJudgements(d, r, i)) : SpanIn(d, e, j.span)
      BY <2>1, <2>3 DEF SpanIn
    <2>7. QED BY <2>3, <2>5, <2>6
  <1>2. Grounds(d, e, SpanSet(d))
    BY <1>1 DEF Grounds, SpanSet, AllOf
  <1>3. SpansSound(d)
    BY <1>1 DEF SpansSound, Range
  <1>4. QED BY <1>2, <1>3

LEMMA SectionsEarned ==
    ASSUME NEW d, NEW e, Passed(SectionSet(d))
    PROVE  Grounds(d, e, SectionSet(d)) /\ SectionsSound(d)
  <1>1. ASSUME NEW i \in DOMAIN d.sections, NEW r, r = d.sections[i]
        PROVE  /\ r.typed /\ Safe(r.span) /\ Safe(r.id) /\ IsUnique(r.id, d.sections)
               /\ r.kind = "text" /\ r.ordinal = "number" /\ Safe(r.file)
               /\ IsUnique(r.file, d.files) /\ SpanIsIn(d, r.span, r.file)
               /\ \A j \in Range(SectionJudgements(d, r, i)) : TargetIn(d, e, j.target) /\ SpanIn(d, e, j.span)
    <2>1. r \in Range(d.sections)
      BY <1>1 DEF Range
    <2>2. Passed(Range(SectionJudgements(d, r, i)))
      BY <1>1 DEF SectionSet, AllOf, Passed
    <2>3. /\ r.typed /\ Safe(r.span) /\ Safe(r.id) /\ IsUnique(r.id, d.sections)
               /\ r.kind = "text" /\ r.ordinal = "number" /\ Safe(r.file)
               /\ IsUnique(r.file, d.files) /\ SpanIsIn(d, r.span, r.file)
          /\ \A j \in Range(SectionJudgements(d, r, i)) : j.span \in {None, r.span}
      BY <2>2, SoundSection
    <2>4. JudgesRecord(SectionJudgements(d, r, i), 5, r, "section-has-valid-record-type", RecordTarget(r, "malformed-section", i))
      BY SectionGroup
    <2>5. \A j \in Range(SectionJudgements(d, r, i)) : TargetIn(d, e, j.target)
      BY <2>1, <2>3, <2>4, RecordGrounded DEF Records
    <2>6. \A j \in Range(SectionJudgements(d, r, i)) : SpanIn(d, e, j.span)
      BY <2>1, <2>3 DEF SpanIn
    <2>7. QED BY <2>3, <2>5, <2>6
  <1>2. Grounds(d, e, SectionSet(d))
    BY <1>1 DEF Grounds, SectionSet, AllOf
  <1>3. SectionsSound(d)
    BY <1>1 DEF SectionsSound, IdsSound, Range
  <1>4. QED BY <1>2, <1>3

LEMMA ItemsEarned ==
    ASSUME NEW d, NEW e, Passed(ItemSet(d))
    PROVE  Grounds(d, e, ItemSet(d)) /\ ItemsSound(d)
  <1>1. ASSUME NEW i \in DOMAIN d.items, NEW r, r = d.items[i]
        PROVE  /\ r.typed /\ Safe(r.span) /\ Safe(r.id) /\ IsUnique(r.id, d.items) /\ SafeLinks(r)
               /\ r.ordinal = "number" /\ r.level = "number" /\ r.raw = "text"
               /\ IsUnique(r.file, d.files) /\ IsUnique(r.section, d.sections)
               /\ ByLastId(d.sections, r.section).file = r.file /\ SpanIsIn(d, r.span, r.file)
               /\ (r.parent # None => /\ IsUnique(r.parent, d.items) /\ r.parent # r.id
                                     /\ ByLastId(d.items, r.parent).file = r.file
                                     /\ ByLastId(d.items, r.parent).section = r.section)
               /\ \A j \in Range(ItemJudgements(d, r, i)) : TargetIn(d, e, j.target) /\ SpanIn(d, e, j.span)
    <2>1. r \in Range(d.items)
      BY <1>1 DEF Range
    <2>2. Passed(Range(ItemJudgements(d, r, i)))
      BY <1>1 DEF ItemSet, AllOf, Passed
    <2>3. /\ r.typed /\ Safe(r.span) /\ Safe(r.id) /\ IsUnique(r.id, d.items) /\ SafeLinks(r)
               /\ r.ordinal = "number" /\ r.level = "number" /\ r.raw = "text"
               /\ IsUnique(r.file, d.files) /\ IsUnique(r.section, d.sections)
               /\ ByLastId(d.sections, r.section).file = r.file /\ SpanIsIn(d, r.span, r.file)
               /\ (r.parent # None => /\ IsUnique(r.parent, d.items) /\ r.parent # r.id
                                     /\ ByLastId(d.items, r.parent).file = r.file
                                     /\ ByLastId(d.items, r.parent).section = r.section)
          /\ \A j \in Range(ItemJudgements(d, r, i)) : j.span \in {None, r.span}
      BY <2>2, SoundItemRecord
    <2>4. JudgesRecord(ItemJudgements(d, r, i), 6, r, "item-has-valid-record-type", RecordTarget(r, "malformed-item", i))
      BY ItemGroup
    <2>5. \A j \in Range(ItemJudgements(d, r, i)) : TargetIn(d, e, j.target)
      BY <2>1, <2>3, <2>4, RecordGrounded DEF Records
    <2>6. \A j \in Range(ItemJudgements(d, r, i)) : SpanIn(d, e, j.span)
      BY <2>1, <2>3 DEF SpanIn
    <2>7. QED BY <2>3, <2>5, <2>6
  <1>2. Grounds(d, e, ItemSet(d))
    BY <1>1 DEF Grounds, ItemSet, AllOf
  <1>3. ItemsSound(d)
    BY <1>1 DEF ItemsSound, IdsSound, Range
  <1>4. QED BY <1>2, <1>3

LEMMA ObjectsEarned ==
    ASSUME NEW d, NEW e, Passed(ObjectSet(d))
    PROVE  Grounds(d, e, ObjectSet(d)) /\ ObjectsSound(d)
  <1>1. ASSUME NEW i \in DOMAIN d.objects, NEW r, r = d.objects[i]
        PROVE  /\ r.typed /\ Safe(r.id) /\ IsUnique(r.id, d.objects)
               /\ r.role # "untyped" /\ r.listed /\ SafeOptional(r.span) /\ HasProvenance(d, r)
               /\ \A j \in Range(ObjectJudgements(d, r, i)) : TargetIn(d, e, j.target) /\ SpanIn(d, e, j.span)
    <2>1. r \in Range(d.objects)
      BY <1>1 DEF Range
    <2>2. Passed(Range(ObjectJudgements(d, r, i)))
      BY <1>1 DEF ObjectSet, AllOf, Passed
    <2>3. /\ r.typed /\ Safe(r.id) /\ IsUnique(r.id, d.objects)
               /\ r.role # "untyped" /\ r.listed /\ SafeOptional(r.span) /\ HasProvenance(d, r)
          /\ \A j \in Range(ObjectJudgements(d, r, i)) : j.span \in {None, r.span}
      BY <2>2, SoundObjectRecord
    <2>4. JudgesRecord(ObjectJudgements(d, r, i), 7, r, "object-has-valid-record-type", RecordTarget(r, "malformed-object", i))
      BY ObjectGroup
    <2>5. \A j \in Range(ObjectJudgements(d, r, i)) : TargetIn(d, e, j.target)
      BY <2>1, <2>3, <2>4, RecordGrounded DEF Records
    <2>6. \A j \in Range(ObjectJudgements(d, r, i)) : SpanIn(d, e, j.span)
      BY <2>1, <2>3 DEF SpanIn
    <2>7. QED BY <2>3, <2>5, <2>6
  <1>2. Grounds(d, e, ObjectSet(d))
    BY <1>1 DEF Grounds, ObjectSet, AllOf
  <1>3. ObjectsSound(d)
    BY <1>1 DEF ObjectsSound, IdsSound, Range
  <1>4. QED BY <1>2, <1>3

\* The record found last under an identity carries it.
LEMMA LastIsCarrier ==
    ASSUME NEW records, IsList(records), NEW id \in SafeIds(records)
    PROVE  /\ ByLastId(records, id) \in Range(records)
           /\ ByLastId(records, id).typed /\ ByLastId(records, id).id = id
  <1> DEFINE C(i) == records[i].typed /\ records[i].id = id
  <1>1. PICK n \in Nat : DOMAIN records = 1..n
    BY DEF IsList
  <1>2. PICK k \in 1..n : C(k)
    BY <1>1 DEF SafeIds, Range
  <1> HIDE DEF C
  <1>3. PICK S : S = {m \in Nat : m <= n /\ n - m \in 1..n /\ C(n - m)}
    OBVIOUS
  <1>4. n - k \in S
    <2>1. n - k \in Nat /\ n - k <= n /\ n - (n - k) = k
      OBVIOUS
    <2>2. QED BY <2>1, <1>2, <1>3
  <1>5. PICK m \in S : \A l \in S : m <= l
    <2>1. S \subseteq Nat /\ S # {}
      BY <1>3, <1>4
    <2>2. QED BY <2>1, LeastNumber
  <1>6. m \in Nat /\ n - m \in 1..n /\ C(n - m)
    BY <1>3
  <1>7. \A j \in 1..n : j > n - m => ~C(j)
    <2> SUFFICES ASSUME NEW j \in 1..n, j > n - m, C(j) PROVE FALSE
      OBVIOUS
    <2>1. n - j \in Nat /\ n - j <= n /\ n - (n - j) = j /\ n - j < m
      BY <1>6
    <2>2. n - j \in S
      BY <2>1, <1>3
    <2>3. QED BY <2>1, <2>2, <1>5, <1>6
  <1>8. \E i \in DOMAIN records : C(i) /\ \A j \in DOMAIN records : j > i => ~C(j)
    BY <1>1, <1>6, <1>7
  <1>9. PICK i \in DOMAIN records : C(i) /\ ByLastId(records, id) = records[i]
    BY <1>8 DEF ByLastId, C
  <1>10. QED BY <1>9 DEF C, Range

\* What is said of two sets of judgements is said of both.
LEMMA PassedBoth ==
    ASSUME NEW J, NEW K, Passed(J \cup K)
    PROVE  Passed(J) /\ Passed(K)
  BY DEF Passed

LEMMA GroundsBoth ==
    ASSUME NEW d, NEW e, NEW J, NEW K, Grounds(d, e, J), Grounds(d, e, K)
    PROVE  Grounds(d, e, J \cup K)
  BY DEF Grounds

\* The judgements of identities, all passed.
LEMMA FileIdsEarned ==
    ASSUME NEW d, NEW e, FilesSound(d), Passed(AllOf([i \in DOMAIN d.files |-> FileIdentityJudgements(d, d.files[i])]))
    PROVE  Grounds(d, e, AllOf([i \in DOMAIN d.files |-> FileIdentityJudgements(d, d.files[i])])) /\ IdsSound(d.files)
  <1>1. ASSUME NEW i \in DOMAIN d.files, NEW r, r = d.files[i]
        PROVE  /\ Safe(r.id) /\ IsUnique(r.id, d.files)
               /\ \A j \in Range(FileIdentityJudgements(d, r)) : TargetIn(d, e, j.target) /\ SpanIn(d, e, j.span)
    <2>1. r \in Range(d.files)
      BY <1>1 DEF Range
    <2>2. Passed(Range(FileIdentityJudgements(d, r)))
      BY <1>1 DEF AllOf, Passed
    <2>3. r.typed
      BY <2>1 DEF FilesSound
    <2>4. /\ Safe(r.id) /\ IsUnique(r.id, d.files)
          /\ \A j \in Range(FileIdentityJudgements(d, r)) : j.span \in {None}
      BY <2>2, <2>3, SoundFileIdentity
    <2>5. JudgesRecord(FileIdentityJudgements(d, r), 3, r, "none", Place(i))
      BY FileIdentityGroup
    <2>6. \A j \in Range(FileIdentityJudgements(d, r)) : TargetIn(d, e, j.target)
      <3>1. r \in Records(d, e) /\ 3 \in 1..16
        BY <2>1 DEF Records
      <3>2. QED BY <2>5, <3>1, OtherGrounded
    <2>7. \A j \in Range(FileIdentityJudgements(d, r)) : SpanIn(d, e, j.span)
      BY <2>1, <2>3, <2>4 DEF SpanIn
    <2>8. QED BY <2>4, <2>6, <2>7
  <1>2. Grounds(d, e, AllOf([i \in DOMAIN d.files |-> FileIdentityJudgements(d, d.files[i])]))
    BY <1>1 DEF Grounds, AllOf
  <1>3. IdsSound(d.files)
    BY <1>1 DEF IdsSound, Range
  <1>4. QED BY <1>2, <1>3

LEMMA SpanIdsEarned ==
    ASSUME NEW d, NEW e, SpansSound(d), Passed(AllOf([i \in DOMAIN d.spans |-> SpanIdentityJudgements(d, d.spans[i])]))
    PROVE  Grounds(d, e, AllOf([i \in DOMAIN d.spans |-> SpanIdentityJudgements(d, d.spans[i])])) /\ IdsSound(d.spans)
  <1>1. ASSUME NEW i \in DOMAIN d.spans, NEW r, r = d.spans[i]
        PROVE  /\ Safe(r.id) /\ IsUnique(r.id, d.spans)
               /\ \A j \in Range(SpanIdentityJudgements(d, r)) : TargetIn(d, e, j.target) /\ SpanIn(d, e, j.span)
    <2>1. r \in Range(d.spans)
      BY <1>1 DEF Range
    <2>2. Passed(Range(SpanIdentityJudgements(d, r)))
      BY <1>1 DEF AllOf, Passed
    <2>3. r.typed
      BY <2>1 DEF SpansSound
    <2>4. /\ Safe(r.id) /\ IsUnique(r.id, d.spans)
          /\ \A j \in Range(SpanIdentityJudgements(d, r)) : j.span \in {r.id}
      BY <2>2, <2>3, SoundSpanIdentity
    <2>5. JudgesRecord(SpanIdentityJudgements(d, r), 4, r, "none", Place(i))
      BY SpanIdentityGroup
    <2>6. \A j \in Range(SpanIdentityJudgements(d, r)) : TargetIn(d, e, j.target)
      <3>1. r \in Records(d, e) /\ 4 \in 1..16
        BY <2>1 DEF Records
      <3>2. QED BY <2>5, <3>1, OtherGrounded
    <2>7. \A j \in Range(SpanIdentityJudgements(d, r)) : SpanIn(d, e, j.span)
      BY <2>1, <2>3, <2>4 DEF SpanIn
    <2>8. QED BY <2>4, <2>6, <2>7
  <1>2. Grounds(d, e, AllOf([i \in DOMAIN d.spans |-> SpanIdentityJudgements(d, d.spans[i])]))
    BY <1>1 DEF Grounds, AllOf
  <1>3. IdsSound(d.spans)
    BY <1>1 DEF IdsSound, Range
  <1>4. QED BY <1>2, <1>3

LEMMA IdentitiesEarned ==
    ASSUME NEW d, NEW e, FilesSound(d), SpansSound(d), Passed(IdentitySet(d))
    PROVE  Grounds(d, e, IdentitySet(d)) /\ IdsSound(d.files) /\ IdsSound(d.spans)
  <1>1. PICK A, B : /\ A = AllOf([i \in DOMAIN d.files |-> FileIdentityJudgements(d, d.files[i])])
                    /\ B = AllOf([i \in DOMAIN d.spans |-> SpanIdentityJudgements(d, d.spans[i])])
    OBVIOUS
  <1>2. IdentitySet(d) = A \cup B
    BY <1>1 DEF IdentitySet
  <1>3. Passed(A) /\ Passed(B)
    BY <1>2, PassedBoth
  <1>4. (Grounds(d, e, A) /\ IdsSound(d.files)) /\ (Grounds(d, e, B) /\ IdsSound(d.spans))
    BY <1>1, <1>3, FileIdsEarned, SpanIdsEarned
  <1>5. QED BY <1>2, <1>4, GroundsBoth

LEMMA ObligationIdsEarned ==
    ASSUME NEW d, NEW e, Passed(AllOf([i \in DOMAIN e.obligations |-> ObligationIdentityJudgements(e.obligations, e.obligations[i], i)]))
    PROVE  Grounds(d, e, AllOf([i \in DOMAIN e.obligations |-> ObligationIdentityJudgements(e.obligations, e.obligations[i], i)])) /\ LayerSound(e.obligations)
  <1>1. ASSUME NEW i \in DOMAIN e.obligations, NEW r, r = e.obligations[i]
        PROVE  /\ r.typed /\ Safe(r.id) /\ IsUnique(r.id, e.obligations)
               /\ \A j \in Range(ObligationIdentityJudgements(e.obligations, r, i)) : TargetIn(d, e, j.target) /\ SpanIn(d, e, j.span)
    <2>1. r \in Range(e.obligations)
      BY <1>1 DEF Range
    <2>2. Passed(Range(ObligationIdentityJudgements(e.obligations, r, i)))
      BY <1>1 DEF AllOf, Passed
    <2>3. TRUE
      OBVIOUS
    <2>4. /\ r.typed /\ Safe(r.id) /\ IsUnique(r.id, e.obligations)
          /\ \A j \in Range(ObligationIdentityJudgements(e.obligations, r, i)) : j.span \in {None, r.span}
      BY <2>2, <2>3, SoundObligationIdentity
    <2>5. JudgesRecord(ObligationIdentityJudgements(e.obligations, r, i), 8, r, "validation-obligation-has-valid-record-type", RecordTarget(r, "malformed-validation-obligation", i))
      BY ObligationIdentityGroup
    <2>6. \A j \in Range(ObligationIdentityJudgements(e.obligations, r, i)) : TargetIn(d, e, j.target)
      BY <2>1, <2>4, <2>5, RecordGrounded DEF Records
    <2>7. \A j \in Range(ObligationIdentityJudgements(e.obligations, r, i)) : SpanIn(d, e, j.span)
      BY <2>1, <2>3, <2>4 DEF SpanIn
    <2>8. QED BY <2>4, <2>6, <2>7
  <1>2. Grounds(d, e, AllOf([i \in DOMAIN e.obligations |-> ObligationIdentityJudgements(e.obligations, e.obligations[i], i)]))
    BY <1>1 DEF Grounds, AllOf
  <1>3. LayerSound(e.obligations)
    BY <1>1 DEF LayerSound, IdsSound, Range
  <1>4. QED BY <1>2, <1>3

LEMMA CheckIdsEarned ==
    ASSUME NEW d, NEW e, Passed(AllOf([i \in DOMAIN e.checks |-> CheckIdentityJudgements(e.checks, e.checks[i], i)]))
    PROVE  Grounds(d, e, AllOf([i \in DOMAIN e.checks |-> CheckIdentityJudgements(e.checks, e.checks[i], i)])) /\ LayerSound(e.checks)
  <1>1. ASSUME NEW i \in DOMAIN e.checks, NEW r, r = e.checks[i]
        PROVE  /\ r.typed /\ Safe(r.id) /\ IsUnique(r.id, e.checks)
               /\ \A j \in Range(CheckIdentityJudgements(e.checks, r, i)) : TargetIn(d, e, j.target) /\ SpanIn(d, e, j.span)
    <2>1. r \in Range(e.checks)
      BY <1>1 DEF Range
    <2>2. Passed(Range(CheckIdentityJudgements(e.checks, r, i)))
      BY <1>1 DEF AllOf, Passed
    <2>3. TRUE
      OBVIOUS
    <2>4. /\ r.typed /\ Safe(r.id) /\ IsUnique(r.id, e.checks)
          /\ \A j \in Range(CheckIdentityJudgements(e.checks, r, i)) : j.span \in {None}
      BY <2>2, <2>3, SoundCheckIdentity
    <2>5. JudgesRecord(CheckIdentityJudgements(e.checks, r, i), 9, r, "check-has-valid-record-type", RecordTarget(r, "malformed-check-record", i))
      BY CheckIdentityGroup
    <2>6. \A j \in Range(CheckIdentityJudgements(e.checks, r, i)) : TargetIn(d, e, j.target)
      BY <2>1, <2>4, <2>5, RecordGrounded DEF Records
    <2>7. \A j \in Range(CheckIdentityJudgements(e.checks, r, i)) : SpanIn(d, e, j.span)
      BY <2>1, <2>3, <2>4 DEF SpanIn
    <2>8. QED BY <2>4, <2>6, <2>7
  <1>2. Grounds(d, e, AllOf([i \in DOMAIN e.checks |-> CheckIdentityJudgements(e.checks, e.checks[i], i)]))
    BY <1>1 DEF Grounds, AllOf
  <1>3. LayerSound(e.checks)
    BY <1>1 DEF LayerSound, IdsSound, Range
  <1>4. QED BY <1>2, <1>3

LEMMA LayerEarned ==
    ASSUME NEW d, NEW e, Passed(LayerSet(e.obligations, e.checks))
    PROVE  /\ Grounds(d, e, LayerSet(e.obligations, e.checks))
           /\ LayerSound(e.obligations) /\ LayerSound(e.checks)
  <1>1. PICK A, B :
          /\ A = AllOf([i \in DOMAIN e.obligations |-> ObligationIdentityJudgements(e.obligations, e.obligations[i], i)])
          /\ B = AllOf([i \in DOMAIN e.checks |-> CheckIdentityJudgements(e.checks, e.checks[i], i)])
    OBVIOUS
  <1>2. LayerSet(e.obligations, e.checks) = A \cup B
    BY <1>1 DEF LayerSet
  <1>3. Passed(A) /\ Passed(B)
    BY <1>2, PassedBoth
  <1>4. (Grounds(d, e, A) /\ LayerSound(e.obligations)) /\ (Grounds(d, e, B) /\ LayerSound(e.checks))
    BY <1>1, <1>3, ObligationIdsEarned, CheckIdsEarned
  <1>5. QED BY <1>2, <1>4, GroundsBoth

\* The level of an object, judged and passed.
LEMMA SoundLevel ==
    ASSUME NEW r, NEW js, js = When(r.typed, <<Judgement(LevelProperty, r.id, r.span,
                                    IF r.level \in SupportedLevels THEN "Pass" ELSE "Unknown")>>),
           Passed(Range(js))
    PROVE  ~Unsupported(r) /\ \A j \in Range(js) : j.span \in {r.span}
  <1> DEFINE a == Judgement(LevelProperty, r.id, r.span, IF r.level \in SupportedLevels THEN "Pass" ELSE "Unknown")
  <1>1. Range(js) = Under(r.typed, {a})
    BY LevelGroup DEF Told
  <1>2. (a.status \notin {"Fail", "Unknown"} => r.level \in SupportedLevels) /\ a.span = r.span
    BY DEF Judgement
  <1> HIDE DEF a
  <1>3. QED BY <1>1, <1>2 DEF Passed, Under, Unsupported

\* The provenance of an edge.
LEMMA SoundEdge ==
    ASSUME NEW d, NEW r, NEW js,
           js = When(IsEdge(r), <<Judgement("edge-has-item-level-source-provenance", r.id, r.span, EdgeStatus(d, r))>>)
    PROVE  \A j \in Range(js) : j.span \in {r.span}
  <1> DEFINE a == Judgement("edge-has-item-level-source-provenance", r.id, r.span, EdgeStatus(d, r))
  <1>1. Range(js) = Under(IsEdge(r), {a})
    BY EdgeGroup DEF Told
  <1>2. a.span = r.span
    BY DEF Judgement
  <1> HIDE DEF a
  <1>3. QED BY <1>1, <1>2 DEF Under

\* The judgements of levels, edges, questions, obligations and checks, all passed.
LEMMA LevelsEarned ==
    ASSUME NEW d, NEW e, Passed(LevelSet(d))
    PROVE  Grounds(d, e, LevelSet(d)) /\ LevelsSound(d)
  <1>1. ASSUME NEW i \in DOMAIN d.objects, NEW r, r = d.objects[i], NEW js,
               js = When(r.typed, <<Judgement(LevelProperty, r.id, r.span,
                                    IF r.level \in SupportedLevels THEN "Pass" ELSE "Unknown")>>)
        PROVE  /\ ~Unsupported(r)
               /\ \A j \in Range(js) : TargetIn(d, e, j.target) /\ SpanIn(d, e, j.span)
    <2>1. r \in Range(d.objects)
      BY <1>1 DEF Range
    <2>2. Passed(Range(js))
      BY <1>1 DEF LevelSet, AllOf, Passed
    <2>3. ~Unsupported(r) /\ \A j \in Range(js) : j.span \in {r.span}
      BY <1>1, <2>2, SoundLevel
    <2>4. JudgesRecord(js, 10, r, "none", Place(i))
      BY <1>1, LevelGroup
    <2>5. \A j \in Range(js) : r.typed /\ TargetIn(d, e, j.target)
      <3>1. r \in Records(d, e) /\ 10 \in 1..16
        BY <2>1 DEF Records
      <3>2. QED BY <2>4, <3>1, OtherGrounded
    <2>6. \A j \in Range(js) : SpanIn(d, e, j.span)
      BY <2>1, <2>3, <2>5 DEF SpanIn
    <2>7. QED BY <2>3, <2>5, <2>6
  <1>2. Grounds(d, e, LevelSet(d))
    BY <1>1 DEF Grounds, LevelSet, AllOf
  <1>3. LevelsSound(d)
    BY <1>1 DEF LevelsSound, Range
  <1>4. QED BY <1>2, <1>3

LEMMA EdgesEarned ==
    ASSUME NEW d, NEW e
    PROVE  Grounds(d, e, EdgeSet(d))
  <1>1. ASSUME NEW i \in DOMAIN d.objects, NEW r, r = d.objects[i], NEW js,
               js = When(IsEdge(r), <<Judgement("edge-has-item-level-source-provenance", r.id, r.span, EdgeStatus(d, r))>>)
        PROVE  \A j \in Range(js) : TargetIn(d, e, j.target) /\ SpanIn(d, e, j.span)
    <2>1. r \in Range(d.objects)
      BY <1>1 DEF Range
    <2>3. \A j \in Range(js) : j.span \in {r.span}
      BY <1>1, SoundEdge
    <2>4. JudgesRecord(js, 15, r, "none", Place(i))
      BY <1>1, EdgeGroup
    <2>5. \A j \in Range(js) : r.typed /\ TargetIn(d, e, j.target)
      <3>1. r \in Records(d, e) /\ 15 \in 1..16
        BY <2>1 DEF Records
      <3>2. QED BY <2>4, <3>1, OtherGrounded
    <2>6. \A j \in Range(js) : SpanIn(d, e, j.span)
      BY <2>1, <2>3, <2>5 DEF SpanIn
    <2>7. QED BY <2>5, <2>6
  <1>2. QED BY <1>1 DEF Grounds, EdgeSet, AllOf

LEMMA QuestionsEarned ==
    ASSUME NEW d, NEW e, Passed(QuestionSet(d))
    PROVE  Grounds(d, e, QuestionSet(d))
  <1>1. ASSUME NEW i \in DOMAIN d.objects, NEW r, r = d.objects[i]
        PROVE  /\ TRUE
               /\ \A j \in Range(QuestionJudgements(d, r)) : TargetIn(d, e, j.target) /\ SpanIn(d, e, j.span)
    <2>1. r \in Range(d.objects)
      BY <1>1 DEF Range
    <2>2. Passed(Range(QuestionJudgements(d, r)))
      BY <1>1 DEF QuestionSet, AllOf, Passed
    <2>3. TRUE
      OBVIOUS
    <2>4. /\ TRUE
          /\ \A j \in Range(QuestionJudgements(d, r)) : j.span \in {r.span}
      BY <2>2, <2>3, SoundQuestion
    <2>5. JudgesRecord(QuestionJudgements(d, r), 12, r, "none", Place(i))
      BY QuestionGroup
    <2>6. \A j \in Range(QuestionJudgements(d, r)) : r.typed /\ TargetIn(d, e, j.target)
      <3>1. r \in Records(d, e) /\ 12 \in 1..16
        BY <2>1 DEF Records
      <3>2. QED BY <2>5, <3>1, OtherGrounded
    <2>7. \A j \in Range(QuestionJudgements(d, r)) : SpanIn(d, e, j.span)
      BY <2>1, <2>4, <2>6 DEF SpanIn
    <2>8. QED BY <2>3, <2>4, <2>6, <2>7
  <1>2. Grounds(d, e, QuestionSet(d))
    BY <1>1 DEF Grounds, QuestionSet, AllOf
  <1>3. QED BY <1>2

\* What is declared by the document and the obligations it came with.
LEMMA TargetDeclared ==
    ASSUME NEW d, NEW e, Range(e.obligations) \subseteq Range(d.obligations), NEW t,
           TargetIsDeclared(d, e.obligations, t)
    PROVE  IsDeclared(d, t)
  <1>1. SafeIds(e.obligations) \subseteq SafeIds(d.obligations)
    BY DEF SafeIds
  <1>2. \/ \E list \in RecordLists : t \in SafeIds(d[list])
        \/ \E id \in SafeIds(d.objects) : IsSubtargetOf(t, id) /\ Canonical(t, id)
    BY <1>1 DEF TargetIsDeclared, RecordLists
  <1>3. QED BY <1>2 DEF IsDeclared

LEMMA ObligationsEarned ==
    ASSUME NEW d, NEW e, LayerSound(e.obligations), Range(e.obligations) \subseteq Range(d.obligations), Passed(ObligationSet(d, e.obligations))
    PROVE  Grounds(d, e, ObligationSet(d, e.obligations)) /\ ObligationsSound(d, e)
  <1>1. ASSUME NEW i \in DOMAIN e.obligations, NEW r, r = e.obligations[i]
        PROVE  /\ SafeText(r.property) /\ SafeText(r.rationale) /\ Safe(r.target) /\ r.span \in SafeIds(d.spans) /\ TargetIsDeclared(d, e.obligations, r.target)
               /\ \A j \in Range(ObligationJudgements(d, e.obligations, r)) : TargetIn(d, e, j.target) /\ SpanIn(d, e, j.span)
    <2>1. r \in Range(e.obligations)
      BY <1>1 DEF Range
    <2>2. Passed(Range(ObligationJudgements(d, e.obligations, r)))
      BY <1>1 DEF ObligationSet, AllOf, Passed
    <2>3. r.typed
      BY <2>1 DEF LayerSound
    <2>4. /\ SafeText(r.property) /\ SafeText(r.rationale) /\ Safe(r.target) /\ r.span \in SafeIds(d.spans) /\ TargetIsDeclared(d, e.obligations, r.target)
          /\ \A j \in Range(ObligationJudgements(d, e.obligations, r)) : j.span \in {None, r.span}
      BY <2>2, <2>3, SoundObligation
    <2>5. JudgesRecord(ObligationJudgements(d, e.obligations, r), 13, r, "none", Place(i))
      BY ObligationGroup
    <2>6. \A j \in Range(ObligationJudgements(d, e.obligations, r)) : r.typed /\ TargetIn(d, e, j.target)
      <3>1. r \in Records(d, e) /\ 13 \in 1..16
        BY <2>1 DEF Records
      <3>2. QED BY <2>5, <3>1, OtherGrounded
    <2>7. \A j \in Range(ObligationJudgements(d, e.obligations, r)) : SpanIn(d, e, j.span)
      BY <2>1, <2>4, <2>6 DEF SpanIn
    <2>8. QED BY <2>3, <2>4, <2>6, <2>7
  <1>2. Grounds(d, e, ObligationSet(d, e.obligations))
    BY <1>1 DEF Grounds, ObligationSet, AllOf
  <1>3. ObligationsSound(d, e)
    BY <1>1, TargetDeclared DEF ObligationsSound, Range
  <1>4. QED BY <1>2, <1>3

LEMMA ChecksEarned ==
    ASSUME NEW d, NEW e, LayerSound(e.checks), CitesIn(d, e), IsList(d.obligations), Passed(CheckSet(d, e.checks))
    PROVE  Grounds(d, e, CheckSet(d, e.checks)) /\ ChecksSound(d, e)
  <1>1. ASSUME NEW i \in DOMAIN e.checks, NEW r, r = e.checks[i]
        PROVE  /\ SafeText(r.property) /\ Safe(r.target) /\ r.status # "untyped" /\ SafeText(r.evidence) /\ Linked(d, r)
               /\ r.property = ByLastId(d.obligations, r.obligation).property
               /\ r.target = ByLastId(d.obligations, r.obligation).target
               /\ \A j \in Range(CheckJudgements(d, r)) : TargetIn(d, e, j.target) /\ SpanIn(d, e, j.span)
    <2>1. r \in Range(e.checks)
      BY <1>1 DEF Range
    <2>2. Passed(Range(CheckJudgements(d, r)))
      BY <1>1 DEF CheckSet, AllOf, Passed
    <2>3. r.typed
      BY <2>1 DEF LayerSound
    <2>4. /\ SafeText(r.property) /\ Safe(r.target) /\ r.status # "untyped" /\ SafeText(r.evidence) /\ Linked(d, r)
               /\ r.property = ByLastId(d.obligations, r.obligation).property
               /\ r.target = ByLastId(d.obligations, r.obligation).target
          /\ \A j \in Range(CheckJudgements(d, r)) : j.span \in {CitedSpan(d, r)}
      BY <2>2, <2>3, SoundCheck
    <2>5. JudgesRecord(CheckJudgements(d, r), 14, r, "none", Place(i))
      BY CheckGroup
    <2>6. \A j \in Range(CheckJudgements(d, r)) : r.typed /\ TargetIn(d, e, j.target)
      <3>1. r \in Records(d, e) /\ 14 \in 1..16
        BY <2>1 DEF Records
      <3>2. QED BY <2>5, <3>1, OtherGrounded
    <2>7. \A j \in Range(CheckJudgements(d, r)) : SpanIn(d, e, j.span)
      <3>1. PICK o : o = ByLastId(d.obligations, r.obligation)
        OBVIOUS
      <3>2. o \in Range(d.obligations) /\ o.typed
        BY <2>4, <3>1, LastIsCarrier DEF Linked
      <3>3. CitedSpan(d, r) = o.span
        BY <2>4, <3>1 DEF CitedSpan
      <3>4. QED BY <2>4, <3>2, <3>3 DEF CitesIn
    <2>8. QED BY <2>3, <2>4, <2>6, <2>7
  <1>2. Grounds(d, e, CheckSet(d, e.checks))
    BY <1>1 DEF Grounds, CheckSet, AllOf
  <1>3. ChecksSound(d, e)
    <2> SUFFICES ASSUME NEW c \in Range(e.checks)
                 PROVE  /\ SafeText(c.property) /\ Safe(c.target) /\ c.status # "untyped" /\ SafeText(c.evidence)
                        /\ Safe(c.obligation)
                        /\ \E o \in Range(d.obligations) :
                             o.typed /\ <<o.id, o.property, o.target>> = <<c.obligation, c.property, c.target>>
      BY DEF ChecksSound
    <2>1. /\ SafeText(c.property) /\ Safe(c.target) /\ c.status # "untyped" /\ SafeText(c.evidence) /\ Linked(d, c)
          /\ c.property = ByLastId(d.obligations, c.obligation).property
          /\ c.target = ByLastId(d.obligations, c.obligation).target
      BY <1>1 DEF Range
    <2>2. PICK o : o = ByLastId(d.obligations, c.obligation)
      OBVIOUS
    <2>3. o \in Range(d.obligations) /\ o.typed /\ o.id = c.obligation
      BY <2>1, <2>2, LastIsCarrier DEF Linked
    <2>4. QED BY <2>1, <2>2, <2>3 DEF Linked
  <1>4. QED BY <1>2, <1>3

\* A fact of which every judgement passed.
LEMMA SoundFactJudged ==
    ASSUME NEW d, NEW r, NEW i, Passed(Range(FactJudgements(d, r, i)))
    PROVE  SoundFact(r, r.facts[i]) /\ \A j \in Range(FactJudgements(d, r, i)) : j.span \in {r.span}
  <1> DEFINE f == r.facts[i]
             J(property, status) == Judgement(property, FactTarget(r, i), r.span, status)
             T(property, holds) == Test(property, FactTarget(r, i), r.span, holds)
             a == J("fact-has-supported-arity", "Fail")
             b == J("fact-has-supported-arity", "Unknown")
             c == J("fact-has-supported-arity", "Pass")
             g == T("fact-arguments-are-backend-safe", \A p \in DOMAIN f.args : SafeArgument(f, p))
             h == T("fact-subject-matches-object", SubjectIsOwner(r, f))
             k == T("fact-references-known-targets",
                    ReferencesResolve(f, SafeIds(d.objects), SafeIds(d.items), SafeIds(d.obligations)))
  <1>1. Range(FactJudgements(d, r, i)) =
            IF ~PlainFact(f) THEN {a} ELSE IF ~HasSchema(f) THEN {b} ELSE IF ~RightArity(f) THEN {a}
            ELSE {c, g, h, k}
    BY FactTold DEF Told
  <1>2. a.status = "Fail" /\ b.status = "Unknown" /\ a.span = r.span /\ b.span = r.span /\ c.span = r.span
    BY DEF Judgement
  <1>3. (g.status \notin {"Fail", "Unknown"} => \A p \in DOMAIN f.args : SafeArgument(f, p)) /\ g.span = r.span
    BY DEF Test, Judgement
  <1>4. (h.status \notin {"Fail", "Unknown"} => SubjectIsOwner(r, f)) /\ h.span = r.span
    BY DEF Test, Judgement
  <1>5. k.span = r.span
    BY DEF Test, Judgement
  <1> HIDE DEF a, b, c, g, h, k, f
  <1>6. SoundFact(r, f) /\ \A j \in Range(FactJudgements(d, r, i)) : j.span \in {r.span}
    BY <1>1, <1>2, <1>3, <1>4, <1>5 DEF Passed, SoundFact
  <1>7. QED BY <1>6 DEF f

\* The judgements of facts, all passed.
LEMMA FactsEarned ==
    ASSUME NEW d, NEW e, Passed(FactSet(d))
    PROVE  Grounds(d, e, FactSet(d)) /\ FactsSound(d)
  <1>1. ASSUME NEW n \in Carrying(d.objects), NEW r, r = d.objects[n], NEW i \in DOMAIN r.facts
        PROVE  /\ SoundFact(r, r.facts[i])
               /\ \A j \in Range(FactJudgements(d, r, i)) : TargetIn(d, e, j.target) /\ SpanIn(d, e, j.span)
    <2>1. r \in Range(d.objects) /\ r \in Asking(d.objects) /\ r.typed
      BY <1>1 DEF Range, Carrying, Asking
    <2>2. Passed(Range(FactJudgements(d, r, i)))
      BY <1>1 DEF FactSet, AllOf, Passed
    <2>3. SoundFact(r, r.facts[i]) /\ \A j \in Range(FactJudgements(d, r, i)) : j.span \in {r.span}
      BY <2>2, SoundFactJudged
    <2>4. FactTells(FactJudgements(d, r, i), FactTarget(r, i))
      BY FactGroup
    <2>5. \A j \in Range(FactJudgements(d, r, i)) : TargetIn(d, e, j.target)
      BY <1>1, <2>1, <2>3, <2>4 DEF TargetIn, FactTells, SoundFact
    <2>6. \A j \in Range(FactJudgements(d, r, i)) : SpanIn(d, e, j.span)
      BY <2>1, <2>3 DEF SpanIn
    <2>7. QED BY <2>3, <2>5, <2>6
  <1>2. Grounds(d, e, FactSet(d))
    <2> SUFFICES ASSUME NEW j \in FactSet(d) PROVE TargetIn(d, e, j.target) /\ SpanIn(d, e, j.span)
      BY DEF Grounds
    <2>1. PICK n \in Carrying(d.objects) :
            j \in AllOf([i \in DOMAIN d.objects[n].facts |-> FactJudgements(d, d.objects[n], i)])
      BY DEF FactSet
    <2>2. PICK i \in DOMAIN d.objects[n].facts : j \in Range(FactJudgements(d, d.objects[n], i))
      BY <2>1 DEF AllOf
    <2>3. QED BY <1>1, <2>2
  <1>3. FactsSound(d)
    <2>1. \A obj \in Asking(d.objects) : \E n \in Carrying(d.objects) : obj = d.objects[n]
      BY DEF Asking, Carrying, Range
    <2>2. QED BY <1>1, <2>1 DEF FactsSound
  <1>4. QED BY <1>2, <1>3

\* The judgement of a document that has none is unknown.
LEMMA PresenceEarned ==
    ASSUME NEW d, NEW e, NEW J, Passed(J), \A j \in J : j.status = "Unknown"
    PROVE  Grounds(d, e, J)
  BY DEF Passed, Grounds

-----------------------------------------------------------------------------
(* What a step of validation adds is accounted for. *)

\* Step by step, in the order validate_document takes them.
LEMMA FilesAccounted ==
    ASSUME NEW d, NEW e, Judging(d, e, 0), Accounted(d, e, 0)
    PROVE  Accounted(ValidatePlainFiles(d), e, 1)
  <1>1. Fit(d) /\ IsLayer(e) /\ FactLists(d.objects) /\ IsList(d.obligations)
    BY DEF Judging, Fit, RecordLists
  <1>2. PICK r, K, p : r = ValidatePlainFiles(d) /\ K = FileSet(d) /\ Adds(d, r, K, 1, 1, p)
    BY <1>1, FilesAdded DEF IsLayer
  <1>3. Earned(d, e, K, 1, 1)
    <2> SUFFICES ASSUME Sound(d, e, 1 - 1), CitesIn(d, e), Passed(K)
                 PROVE  Grounds(d, e, K) /\ \A group \in 1..1 : Part(d, e, group)
      BY DEF Earned
    <2>1. TRUE
      OBVIOUS
    <2>2. Grounds(d, e, K) /\ FilesSound(d)
      BY <1>2, FilesEarned
    <2>3. \A group \in 1..1 : group = 1
      OBVIOUS
    <2>4. QED BY <2>2, <2>3 DEF Part
  <1>4. 1 \in 1..16 /\ 1 \in 1..16 /\ 0 = 1 - 1
    OBVIOUS
  <1>5. Accounted(r, e, 1)
    BY <1>1, <1>2, <1>3, <1>4, AccountedFurther
  <1>6. QED BY <1>2, <1>5

LEMMA SpansAccounted ==
    ASSUME NEW d, NEW e, Judging(d, e, 1), Accounted(d, e, 1)
    PROVE  Accounted(ValidateSourceSpans(d), e, 2)
  <1>1. Fit(d) /\ IsLayer(e) /\ FactLists(d.objects) /\ IsList(d.obligations)
    BY DEF Judging, Fit, RecordLists
  <1>2. PICK r, K, p : r = ValidateSourceSpans(d) /\ K = SpanSet(d) /\ Adds(d, r, K, 2, 2, p)
    BY <1>1, SpansAdded DEF IsLayer
  <1>3. Earned(d, e, K, 2, 2)
    <2> SUFFICES ASSUME Sound(d, e, 2 - 1), CitesIn(d, e), Passed(K)
                 PROVE  Grounds(d, e, K) /\ \A group \in 2..2 : Part(d, e, group)
      BY DEF Earned
    <2>1. TRUE
      OBVIOUS
    <2>2. Grounds(d, e, K) /\ SpansSound(d)
      BY <1>2, SpansEarned
    <2>3. \A group \in 2..2 : group = 2
      OBVIOUS
    <2>4. QED BY <2>2, <2>3 DEF Part
  <1>4. 2 \in 1..16 /\ 2 \in 2..16 /\ 1 = 2 - 1
    OBVIOUS
  <1>5. Accounted(r, e, 2)
    BY <1>1, <1>2, <1>3, <1>4, AccountedFurther
  <1>6. QED BY <1>2, <1>5

LEMMA IdentitiesAccounted ==
    ASSUME NEW d, NEW e, Judging(d, e, 2), Accounted(d, e, 2)
    PROVE  Accounted(ValidateIdentities(d), e, 4)
  <1>1. Fit(d) /\ IsLayer(e) /\ FactLists(d.objects) /\ IsList(d.obligations)
    BY DEF Judging, Fit, RecordLists
  <1>2. PICK r, K, p : r = ValidateIdentities(d) /\ K = IdentitySet(d) /\ Adds(d, r, K, 3, 4, p)
    BY <1>1, IdentitiesAdded DEF IsLayer
  <1>3. Earned(d, e, K, 3, 4)
    <2> SUFFICES ASSUME Sound(d, e, 3 - 1), CitesIn(d, e), Passed(K)
                 PROVE  Grounds(d, e, K) /\ \A group \in 3..4 : Part(d, e, group)
      BY DEF Earned
    <2>1. FilesSound(d) /\ SpansSound(d)
      <3>1. Part(d, e, 1) /\ Part(d, e, 2)
        BY DEF Sound
      <3>2. QED BY <3>1 DEF Part
    <2>2. Grounds(d, e, K) /\ IdsSound(d.files) /\ IdsSound(d.spans)
      BY <1>2, <2>1, IdentitiesEarned
    <2>3. \A group \in 3..4 : group = 3 \/ group = 4
      OBVIOUS
    <2>4. QED BY <2>2, <2>3 DEF Part
  <1>4. 3 \in 1..16 /\ 4 \in 3..16 /\ 2 = 3 - 1
    OBVIOUS
  <1>5. Accounted(r, e, 4)
    BY <1>1, <1>2, <1>3, <1>4, AccountedFurther
  <1>6. QED BY <1>2, <1>5

LEMMA SectionsAccounted ==
    ASSUME NEW d, NEW e, Judging(d, e, 4), Accounted(d, e, 4)
    PROVE  Accounted(ValidateSections(d), e, 5)
  <1>1. Fit(d) /\ IsLayer(e) /\ FactLists(d.objects) /\ IsList(d.obligations)
    BY DEF Judging, Fit, RecordLists
  <1>2. PICK r, K, p : r = ValidateSections(d) /\ K = SectionSet(d) /\ Adds(d, r, K, 5, 5, p)
    BY <1>1, SectionsAdded DEF IsLayer
  <1>3. Earned(d, e, K, 5, 5)
    <2> SUFFICES ASSUME Sound(d, e, 5 - 1), CitesIn(d, e), Passed(K)
                 PROVE  Grounds(d, e, K) /\ \A group \in 5..5 : Part(d, e, group)
      BY DEF Earned
    <2>1. TRUE
      OBVIOUS
    <2>2. Grounds(d, e, K) /\ SectionsSound(d)
      BY <1>2, SectionsEarned
    <2>3. \A group \in 5..5 : group = 5
      OBVIOUS
    <2>4. QED BY <2>2, <2>3 DEF Part
  <1>4. 5 \in 1..16 /\ 5 \in 5..16 /\ 4 = 5 - 1
    OBVIOUS
  <1>5. Accounted(r, e, 5)
    BY <1>1, <1>2, <1>3, <1>4, AccountedFurther
  <1>6. QED BY <1>2, <1>5

LEMMA ItemsAccounted ==
    ASSUME NEW d, NEW e, Judging(d, e, 5), Accounted(d, e, 5)
    PROVE  Accounted(ValidateItems(d), e, 6)
  <1>1. Fit(d) /\ IsLayer(e) /\ FactLists(d.objects) /\ IsList(d.obligations)
    BY DEF Judging, Fit, RecordLists
  <1>2. PICK r, K, p : r = ValidateItems(d) /\ K = ItemSet(d) /\ Adds(d, r, K, 6, 6, p)
    BY <1>1, ItemsAdded DEF IsLayer
  <1>3. Earned(d, e, K, 6, 6)
    <2> SUFFICES ASSUME Sound(d, e, 6 - 1), CitesIn(d, e), Passed(K)
                 PROVE  Grounds(d, e, K) /\ \A group \in 6..6 : Part(d, e, group)
      BY DEF Earned
    <2>1. TRUE
      OBVIOUS
    <2>2. Grounds(d, e, K) /\ ItemsSound(d)
      BY <1>2, ItemsEarned
    <2>3. \A group \in 6..6 : group = 6
      OBVIOUS
    <2>4. QED BY <2>2, <2>3 DEF Part
  <1>4. 6 \in 1..16 /\ 6 \in 6..16 /\ 5 = 6 - 1
    OBVIOUS
  <1>5. Accounted(r, e, 6)
    BY <1>1, <1>2, <1>3, <1>4, AccountedFurther
  <1>6. QED BY <1>2, <1>5

LEMMA ObjectsAccounted ==
    ASSUME NEW d, NEW e, Judging(d, e, 6), Accounted(d, e, 6)
    PROVE  Accounted(ValidateObjects(d), e, 7)
  <1>1. Fit(d) /\ IsLayer(e) /\ FactLists(d.objects) /\ IsList(d.obligations)
    BY DEF Judging, Fit, RecordLists
  <1>2. PICK r, K, p : r = ValidateObjects(d) /\ K = ObjectSet(d) /\ Adds(d, r, K, 7, 7, p)
    BY <1>1, ObjectsAdded DEF IsLayer
  <1>3. Earned(d, e, K, 7, 7)
    <2> SUFFICES ASSUME Sound(d, e, 7 - 1), CitesIn(d, e), Passed(K)
                 PROVE  Grounds(d, e, K) /\ \A group \in 7..7 : Part(d, e, group)
      BY DEF Earned
    <2>1. TRUE
      OBVIOUS
    <2>2. Grounds(d, e, K) /\ ObjectsSound(d)
      BY <1>2, ObjectsEarned
    <2>3. \A group \in 7..7 : group = 7
      OBVIOUS
    <2>4. QED BY <2>2, <2>3 DEF Part
  <1>4. 7 \in 1..16 /\ 7 \in 7..16 /\ 6 = 7 - 1
    OBVIOUS
  <1>5. Accounted(r, e, 7)
    BY <1>1, <1>2, <1>3, <1>4, AccountedFurther
  <1>6. QED BY <1>2, <1>5

LEMMA LayerAccounted ==
    ASSUME NEW d, NEW e, Judging(d, e, 7), Accounted(d, e, 7)
    PROVE  Accounted(ValidateLayerIdentities(d, e.obligations, e.checks), e, 9)
  <1>1. Fit(d) /\ IsLayer(e) /\ FactLists(d.objects) /\ IsList(d.obligations)
    BY DEF Judging, Fit, RecordLists
  <1>2. PICK r, K, p : r = ValidateLayerIdentities(d, e.obligations, e.checks) /\ K = LayerSet(e.obligations, e.checks) /\ Adds(d, r, K, 8, 9, p)
    BY <1>1, LayerAdded DEF IsLayer
  <1>3. Earned(d, e, K, 8, 9)
    <2> SUFFICES ASSUME Sound(d, e, 8 - 1), CitesIn(d, e), Passed(K)
                 PROVE  Grounds(d, e, K) /\ \A group \in 8..9 : Part(d, e, group)
      BY DEF Earned
    <2>1. TRUE
      OBVIOUS
    <2>2. Grounds(d, e, K) /\ LayerSound(e.obligations) /\ LayerSound(e.checks)
      BY <1>2, LayerEarned
    <2>3. \A group \in 8..9 : group = 8 \/ group = 9
      OBVIOUS
    <2>4. QED BY <2>2, <2>3 DEF Part
  <1>4. 8 \in 1..16 /\ 9 \in 8..16 /\ 7 = 8 - 1
    OBVIOUS
  <1>5. Accounted(r, e, 9)
    BY <1>1, <1>2, <1>3, <1>4, AccountedFurther
  <1>6. QED BY <1>2, <1>5

LEMMA QuestionsAccounted ==
    ASSUME NEW d, NEW e, Judging(d, e, 11), Accounted(d, e, 11)
    PROVE  Accounted(ValidateQuestionObjects(d), e, 12)
  <1>1. Fit(d) /\ IsLayer(e) /\ FactLists(d.objects) /\ IsList(d.obligations)
    BY DEF Judging, Fit, RecordLists
  <1>2. PICK r, K, p : r = ValidateQuestionObjects(d) /\ K = QuestionSet(d) /\ Adds(d, r, K, 12, 12, p)
    BY <1>1, QuestionsAdded DEF IsLayer
  <1>3. Earned(d, e, K, 12, 12)
    <2> SUFFICES ASSUME Sound(d, e, 12 - 1), CitesIn(d, e), Passed(K)
                 PROVE  Grounds(d, e, K) /\ \A group \in 12..12 : Part(d, e, group)
      BY DEF Earned
    <2>1. TRUE
      OBVIOUS
    <2>2. Grounds(d, e, K)
      BY <1>2, QuestionsEarned
    <2>3. \A group \in 12..12 : group = 12
      OBVIOUS
    <2>4. QED BY <2>2, <2>3 DEF Part
  <1>4. 12 \in 1..16 /\ 12 \in 12..16 /\ 11 = 12 - 1
    OBVIOUS
  <1>5. Accounted(r, e, 12)
    BY <1>1, <1>2, <1>3, <1>4, AccountedFurther
  <1>6. QED BY <1>2, <1>5

LEMMA ObligationsAccounted ==
    ASSUME NEW d, NEW e, Judging(d, e, 12), Accounted(d, e, 12)
    PROVE  Accounted(ValidateObligationRecords(d, e.obligations), e, 13)
  <1>1. Fit(d) /\ IsLayer(e) /\ FactLists(d.objects) /\ IsList(d.obligations)
    BY DEF Judging, Fit, RecordLists
  <1>2. PICK r, K, p : r = ValidateObligationRecords(d, e.obligations) /\ K = ObligationSet(d, e.obligations) /\ Adds(d, r, K, 13, 13, p)
    BY <1>1, ObligationsAdded DEF IsLayer
  <1>3. Earned(d, e, K, 13, 13)
    <2> SUFFICES ASSUME Sound(d, e, 13 - 1), CitesIn(d, e), Passed(K)
                 PROVE  Grounds(d, e, K) /\ \A group \in 13..13 : Part(d, e, group)
      BY DEF Earned
    <2>1. LayerSound(e.obligations)
      <3>1. Part(d, e, 8)
        BY DEF Sound
      <3>2. QED BY <3>1 DEF Part
    <2>2. Grounds(d, e, K) /\ ObligationsSound(d, e)
      BY <1>2, <2>1, ObligationsEarned DEF CitesIn
    <2>3. \A group \in 13..13 : group = 13
      OBVIOUS
    <2>4. QED BY <2>2, <2>3 DEF Part
  <1>4. 13 \in 1..16 /\ 13 \in 13..16 /\ 12 = 13 - 1
    OBVIOUS
  <1>5. Accounted(r, e, 13)
    BY <1>1, <1>2, <1>3, <1>4, AccountedFurther
  <1>6. QED BY <1>2, <1>5

LEMMA ChecksAccounted ==
    ASSUME NEW d, NEW e, Judging(d, e, 13), Accounted(d, e, 13)
    PROVE  Accounted(ValidateCheckRecords(d, e.checks), e, 14)
  <1>1. Fit(d) /\ IsLayer(e) /\ FactLists(d.objects) /\ IsList(d.obligations)
    BY DEF Judging, Fit, RecordLists
  <1>2. PICK r, K, p : r = ValidateCheckRecords(d, e.checks) /\ K = CheckSet(d, e.checks) /\ Adds(d, r, K, 14, 14, p)
    BY <1>1, ChecksAdded DEF IsLayer
  <1>3. Earned(d, e, K, 14, 14)
    <2> SUFFICES ASSUME Sound(d, e, 14 - 1), CitesIn(d, e), Passed(K)
                 PROVE  Grounds(d, e, K) /\ \A group \in 14..14 : Part(d, e, group)
      BY DEF Earned
    <2>1. LayerSound(e.checks)
      <3>1. Part(d, e, 9)
        BY DEF Sound
      <3>2. QED BY <3>1 DEF Part
    <2>2. Grounds(d, e, K) /\ ChecksSound(d, e)
      BY <1>1, <1>2, <2>1, ChecksEarned
    <2>3. \A group \in 14..14 : group = 14
      OBVIOUS
    <2>4. QED BY <2>2, <2>3 DEF Part
  <1>4. 14 \in 1..16 /\ 14 \in 14..16 /\ 13 = 14 - 1
    OBVIOUS
  <1>5. Accounted(r, e, 14)
    BY <1>1, <1>2, <1>3, <1>4, AccountedFurther
  <1>6. QED BY <1>2, <1>5

LEMMA EdgesAccounted ==
    ASSUME NEW d, NEW e, Judging(d, e, 14), Accounted(d, e, 14)
    PROVE  Accounted(ValidateEdgeProvenance(d), e, 15)
  <1>1. Fit(d) /\ IsLayer(e) /\ FactLists(d.objects) /\ IsList(d.obligations)
    BY DEF Judging, Fit, RecordLists
  <1>2. PICK r, K, p : r = ValidateEdgeProvenance(d) /\ K = EdgeSet(d) /\ Adds(d, r, K, 15, 15, p)
    BY <1>1, EdgesAdded DEF IsLayer
  <1>3. Earned(d, e, K, 15, 15)
    <2> SUFFICES ASSUME Sound(d, e, 15 - 1), CitesIn(d, e), Passed(K)
                 PROVE  Grounds(d, e, K) /\ \A group \in 15..15 : Part(d, e, group)
      BY DEF Earned
    <2>1. TRUE
      OBVIOUS
    <2>2. Grounds(d, e, K)
      BY <1>2, EdgesEarned
    <2>3. \A group \in 15..15 : group = 15
      OBVIOUS
    <2>4. QED BY <2>2, <2>3 DEF Part
  <1>4. 15 \in 1..16 /\ 15 \in 15..16 /\ 14 = 15 - 1
    OBVIOUS
  <1>5. Accounted(r, e, 15)
    BY <1>1, <1>2, <1>3, <1>4, AccountedFurther
  <1>6. QED BY <1>2, <1>5

LEMMA LevelsJudgedAccounted ==
    ASSUME NEW d, NEW e, Judging(d, e, 9), Accounted(d, e, 9)
    PROVE  Accounted(LevelsJudged(d), e, 10)
  <1>1. Fit(d) /\ IsLayer(e) /\ FactLists(d.objects) /\ IsList(d.obligations)
    BY DEF Judging, Fit, RecordLists
  <1>2. PICK r, K, p : r = LevelsJudged(d) /\ K = LevelSet(d) /\ Adds(d, r, K, 10, 10, p)
    BY <1>1, LevelsAdded DEF LevelsJudged
  <1>3. Earned(d, e, K, 10, 10)
    <2> SUFFICES ASSUME Sound(d, e, 10 - 1), CitesIn(d, e), Passed(K)
                 PROVE  Grounds(d, e, K) /\ \A group \in 10..10 : Part(d, e, group)
      BY DEF Earned
    <2>1. TRUE
      OBVIOUS
    <2>2. Grounds(d, e, K) /\ LevelsSound(d)
      BY <1>2, LevelsEarned
    <2>3. \A group \in 10..10 : group = 10
      OBVIOUS
    <2>4. QED BY <2>2, <2>3 DEF Part
  <1>4. 10 \in 1..16 /\ 10 \in 10..16 /\ 9 = 10 - 1
    OBVIOUS
  <1>5. Accounted(r, e, 10)
    BY <1>1, <1>2, <1>3, <1>4, AccountedFurther
  <1>6. QED BY <1>2, <1>5

LEMMA FactsJudgedAccounted ==
    ASSUME NEW d, NEW e, Judging(d, e, 10), Accounted(d, e, 10)
    PROVE  Accounted(FactsJudged(d), e, 11)
  <1>1. Fit(d) /\ IsLayer(e) /\ FactLists(d.objects) /\ IsList(d.obligations)
    BY DEF Judging, Fit, RecordLists
  <1>2. PICK r, K, p : r = FactsJudged(d) /\ K = FactSet(d) /\ Adds(d, r, K, 11, 11, p)
    BY <1>1, FactsAdded DEF FactsJudged
  <1>3. Earned(d, e, K, 11, 11)
    <2> SUFFICES ASSUME Sound(d, e, 11 - 1), CitesIn(d, e), Passed(K)
                 PROVE  Grounds(d, e, K) /\ \A group \in 11..11 : Part(d, e, group)
      BY DEF Earned
    <2>1. TRUE
      OBVIOUS
    <2>2. Grounds(d, e, K) /\ FactsSound(d)
      BY <1>2, FactsEarned
    <2>3. \A group \in 11..11 : group = 11
      OBVIOUS
    <2>4. QED BY <2>2, <2>3 DEF Part
  <1>4. 11 \in 1..16 /\ 11 \in 11..16 /\ 10 = 11 - 1
    OBVIOUS
  <1>5. Accounted(r, e, 11)
    BY <1>1, <1>2, <1>3, <1>4, AccountedFurther
  <1>6. QED BY <1>2, <1>5

LEMMA PresenceAccounted ==
    ASSUME NEW d, NEW e, Judging(d, e, 15), Accounted(d, e, 15)
    PROVE  Accounted(ValidatePresence(d), e, 16)
  <1>1. Fit(d) /\ IsLayer(e) /\ FactLists(d.objects) /\ IsList(d.obligations)
    BY DEF Judging, Fit, RecordLists
  <1>2. PICK r, K, p : r = ValidatePresence(d) /\ Adds(d, r, K, 16, 16, p)
                   /\ \A j \in K : j.status = "Unknown"
    BY <1>1, PresenceAdded DEF IsLayer
  <1>3. Earned(d, e, K, 16, 16)
    <2> SUFFICES ASSUME Sound(d, e, 16 - 1), CitesIn(d, e), Passed(K)
                 PROVE  Grounds(d, e, K) /\ \A group \in 16..16 : Part(d, e, group)
      BY DEF Earned
    <2>1. TRUE
      OBVIOUS
    <2>2. Grounds(d, e, K)
      BY <1>2, PresenceEarned
    <2>3. \A group \in 16..16 : group = 16
      OBVIOUS
    <2>4. QED BY <2>2, <2>3 DEF Part
  <1>4. 16 \in 1..16 /\ 16 \in 16..16 /\ 15 = 16 - 1
    OBVIOUS
  <1>5. Accounted(r, e, 16)
    BY <1>1, <1>2, <1>3, <1>4, AccountedFurther
  <1>6. QED BY <1>2, <1>5

\* Nothing is asked of a document in which nothing was found.
LEMMA NothingAsked ==
    ASSUME NEW r, IsDocument(r), IsList(r.objects), NEW e, NEW n, Accounted(r, e, n),
           NEW fresh, Clean(r, e) => fresh = <<>>
    PROVE  Accounted(AddObjects(r, fresh), e, n)
  <1>1. PICK v : v = AddObjects(r, fresh)
    OBVIOUS
  <1>2. /\ v.spans = r.spans /\ v.obligations = r.obligations /\ v.checks = r.checks
        /\ v.obligationIds = r.obligationIds /\ v.checkIds = r.checkIds
    BY <1>1 DEF AddObjects, IsDocument
  <1>3. fresh = <<>> => v = r
    <2>1. r.objects \o <<>> = r.objects
      BY DEF IsList
    <2>2. QED BY <1>1, <2>1 DEF AddObjects, IsDocument
  <1>4. Clean(v, e) <=> Clean(r, e)
    BY <1>2 DEF Clean, AnswersIn
  <1>5. \A os, cs : LayeredBy(r, e, os, cs) => LayeredBy(v, e, os, cs)
    BY <1>2 DEF LayeredBy
  <1>6. Given(v, e)
    BY <1>2 DEF Accounted, Given
  <1>7. Accounted(v, e, n)
    BY <1>3, <1>4, <1>5, <1>6 DEF Accounted
  <1>8. QED BY <1>1, <1>7

LEMMA LevelsAccounted ==
    ASSUME NEW d, NEW e, Judging(d, e, 9), Accounted(d, e, 9)
    PROVE  Accounted(ValidateReifiedLevels(d), e, 10)
  <1>1. Fit(d) /\ IsList(d.objects)
    BY DEF Judging, Fit, RecordLists
  <1>2. PICK r : r = LevelsJudged(d)
    OBVIOUS
  <1>3. IsDocument(r) /\ r.objects = d.objects
    <2>1. Adds(d, r, LevelSet(d), 10, 10, CarriedOnce(d.objects))
      BY <1>1, <1>2, LevelsAdded DEF LevelsJudged
    <2>2. QED BY <2>1 DEF Adds, Extended
  <1>4. Accounted(r, e, 10)
    BY <1>2, LevelsJudgedAccounted
  <1>5. PICK fresh : ValidateReifiedLevels(d) = AddObjects(r, fresh) /\ AsksEach(fresh, d, LevelQuestions(d.objects))
    BY <1>1, <1>2, LevelsAsked
  <1>6. ASSUME Clean(r, e)
        PROVE  fresh = <<>>
    <2>1. Part(r, e, 10)
      BY <1>4, <1>6 DEF Accounted, Sound
    <2>2. LevelQuestions(d.objects) = {}
      BY <1>3, <2>1 DEF Part, LevelsSound, LevelQuestions
    <2>3. IsList(fresh) /\ Range(fresh) = {}
      BY <1>5, <2>2 DEF AsksEach
    <2>4. QED BY <2>3 DEF IsList, Range
  <1>7. Accounted(AddObjects(r, fresh), e, 10)
    BY <1>1, <1>3, <1>4, <1>6, NothingAsked
  <1>8. QED BY <1>5, <1>7

LEMMA FactsAccounted ==
    ASSUME NEW d, NEW e, Judging(d, e, 10), Accounted(d, e, 10)
    PROVE  Accounted(ValidateObjectFacts(d), e, 11)
  <1>1. Fit(d) /\ IsList(d.objects) /\ FactLists(d.objects)
    BY DEF Judging, Fit, RecordLists
  <1>2. PICK r : r = FactsJudged(d)
    OBVIOUS
  <1>3. IsDocument(r) /\ r.objects = d.objects
    <2>1. Adds(d, r, FactSet(d), 11, 11, CarriedOnce(d.objects))
      BY <1>1, <1>2, FactsAdded DEF FactsJudged
    <2>2. QED BY <2>1 DEF Adds, Extended
  <1>4. Accounted(r, e, 11)
    BY <1>2, FactsJudgedAccounted
  <1>5. PICK fresh : ValidateObjectFacts(d) = AddObjects(r, fresh) /\ AsksEach(fresh, d, FactQuestions(d.objects))
    BY <1>1, <1>2, FactsAsked
  <1>6. ASSUME Clean(r, e)
        PROVE  fresh = <<>>
    <2>1. Part(r, e, 11)
      BY <1>4, <1>6 DEF Accounted, Sound
    <2>2. \A obj \in Asking(d.objects) : Schemaless(obj) = {}
      BY <1>3, <2>1 DEF Part, FactsSound, SoundFact, Schemaless
    <2>3. FactQuestions(d.objects) = {}
      BY <2>2 DEF FactQuestions
    <2>4. IsList(fresh) /\ Range(fresh) = {}
      BY <1>5, <2>3 DEF AsksEach
    <2>5. QED BY <2>4 DEF IsList, Range
  <1>7. Accounted(AddObjects(r, fresh), e, 11)
    BY <1>1, <1>3, <1>4, <1>6, NothingAsked
  <1>8. QED BY <1>5, <1>7

\* Nothing has been added when validation begins.
LEMMA AccountedBegins ==
    ASSUME NEW d \in Inputs, NEW e, e.obligations = d.obligations, e.checks = d.checks
    PROVE  Accounted(d, e, 0)
  <1>1. Given(d, e)
    BY InputsAssumption DEF Given
  <1>2. IsList(d.obligations) /\ IsList(d.checks)
    BY InputsAreLists DEF RecordLists
  <1>3. d.obligationIds = {} /\ d.checkIds = {}
    <2>1. d = Document(d.files, d.spans, d.sections, d.items, d.objects, d.obligations, d.checks)
      BY InputsAssumption
    <2>2. QED BY <2>1 DEF Document
  <1>4. IsList(<<>>) /\ Range(<<>>) = {} /\ Once(<<>>, {}, {})
    BY DEF IsList, Range, Once
  <1>5. d.obligations \o <<>> = d.obligations /\ d.checks \o <<>> = d.checks
    BY <1>2 DEF IsList
  <1>6. LayeredBy(d, e, <<>>, <<>>)
    BY <1>3, <1>4, <1>5 DEF LayeredBy
  <1>7. GroundedBy(d, e, <<>>, <<>>) /\ Sound(d, e, 0)
    BY <1>4 DEF GroundedBy, Sound
  <1>8. QED BY <1>1, <1>6, <1>7 DEF Accounted

\* What validation added so far is accounted for.
AccountedInv ==
    /\ stage = "received" => ~entry.validated
    /\ entry.validated /\ stage # "raised" => Accounted(doc, entry, Progress(stage))

\* Every step of validation keeps the account.
LEMMA ValidationAccounts ==
    ASSUME ValidationInv, AccountedInv, ValidateStep
    PROVE  AccountedInv'
  <1>1. stage' # "received" /\ stage # "raised" /\ entry' = entry /\ entry.validated
    BY DEF ValidateStep, Validate, ValidationInv, Validating
  <1> SUFFICES Accounted(doc', entry, Progress(stage'))
    BY <1>1 DEF AccountedInv
  <1>2. Judging(doc, entry, Progress(stage)) /\ Accounted(doc, entry, Progress(stage))
    BY <1>1 DEF ValidationInv, AccountedInv
  <1>3. CASE Validate("files", "spans", ValidatePlainFiles(doc))
    BY <1>2, <1>3, FilesAccounted DEF Validate, Progress
  <1>4. CASE Validate("spans", "identities", ValidateSourceSpans(doc))
    BY <1>2, <1>4, SpansAccounted DEF Validate, Progress
  <1>5. CASE Validate("identities", "sections", ValidateIdentities(doc))
    BY <1>2, <1>5, IdentitiesAccounted DEF Validate, Progress
  <1>6. CASE Validate("sections", "items", ValidateSections(doc))
    BY <1>2, <1>6, SectionsAccounted DEF Validate, Progress
  <1>7. CASE Validate("items", "objects", ValidateItems(doc))
    BY <1>2, <1>7, ItemsAccounted DEF Validate, Progress
  <1>8. CASE Validate("objects", "layer", ValidateObjects(doc))
    BY <1>2, <1>8, ObjectsAccounted DEF Validate, Progress
  <1>9. CASE Validate("layer", "levels", ValidateLayerIdentities(doc, entry.obligations, entry.checks))
    BY <1>2, <1>9, LayerAccounted DEF Validate, Progress
  <1>10. CASE Validate("levels", "facts", ValidateReifiedLevels(doc))
    BY <1>2, <1>10, LevelsAccounted DEF Validate, Progress
  <1>11. CASE Validate("facts", "questions", ValidateObjectFacts(doc))
    BY <1>2, <1>11, FactsAccounted DEF Validate, Progress
  <1>12. CASE Validate("questions", "obligations", ValidateQuestionObjects(doc))
    BY <1>2, <1>12, QuestionsAccounted DEF Validate, Progress
  <1>13. CASE Validate("obligations", "checks", ValidateObligationRecords(doc, entry.obligations))
    BY <1>2, <1>13, ObligationsAccounted DEF Validate, Progress
  <1>14. CASE Validate("checks", "edges", ValidateCheckRecords(doc, entry.checks))
    BY <1>2, <1>14, ChecksAccounted DEF Validate, Progress
  <1>15. CASE Validate("edges", "presence", ValidateEdgeProvenance(doc))
    BY <1>2, <1>15, EdgesAccounted DEF Validate, Progress
  <1>16. CASE Validate("presence", "validated", ValidatePresence(doc))
    BY <1>2, <1>16, PresenceAccounted DEF Validate, Progress
  <1>17. QED BY <1>3, <1>4, <1>5, <1>6, <1>7, <1>8, <1>9, <1>10, <1>11, <1>12, <1>13, <1>14, <1>15, <1>16
             DEF ValidateStep

\* The account is kept whatever happens to the document.
LEMMA AccountedInvariant == Spec => []AccountedInv
  <1>1. Init => AccountedInv
    BY DEF Init, AccountedInv
  <1>2. ValidationInv /\ AccountedInv /\ [Next]_vars => AccountedInv'
    <2> SUFFICES ASSUME ValidationInv, AccountedInv, [Next]_vars
                 PROVE  AccountedInv'
      OBVIOUS
    <2>1. CASE BeginValidation
      <3>1. doc \in Inputs /\ entry'.obligations = doc.obligations /\ entry'.checks = doc.checks
            /\ doc' = doc /\ stage' = "files"
        BY <2>1 DEF BeginValidation, ValidationInv
      <3>2. Accounted(doc, entry', 0)
        BY <3>1, AccountedBegins
      <3>3. QED BY <3>1, <3>2 DEF AccountedInv, Progress
    <2>2. CASE ValidateStep
      BY <2>2, ValidationAccounts
    <2>3. CASE Raise
      BY <2>3 DEF Raise, AccountedInv
    <2>4. CASE BeginEmission \/ EmitStep
      <3>1. /\ UNCHANGED <<doc, entry>> /\ stage' # "received" /\ stage # "raised"
            /\ Progress(stage') = 16 /\ (stage = "received" \/ Progress(stage) = 16)
        BY <2>4 DEF BeginEmission, EmitStep, Emit, ParentRound, Progress
      <3>2. QED BY <3>1 DEF AccountedInv
    <2>5. CASE Done \/ UNCHANGED vars
      BY <2>5 DEF Done, vars, AccountedInv
    <2>6. QED BY <2>1, <2>2, <2>3, <2>4, <2>5 DEF Next
  <1>3. QED BY <1>1, <1>2, ValidationInvariant, PTL DEF Spec

-----------------------------------------------------------------------------
(* Why a record was refused. *)

\* The refusal r of the document d gives a reason, when w is what was written:
\* an item has none when it is in a set of candidates that can be kept together.
Refused(d, w, r) ==
    \/ r[1] = "files" /\ r[2] \in DOMAIN d.files /\ PlainFileReason(d, d.files[r[2]]) # "none"
    \/ r[1] = "spans" /\ r[2] \in DOMAIN d.spans /\ SpanReason(d, w.files, d.spans[r[2]]) # "none"
    \/ r[1] = "sections" /\ r[2] \in DOMAIN d.sections /\ SectionReason(d, w, d.sections[r[2]]) # "none"
    \/ r[1] = "items" /\ r[2] \in DOMAIN d.items /\ \A S \in ClosedSets(d, w) : d.items[r[2]] \notin S
    \/ r[1] = "objects" /\ r[2] \in DOMAIN d.objects /\ ObjectReason(d, w, d.objects[r[2]]) # "none"
    \/ /\ r[1] = "facts" /\ r[2] \in DOMAIN d.objects /\ ObjectReason(d, w, d.objects[r[2]]) = "none"
       /\ r[3] \in DOMAIN d.objects[r[2]].facts
       /\ ProfileFactReason(d.objects[r[2]], d.objects[r[2]].facts[r[3]]) # "none"
    \/ /\ r[1] = "obligations" /\ r[2] \in DOMAIN d.obligations
       /\ ObligationReason(d, w, d.obligations[r[2]]) # "none"
    \/ r[1] = "checks" /\ r[2] \in DOMAIN d.checks /\ CheckReason(d, w, d.checks[r[2]]) # "none"

\* The lists that have been gone through, so that records of them may have been
\* refused.
Refusable(s) ==
    IF s = "emit-spans" THEN {"files"}
    ELSE IF s = "emit-sections" THEN {"files", "spans"}
    ELSE IF s = "emit-items" THEN {"files", "spans", "sections"}
    ELSE IF s \in {"emit-parents", "emit-objects"} THEN {"files", "spans", "sections", "items"}
    ELSE IF s = "emit-obligations" THEN {"files", "spans", "sections", "items", "objects", "facts"}
    ELSE IF s = "emit-checks" THEN {"files", "spans", "sections", "items", "objects", "facts", "obligations"}
    ELSE IF s = "emitted" THEN
        {"files", "spans", "sections", "items", "objects", "facts", "obligations", "checks"}
    ELSE {}

RefusalsInv == \A r \in out.refusals : r[1] \in Refusable(stage) /\ Refused(doc, out, r)

\* A reason stands while the lists it rests on do.
LEMMA RefusedStill ==
    ASSUME NEW d, NEW v, NEW w, NEW r, Refused(d, w, r),
           r[1] \in {"spans", "sections", "items"} => v.files = w.files,
           r[1] \in {"sections", "items", "objects", "facts", "obligations"} => v.spans = w.spans,
           r[1] = "items" => v.sections = w.sections,
           r[1] = "obligations" => v.objects = w.objects,
           r[1] = "checks" => v.obligations = w.obligations
    PROVE  Refused(d, v, r)
  <1>1. v.files = w.files /\ v.spans = w.spans => \A s : SectionReason(d, v, s) = SectionReason(d, w, s)
    BY DEF SectionReason
  <1>2. v.files = w.files /\ v.spans = w.spans /\ v.sections = w.sections => ClosedSets(d, v) = ClosedSets(d, w)
    <2>1. v.files = w.files /\ v.spans = w.spans /\ v.sections = w.sections => Candidates(d, v) = Candidates(d, w)
      BY WrittenRestsOnEarlier
    <2>2. QED BY <2>1 DEF ClosedSets
  <1>3. v.spans = w.spans => \A obj : ObjectReason(d, v, obj) = ObjectReason(d, w, obj)
    BY DEF ObjectReason
  <1>4. v.spans = w.spans /\ v.objects = w.objects => \A o : ObligationReason(d, v, o) = ObligationReason(d, w, o)
    BY DEF ObligationReason
  <1>5. v.obligations = w.obligations => \A c : CheckReason(d, v, c) = CheckReason(d, w, c)
    BY DEF CheckReason
  <1>6. QED BY <1>1, <1>2, <1>3, <1>4, <1>5 DEF Refused

\* What each step of emission refuses, it refuses for a reason.
LEMMA FilesRefused ==
    ASSUME NEW d, NEW w, IsOutput(w), NEW r \in EmitFiles(d, w).refusals
    PROVE  r \in w.refusals \/ (r[1] = "files" /\ Refused(d, w, r))
  BY DEF EmitFiles, Admit, IsOutput, Outputs, Refused

LEMMA SpansRefused ==
    ASSUME NEW d, NEW w, IsOutput(w), NEW r \in EmitSpans(d, w).refusals
    PROVE  r \in w.refusals \/ (r[1] = "spans" /\ Refused(d, w, r))
  BY DEF EmitSpans, Admit, IsOutput, Outputs, Refused

LEMMA SectionsRefused ==
    ASSUME NEW d, NEW w, IsOutput(w), NEW r \in EmitSections(d, w).refusals
    PROVE  r \in w.refusals \/ (r[1] = "sections" /\ Refused(d, w, r))
  BY DEF EmitSections, Admit, IsOutput, Outputs, Refused

LEMMA ObligationsRefused ==
    ASSUME NEW d, NEW w, IsOutput(w), NEW r \in EmitObligations(d, w).refusals
    PROVE  r \in w.refusals \/ (r[1] = "obligations" /\ Refused(d, w, r))
  BY DEF EmitObligations, Admit, IsOutput, Outputs, Refused

LEMMA ChecksRefused ==
    ASSUME NEW d, NEW w, IsOutput(w), NEW r \in EmitChecks(d, w).refusals
    PROVE  r \in w.refusals \/ (r[1] = "checks" /\ Refused(d, w, r))
  BY DEF EmitChecks, Admit, IsOutput, Outputs, Refused

\* An item is refused at first when it is no candidate.
LEMMA ItemsRefused ==
    ASSUME NEW d, NEW w, IsOutput(w), NEW r \in CandidateItems(d, w).refusals
    PROVE  r \in w.refusals \/ (r[1] = "items" /\ Refused(d, w, r))
  <1>1. \A i \in DOMAIN d.items : ItemReason(d, w, d.items[i]) # "none" =>
            \A S \in ClosedSets(d, w) : d.items[i] \notin S
    BY DEF ClosedSets, Candidates
  <1>2. r \in w.refusals \/ (r[1] = "items" /\ r[2] \in DOMAIN d.items /\ ItemReason(d, w, d.items[r[2]]) # "none")
    BY DEF CandidateItems, Admit, IsOutput, Outputs
  <1>3. QED BY <1>1, <1>2 DEF Refused

\* An item is refused by a round when no set of candidates keeps it.
LEMMA ParentsRefused ==
    ASSUME NEW d, NEW w, IsOutput(w), ParentsInv(d, w), NEW r \in RefuseParents(d, w).refusals
    PROVE  r \in w.refusals \/ (r[1] = "items" /\ Refused(d, w, r))
  <1>1. \A i \in ParentRefusals(d, w) : \A S \in ClosedSets(d, w) : d.items[i] \notin S
    BY RoundKeepsClosedSets DEF ParentsInv
  <1>2. r \in w.refusals \/ (r[1] = "items" /\ r[2] \in ParentRefusals(d, w))
    BY DEF RefuseParents, IsOutput, Outputs
  <1>3. ParentRefusals(d, w) \subseteq DOMAIN d.items
    BY DEF ParentRefusals
  <1>4. QED BY <1>1, <1>2, <1>3 DEF Refused

\* Of the objects that are written, facts may be refused.
LEMMA ObjectsRefused ==
    ASSUME NEW d, NEW w, IsOutput(w), NEW r \in EmitObjects(d, w).refusals
    PROVE  r \in w.refusals \/ (r[1] \in {"objects", "facts"} /\ Refused(d, w, r))
  <1> DEFINE carried == {i \in DOMAIN d.objects : ObjectReason(d, w, d.objects[i]) = "none"}
             facts == UNION {{<<i, k>> : k \in DOMAIN d.objects[i].facts} : i \in carried}
             Reason(at) == ProfileFactReason(d.objects[at[1]], d.objects[at[1]].facts[at[2]])
             admitted == Admit(w, "objects", d.objects, LAMBDA obj : ObjectReason(d, w, obj))
  <1>1. \A at \in facts : at[1] \in carried /\ at[2] \in DOMAIN d.objects[at[1]].facts
    OBVIOUS
  <1>2. /\ IsOutput(admitted)
        /\ admitted.refusals = w.refusals \cup {<<"objects", i, 0, ObjectReason(d, w, d.objects[i])>> :
                                                 i \in {i \in DOMAIN d.objects : ObjectReason(d, w, d.objects[i]) # "none"}}
    BY DEF Admit, IsOutput, Outputs
  <1>6. \A x \in admitted.refusals : x \in w.refusals \/ (x[1] = "objects" /\ Refused(d, w, x))
    <2> HIDE DEF admitted
    <2>1. QED BY <1>2 DEF Refused
  <1>3. EmitObjects(d, w).refusals = admitted.refusals \cup
            {<<"facts", at[1], at[2], Reason(at)>> : at \in {at \in facts : Reason(at) # "none"}}
    BY <1>2 DEF EmitObjects, IsOutput, Outputs
  <1>4. \A x \in {<<"facts", at[1], at[2], Reason(at)>> : at \in {at \in facts : Reason(at) # "none"}} :
            x[1] = "facts" /\ Refused(d, w, x)
    <2> SUFFICES ASSUME NEW at \in facts, Reason(at) # "none", NEW y, y = Reason(at)
                 PROVE  Refused(d, w, <<"facts", at[1], at[2], y>>)
      OBVIOUS
    <2>1. at[1] \in carried /\ at[2] \in DOMAIN d.objects[at[1]].facts
      BY <1>1
    <2>2. QED BY <2>1 DEF Refused
  <1> HIDE DEF admitted, facts, carried, Reason
  <1>5. QED BY <1>3, <1>4, <1>6

\* One step of emission: the refusals there were stand, and the new ones give
\* their reasons.
LEMMA RefusalsStand ==
    ASSUME NEW d, NEW v, NEW w, NEW old, NEW new,
           \A r \in w.refusals : r[1] \in old /\ Refused(d, w, r),
           \A r \in v.refusals : r \in w.refusals \/ (r[1] \in new /\ Refused(d, w, r)),
           \A r : r[1] \in old \cup new =>
               /\ r[1] \in {"spans", "sections", "items"} => v.files = w.files
               /\ r[1] \in {"sections", "items", "objects", "facts", "obligations"} => v.spans = w.spans
               /\ r[1] = "items" => v.sections = w.sections
               /\ r[1] = "obligations" => v.objects = w.objects
               /\ r[1] = "checks" => v.obligations = w.obligations
    PROVE  \A r \in v.refusals : r[1] \in old \cup new /\ Refused(d, v, r)
  <1> SUFFICES ASSUME NEW r \in v.refusals
               PROVE  r[1] \in old \cup new /\ Refused(d, v, r)
    OBVIOUS
  <1>1. r[1] \in old \cup new /\ Refused(d, w, r)
    OBVIOUS
  <1>2. /\ r[1] \in {"spans", "sections", "items"} => v.files = w.files
        /\ r[1] \in {"sections", "items", "objects", "facts", "obligations"} => v.spans = w.spans
        /\ r[1] = "items" => v.sections = w.sections
        /\ r[1] = "obligations" => v.objects = w.objects
        /\ r[1] = "checks" => v.obligations = w.obligations
    BY <1>1
  <1>3. QED BY <1>1, <1>2, RefusedStill

\* Every step of emission keeps the reasons.
LEMMA EmissionRefuses ==
    ASSUME EmissionInv, RefusalsInv, EmitStep
    PROVE  RefusalsInv'
  <1> USE DEF RefusalsInv
  <1>0. IsOutput(out) /\ doc' = doc
    BY DEF EmissionInv, EmitStep, Emit, ParentRound
  <1>1. CASE Emit("emit-files", "emit-spans", EmitFiles(doc, out))
    <2>1. out' = EmitFiles(doc, out) /\ Refusable(stage) = {} /\ Refusable(stage') = {"files"}
      BY <1>1 DEF Emit, Refusable
    <2>2. \A r \in out'.refusals : r \in out.refusals \/ (r[1] \in {"files"} /\ Refused(doc, out, r))
      BY <1>0, <2>1, FilesRefused
    <2>3. \A r \in out'.refusals : r[1] = "files" /\ Refused(doc, out, r)
      BY <2>1, <2>2
    <2>5. \A r \in out'.refusals : Refused(doc, out', r)
      BY <2>3, RefusedStill
    <2>4. QED BY <1>0, <2>1, <2>3, <2>5
  <1>2. CASE Emit("emit-spans", "emit-sections", EmitSpans(doc, out))
    <2>1. out' = EmitSpans(doc, out) /\ Refusable(stage) = {"files"} /\ Refusable(stage') = {"files", "spans"}
      BY <1>2 DEF Emit, Refusable
    <2>2. \A r \in out'.refusals : r \in out.refusals \/ (r[1] \in {"spans"} /\ Refused(doc, out, r))
      BY <1>0, <2>1, SpansRefused
    <2>3. out'.files = out.files
      BY <1>0, <2>1, SpansAreWritten DEF Leaves, Outputs
    <2>4. \A r \in out'.refusals : r[1] \in {"files"} \cup {"spans"} /\ Refused(doc, out', r)
      BY <2>1, <2>2, <2>3, RefusalsStand
    <2>5. QED BY <1>0, <2>1, <2>4
  <1>3. CASE Emit("emit-sections", "emit-items", EmitSections(doc, out))
    <2> DEFINE old == {"files", "spans"}
    <2>1. out' = EmitSections(doc, out) /\ Refusable(stage) = old /\ Refusable(stage') = old \cup {"sections"}
      BY <1>3 DEF Emit, Refusable
    <2>2. \A r \in out'.refusals : r \in out.refusals \/ (r[1] \in {"sections"} /\ Refused(doc, out, r))
      BY <1>0, <2>1, SectionsRefused
    <2>3. out'.files = out.files /\ out'.spans = out.spans
      BY <1>0, <2>1, SectionsAreWritten DEF Leaves, Outputs
    <2>4. \A r \in out'.refusals : r[1] \in old \cup {"sections"} /\ Refused(doc, out', r)
      BY <2>1, <2>2, <2>3, RefusalsStand
    <2>5. QED BY <1>0, <2>1, <2>4
  <1>4. CASE Emit("emit-items", "emit-parents", CandidateItems(doc, out))
    <2> DEFINE old == {"files", "spans", "sections"}
    <2>1. out' = CandidateItems(doc, out) /\ Refusable(stage) = old /\ Refusable(stage') = old \cup {"items"}
      BY <1>4 DEF Emit, Refusable
    <2>2. \A r \in out'.refusals : r \in out.refusals \/ (r[1] \in {"items"} /\ Refused(doc, out, r))
      BY <1>0, <2>1, ItemsRefused
    <2>3. out'.files = out.files /\ out'.spans = out.spans /\ out'.sections = out.sections
      BY <1>0, <2>1, CandidatesAreWritten DEF Leaves, Outputs
    <2>4. \A r \in out'.refusals : r[1] \in old \cup {"items"} /\ Refused(doc, out', r)
      BY <2>1, <2>2, <2>3, RefusalsStand
    <2>5. QED BY <1>0, <2>1, <2>4
  <1>5. CASE ParentRound /\ ParentRefusals(doc, out) # {}
    <2> DEFINE old == {"files", "spans", "sections", "items"}
    <2>1. /\ stage = "emit-parents" /\ out' = RefuseParents(doc, out)
          /\ Refusable(stage) = old /\ Refusable(stage') = old
      BY <1>5 DEF ParentRound, Emit, Refusable
    <2>2. ParentsInv(doc, out)
      BY <2>1 DEF EmissionInv
    <2>3. \A r \in out'.refusals : r \in out.refusals \/ (r[1] \in {"items"} /\ Refused(doc, out, r))
      BY <1>0, <2>1, <2>2, ParentsRefused
    <2>4. out'.files = out.files /\ out'.spans = out.spans /\ out'.sections = out.sections
      BY <1>0, <2>1, RoundIsWritten DEF Leaves, Outputs
    <2>5. \A r \in out'.refusals : r[1] \in old \cup {"items"} /\ Refused(doc, out', r)
      BY <2>1, <2>3, <2>4, RefusalsStand
    <2>6. QED BY <1>0, <2>1, <2>5
  <1>6. CASE ParentRound /\ ParentRefusals(doc, out) = {}
    <2>1. out' = out /\ Refusable(stage') = Refusable(stage)
      BY <1>6 DEF ParentRound, Emit, Refusable
    <2>2. QED BY <1>0, <2>1
  <1>7. CASE Emit("emit-objects", "emit-obligations", EmitObjects(doc, out))
    <2> DEFINE old == {"files", "spans", "sections", "items"}
    <2>1. /\ out' = EmitObjects(doc, out)
          /\ Refusable(stage) = old /\ Refusable(stage') = old \cup {"objects", "facts"}
      BY <1>7 DEF Emit, Refusable
    <2>2. \A r \in out'.refusals : r \in out.refusals \/ (r[1] \in {"objects", "facts"} /\ Refused(doc, out, r))
      BY <1>0, <2>1, ObjectsRefused
    <2>3. out'.files = out.files /\ out'.spans = out.spans /\ out'.sections = out.sections
      BY <1>0, <2>1, ObjectsAreWritten DEF Leaves, Outputs
    <2>4. \A r \in out'.refusals : r[1] \in old \cup {"objects", "facts"} /\ Refused(doc, out', r)
      BY <2>1, <2>2, <2>3, RefusalsStand
    <2>5. QED BY <1>0, <2>1, <2>4
  <1>8. CASE Emit("emit-obligations", "emit-checks", EmitObligations(doc, out))
    <2> DEFINE old == {"files", "spans", "sections", "items", "objects", "facts"}
    <2>1. /\ out' = EmitObligations(doc, out)
          /\ Refusable(stage) = old /\ Refusable(stage') = old \cup {"obligations"}
      BY <1>8 DEF Emit, Refusable
    <2>2. \A r \in out'.refusals : r \in out.refusals \/ (r[1] \in {"obligations"} /\ Refused(doc, out, r))
      BY <1>0, <2>1, ObligationsRefused
    <2>3. out'.files = out.files /\ out'.spans = out.spans /\ out'.sections = out.sections /\ out'.objects = out.objects
      BY <1>0, <2>1, ObligationsAreWritten DEF Leaves, Outputs
    <2>4. \A r \in out'.refusals : r[1] \in old \cup {"obligations"} /\ Refused(doc, out', r)
      BY <2>1, <2>2, <2>3, RefusalsStand
    <2>5. QED BY <1>0, <2>1, <2>4
  <1>9. CASE Emit("emit-checks", "emitted", EmitChecks(doc, out))
    <2> DEFINE old == {"files", "spans", "sections", "items", "objects", "facts", "obligations"}
    <2>1. /\ out' = EmitChecks(doc, out)
          /\ Refusable(stage) = old /\ Refusable(stage') = old \cup {"checks"}
      BY <1>9 DEF Emit, Refusable
    <2>2. \A r \in out'.refusals : r \in out.refusals \/ (r[1] \in {"checks"} /\ Refused(doc, out, r))
      BY <1>0, <2>1, ChecksRefused
    <2>3. /\ out'.files = out.files /\ out'.spans = out.spans /\ out'.sections = out.sections
          /\ out'.objects = out.objects /\ out'.obligations = out.obligations
      BY <1>0, <2>1, ChecksAreWritten DEF Leaves, Outputs
    <2>4. \A r \in out'.refusals : r[1] \in old \cup {"checks"} /\ Refused(doc, out', r)
      BY <2>1, <2>2, <2>3, RefusalsStand
    <2>5. QED BY <1>0, <2>1, <2>4
  <1>10. QED BY <1>1, <1>2, <1>3, <1>4, <1>5, <1>6, <1>7, <1>8, <1>9 DEF EmitStep

\* What is refused is refused for a reason.
LEMMA RefusalsInvariant == Spec => []RefusalsInv
  <1>1. Init => RefusalsInv
    BY DEF Init, NothingEmitted, RefusalsInv
  <1>2. EmissionInv /\ RefusalsInv /\ [Next]_vars => RefusalsInv'
    <2> SUFFICES ASSUME EmissionInv, RefusalsInv, [Next]_vars
                 PROVE  RefusalsInv'
      OBVIOUS
    <2>1. CASE BeginValidation \/ ValidateStep \/ Raise \/ BeginEmission
      <3>1. out' = out /\ Refusable(stage) = {}
        BY <2>1 DEF BeginValidation, ValidateStep, Validate, Raise, BeginEmission, Refusable
      <3>2. QED BY <3>1 DEF RefusalsInv
    <2>2. CASE EmitStep
      BY <2>2, EmissionRefuses
    <2>3. CASE Done \/ UNCHANGED vars
      BY <2>3 DEF Done, vars, RefusalsInv
    <2>4. QED BY <2>1, <2>2, <2>3 DEF Next
  <1>3. QED BY <1>1, <1>2, EmissionInvariant, PTL DEF Spec

-----------------------------------------------------------------------------
(* The manifest of a sound document is written whole. *)

\* What was written of the lists, once the obligations are.
IsWritten(d, w) ==
    /\ w.files = FilesOf(d) /\ w.spans = SpansOf(d, w) /\ w.sections = SectionsOf(d, w)
    /\ w.objects = ObjectsOf(d, w) /\ w.obligations = ObligationsOf(d, w)

\* An identity that is unique is carried, by one record.
LEMMA UniqueIs ==
    ASSUME NEW records, NEW x, IsUnique(x, records)
    PROVE  /\ Safe(x) /\ ~IsDuplicate(x, records) /\ x \in SafeIds(records)
           /\ \E i \in DOMAIN records : records[i].typed /\ records[i].id = x
  <1>1. PICK i \in Carriers(records, x) : Carriers(records, x) = {i}
    BY DEF IsUnique
  <1>2. Safe(x) /\ i \in DOMAIN records /\ records[i].typed /\ records[i].id = x
    BY DEF Carriers
  <1>3. ~IsDuplicate(x, records)
    BY <1>1 DEF IsDuplicate
  <1>4. records[i] \in Range(records)
    BY <1>2 DEF Range
  <1>5. QED BY <1>2, <1>3, <1>4 DEF SafeIds

\* A sound document, part by part.
LEMMA SoundParts ==
    ASSUME NEW d, NEW e, Sound(d, e, 16)
    PROVE  /\ FilesSound(d) /\ SpansSound(d) /\ IdsSound(d.files) /\ IdsSound(d.spans)
           /\ SectionsSound(d) /\ ItemsSound(d) /\ ObjectsSound(d)
           /\ LayerSound(e.obligations) /\ LayerSound(e.checks)
           /\ LevelsSound(d) /\ FactsSound(d) /\ ObligationsSound(d, e) /\ ChecksSound(d, e)
  <1>1. \A group \in 1..16 : Part(d, e, group)
    BY DEF Sound
  <1>2. Part(d, e, 1) /\ Part(d, e, 2) /\ Part(d, e, 3) /\ Part(d, e, 4) /\ Part(d, e, 5)
        /\ Part(d, e, 6) /\ Part(d, e, 7) /\ Part(d, e, 8) /\ Part(d, e, 9) /\ Part(d, e, 10)
        /\ Part(d, e, 11) /\ Part(d, e, 13) /\ Part(d, e, 14)
    BY <1>1
  <1>3. QED BY <1>2 DEF Part

\* The files of a sound document are written.
LEMMA FilesStand ==
    ASSUME NEW d, FilesSound(d), IdsSound(d.files)
    PROVE  /\ \A f \in Range(d.files) : PlainFileReason(d, f) = "none"
           /\ \A x : IsUnique(x, d.files) => x \in FilesOf(d)
  <1>1. \A f \in Range(d.files) : PlainFileReason(d, f) = "none"
    BY UniqueIs, AdmittedFile DEF FilesSound, IdsSound, SafeFileFields
  <1>2. \A x : IsUnique(x, d.files) => x \in FilesOf(d)
    BY <1>1, UniqueIs DEF FilesOf, Range
  <1>3. QED BY <1>1, <1>2

\* So are its spans.
LEMMA SpansStand ==
    ASSUME NEW d, NEW e, Given(d, e), FilesSound(d), IdsSound(d.files), SpansSound(d), IdsSound(d.spans),
           NEW w, w.files = FilesOf(d), w.spans = SpansOf(d, w)
    PROVE  /\ \A s \in Range(d.spans) : SpanReason(d, w.files, s) = "none"
           /\ \A x \in SafeIds(d.spans) : x \in w.spans
           /\ \A x : IsUnique(x, d.spans) => x \in w.spans
  <1>1. ASSUME NEW s \in Range(d.spans)
        PROVE  SpanReason(d, w.files, s) = "none"
    <2>1. s.typed /\ Safe(s.file) /\ BoundsAreOrdered(s) /\ IsUnique(s.file, d.files)
      BY DEF SpansSound
    <2>2. Safe(s.id) /\ ~IsDuplicate(s.id, d.spans)
      BY UniqueIs DEF IdsSound
    <2>3. s.file \in w.files
      BY <2>1, FilesStand
    <2>4. s.from \in Int /\ s.to \in Int /\ s.first \in Int /\ s.last \in Int
      BY <2>1 DEF Given, BoundsAreOrdered
    <2>5. s.numeric /\ ~(s.from < 0 \/ s.to < s.from) /\ ~(s.first < 1 \/ s.last < s.first)
      BY <2>1, <2>4 DEF BoundsAreOrdered
    <2>6. SourceSpanReason(s) = "none"
      BY <2>1, <2>2, <2>5, SoundSpan
    <2>7. QED BY <2>2, <2>3, <2>6, AdmittedSpan
  <1>2. \A x \in SafeIds(d.spans) : x \in w.spans
    BY <1>1 DEF SpansOf, SafeIds, Range
  <1>3. \A x : IsUnique(x, d.spans) => x \in w.spans
    BY <1>2, UniqueIs
  <1>4. QED BY <1>1, <1>2, <1>3

\* A record of one span lies in the file its span lies in.
LEMMA SpanLies ==
    ASSUME NEW d, IsList(d.spans), NEW span, NEW file, SpanIsIn(d, span, file)
    PROVE  LiesIn(d.spans, span, file)
  <1>1. IsUnique(span, d.spans) /\ ByLastId(d.spans, span).file = file
    BY DEF SpanIsIn
  <1>2. span \in SafeIds(d.spans)
    BY <1>1, UniqueIs
  <1>3. QED BY <1>1, <1>2, LastIsCarrier DEF LiesIn

\* What has been written is the manifest of the lists before the items.
Manifest(d, w) ==
    /\ \A x : IsUnique(x, d.files) => x \in w.files
    /\ \A x : IsUnique(x, d.spans) => x \in w.spans
    /\ \A x \in SafeIds(d.spans) : x \in w.spans

\* So are its sections.
LEMMA SectionsStand ==
    ASSUME NEW d, IsList(d.spans), SectionsSound(d), NEW w, Manifest(d, w)
    PROVE  \A s \in Range(d.sections) : SectionReason(d, w, s) = "none"
  <1> SUFFICES ASSUME NEW s \in Range(d.sections)
               PROVE  SectionReason(d, w, s) = "none"
    OBVIOUS
  <1>1. Safe(s.id) /\ ~IsDuplicate(s.id, d.sections)
    BY UniqueIs DEF SectionsSound, IdsSound
  <1>2. /\ s.typed /\ Safe(s.span) /\ s.kind = "text" /\ s.ordinal = "number" /\ Safe(s.file)
        /\ IsUnique(s.file, d.files) /\ SpanIsIn(d, s.span, s.file)
    BY DEF SectionsSound
  <1>3. s.file \in w.files /\ s.span \in w.spans
    BY <1>2 DEF Manifest, SpanIsIn
  <1>4. LiesIn(d.spans, s.span, s.file)
    BY <1>2, SpanLies
  <1>5. SafeText(s.kind)
    BY <1>2 DEF SafeText
  <1>6. QED BY <1>1, <1>2, <1>3, <1>4, <1>5, AdmittedSection

\* Its items can all be kept together.
LEMMA ItemsStandWhole ==
    ASSUME NEW d, IsList(d.spans), IsList(d.sections), IsList(d.items), SectionsSound(d), ItemsSound(d),
           NEW w, Manifest(d, w), w.sections = SectionsOf(d, w)
    PROVE  Range(d.items) \in ClosedSets(d, w)
  <1>1. ASSUME NEW x, IsUnique(x, d.sections)
        PROVE  x \in w.sections
    <2>1. PICK i \in DOMAIN d.sections : d.sections[i].id = x
      BY <1>1, UniqueIs
    <2>2. SectionReason(d, w, d.sections[i]) = "none"
      BY SectionsStand DEF Range
    <2>3. QED BY <2>1, <2>2 DEF SectionsOf
  <1>2. ASSUME NEW item \in Range(d.items)
        PROVE  ItemReason(d, w, item) = "none"
    <2>1. Safe(item.id) /\ ~IsDuplicate(item.id, d.items)
      BY UniqueIs DEF ItemsSound, IdsSound
    <2>2. /\ item.typed /\ Safe(item.span) /\ SafeLinks(item)
          /\ item.ordinal = "number" /\ item.level = "number" /\ item.raw = "text"
          /\ IsUnique(item.file, d.files) /\ IsUnique(item.section, d.sections)
          /\ ByLastId(d.sections, item.section).file = item.file /\ SpanIsIn(d, item.span, item.file)
      BY DEF ItemsSound
    <2>3. Safe(item.file) /\ Safe(item.section) /\ (item.parent = None \/ Safe(item.parent))
      BY <2>2 DEF SafeLinks, SafeOptional
    <2>4. PlainItemReason(item) = "none"
      BY <2>1, <2>2, <2>3, SoundItem
    <2>5. item.file \in w.files /\ item.section \in w.sections /\ item.span \in w.spans
      BY <2>2, <1>1 DEF Manifest, SpanIsIn
    <2>6. LiesIn(d.spans, item.span, item.file)
      BY <2>2, SpanLies
    <2>7. LiesIn(d.sections, item.section, item.file)
      <3>1. item.section \in SafeIds(d.sections)
        BY <2>2, UniqueIs
      <3>2. QED BY <2>2, <3>1, LastIsCarrier DEF LiesIn
    <2>8. QED BY <2>1, <2>4, <2>5, <2>6, <2>7, AdmittedItem
  <1>3. ASSUME NEW item \in Range(d.items)
        PROVE  Stands(item, Range(d.items))
    <2>1. CASE item.parent = None
      BY <2>1 DEF Stands
    <2>2. CASE item.parent # None
      <3>1. /\ IsUnique(item.parent, d.items) /\ item.parent # item.id
            /\ ByLastId(d.items, item.parent).file = item.file
            /\ ByLastId(d.items, item.parent).section = item.section
        BY <2>2 DEF ItemsSound
      <3>2. item.parent \in SafeIds(d.items)
        BY <3>1, UniqueIs
      <3>3. PICK p : p = ByLastId(d.items, item.parent)
        OBVIOUS
      <3>4. p \in Range(d.items) /\ p.id = item.parent
        BY <3>2, <3>3, LastIsCarrier
      <3>5. QED BY <3>1, <3>3, <3>4 DEF Stands
    <2>3. QED BY <2>1, <2>2
  <1>4. QED BY <1>2, <1>3 DEF ClosedSets, Candidates

-----------------------------------------------------------------------------
(* Objects and their facts. *)

\* The objects that were generated, and cite a span that was not written.
Strays(d, w) == {obj \in Range(d.objects) : HasFact(obj, {"GeneratedFrom"}) /\ obj.span \notin w.spans}

\* An object that is refused is one of them.
LEMMA RefusedObjectStrays ==
    ASSUME NEW d, ObjectsSound(d), LevelsSound(d), NEW w, Manifest(d, w),
           NEW obj \in Range(d.objects)
    PROVE  /\ SpanNotEmitted(d, w.spans, obj.span) => obj \in Strays(d, w)
           /\ ObjectReason(d, w, obj) # "none" => obj \in Strays(d, w)
  <1>1. /\ obj.typed /\ obj.role # "untyped" /\ obj.listed /\ SafeOptional(obj.span)
        /\ HasProvenance(d, obj)
    BY DEF ObjectsSound
  <1>2. Safe(obj.id) /\ ~IsDuplicate(obj.id, d.objects)
    BY UniqueIs DEF ObjectsSound, IdsSound
  <1>3. ASSUME SpanNotEmitted(d, w.spans, obj.span)
        PROVE  obj \in Strays(d, w)
    <2>1. obj.span \notin w.spans /\ ~IsUnique(obj.span, d.spans)
      BY <1>3 DEF SpanNotEmitted, Manifest
    <2>2. HasFact(obj, {"GeneratedFrom"})
      BY <1>1, <2>1 DEF HasProvenance
    <2>3. QED BY <2>1, <2>2 DEF Strays
  <1>4. OptionalProvenanceReason(obj.span) = "none"
    BY <1>1, AdmittedSpanOf DEF SafeOptional
  <1>5. obj.level \in SupportedLevels
    BY <1>1 DEF LevelsSound, Unsupported
  <1>6. ReifiedObjectReason(obj) = "none"
    BY <1>1, <1>2, <1>5, SoundObject
  <1>7. ObjectReason(d, w, obj) # "none" => SpanNotEmitted(d, w.spans, obj.span)
    BY <1>1, <1>2, <1>4, <1>6, AdmittedObject
  <1>8. QED BY <1>3, <1>7

\* An argument that is safe is admitted.
LEMMA SafeArgumentAdmitted ==
    ASSUME NEW f, NEW p, SafeArgument(f, p)
    PROVE  ArgumentReason(f, p) = "none"
  <1> DEFINE value == f.args[p]
             reference == p \in FactSchemas[f.predicate].objects
             rules == <<
        <<value = Untyped, "unsupported-fact-argument-type">>,
        <<reference /\ value \in {Number, NotANumber}, "unsupported-object-reference-type">>,
        <<value \in {None, Blank, Spaces}, IF reference THEN "empty-object-reference" ELSE "empty-fact-argument">>,
        <<value = NotANumber, "non-finite-fact-argument">>>>
  <1>1. DOMAIN rules = 1..4 /\ \A i \in 1..4 : rules[i][1] => rules[i][2] # "none"
    <2>1. DOMAIN rules = 1..4
      OBVIOUS
    <2>2. /\ rules[1][2] # "none" /\ rules[2][2] # "none"
          /\ rules[3][2] # "none" /\ rules[4][2] # "none"
      OBVIOUS
    <2> HIDE DEF rules
    <2>3. QED BY <2>1, <2>2
  <1>2. ~rules[1][1] /\ ~rules[2][1] /\ ~rules[3][1] /\ ~rules[4][1]
    <2>1. value \notin {None, Blank, Spaces, Untyped, NotANumber} /\ (reference => value # Number)
      BY DEF SafeArgument
    <2> HIDE DEF value, reference
    <2>2. QED BY <2>1
  <1>3. FirstReason(rules) = "none"
    <2> HIDE DEF rules
    <2>1. \A i \in 1..4 : ~rules[i][1]
      BY <1>2
    <2>2. QED BY <1>1, <2>1, FirstReasonIsNone
  <1>4. QED BY <1>3 DEF ArgumentReason

\* So is a fact.
LEMMA SoundFactAdmitted ==
    ASSUME NEW obj, NEW f, SoundFact(obj, f)
    PROVE  ProfileFactReason(obj, f) = "none"
  <1> DEFINE rules == [p \in DOMAIN f.args |-> <<ArgumentReason(f, p) # "none", ArgumentReason(f, p)>>]
  <1>1. \A p \in DOMAIN f.args : ArgumentReason(f, p) = "none"
    BY SafeArgumentAdmitted DEF SoundFact
  <1>2. \A i \in DOMAIN rules : ~rules[i][1]
    BY <1>1
  <1>3. FirstReason(rules) = "none"
    <2> HIDE DEF rules
    <2>1. QED BY <1>2 DEF FirstReason
  <1>4. PlainFact(f) /\ f.predicate \in DOMAIN FactSchemas /\ Len(f.args) = FactSchemas[f.predicate].arity
        /\ (FactSchemas[f.predicate].owned => f.args[1] \notin NotText /\ f.args[1] = obj.id)
    BY DEF SoundFact, HasSchema, RightArity, SubjectIsOwner
  <1> HIDE DEF rules
  <1>5. QED BY <1>3, <1>4 DEF ProfileFactReason, rules

-----------------------------------------------------------------------------
(* The object that owns a target. *)

\* Of two lists, one begins the other.
Begins(a, b) == Len(a) <= Len(b) /\ \A i \in 1..Len(a) : a[i] = b[i]

LEMMA PrefixBegins ==
    ASSUME NEW a, IsList(a), NEW b, IsList(b)
    PROVE  IsPrefix(a, b) <=> Begins(a, b)
  <1>1. Len(a) \in Nat /\ Len(b) \in Nat /\ a = [i \in 1..Len(a) |-> a[i]]
    BY DEF IsList
  <1>2. SubSeq(a, 1, Len(a)) = a
    BY DEF IsList
  <1>3. CASE Len(a) <= Len(b)
    <2>1. SubSeq(b, 1, Len(a)) = [i \in 1..Len(a) |-> b[i]]
      BY <1>1, <1>3 DEF IsList
    <2>2. QED BY <1>1, <1>2, <1>3, <2>1 DEF IsPrefix, Begins
  <1>4. CASE ~(Len(a) <= Len(b))
    BY <1>4 DEF IsPrefix, Begins
  <1>5. QED BY <1>3, <1>4

\* One that begins another without being it is shorter.
LEMMA StrictlyBegins ==
    ASSUME NEW a, IsList(a), NEW b, IsList(b), IsStrictPrefix(a, b)
    PROVE  Begins(a, b) /\ Len(a) \in Nat /\ Len(b) \in Nat /\ Len(a) < Len(b)
  <1>1. Begins(a, b) /\ a # b
    BY PrefixBegins DEF IsStrictPrefix
  <1>2. /\ Len(a) \in Nat /\ Len(b) \in Nat
        /\ a = [i \in 1..Len(a) |-> a[i]] /\ b = [i \in 1..Len(b) |-> b[i]]
    BY DEF IsList
  <1>3. Len(a) # Len(b)
    BY <1>1, <1>2 DEF Begins
  <1>4. Len(a) \in Nat /\ Len(b) \in Nat /\ Len(a) <= Len(b)
    BY <1>1, <1>2 DEF Begins
  <1>5. PICK n, m : n = Len(a) /\ m = Len(b)
    OBVIOUS
  <1>6. n \in Nat /\ m \in Nat /\ n <= m /\ n # m
    BY <1>3, <1>4, <1>5
  <1>7. n < m
    BY ONLY <1>6
  <1>8. QED BY <1>1, <1>4, <1>5, <1>7

LEMMA BeginsFurther ==
    ASSUME NEW a, Len(a) \in Nat, NEW b, Len(b) \in Nat, NEW c, Len(c) \in Nat, Begins(a, b), Begins(b, c)
    PROVE  Begins(a, c)
  BY DEF Begins

\* Of two lists that begin a third, one begins the other.
LEMMA BothBegin ==
    ASSUME NEW a, Len(a) \in Nat, NEW b, Len(b) \in Nat, NEW t, Len(t) \in Nat, Begins(a, t), Begins(b, t)
    PROVE  Begins(a, b) \/ Begins(b, a)
  <1>1. Len(a) <= Len(b) \/ Len(b) <= Len(a)
    OBVIOUS
  <1>2. QED BY <1>1 DEF Begins

\* What is left of a list without a first space.
LEMMA UnindentedList ==
    ASSUME NEW a, IsList(a)
    PROVE  /\ IsList(Unindented(a)) /\ Len(Unindented(a)) \in Nat
           /\ a # <<>> /\ a[1] = " " =>
                Len(Unindented(a)) = Len(a) - 1 /\ \A i \in 1..(Len(a) - 1) : Unindented(a)[i] = a[i + 1]
           /\ ~(a # <<>> /\ a[1] = " ") => Unindented(a) = a
  <1>1. CASE a # <<>> /\ Head(a) = " "
    <2>1. PICK C : C = Range(a)
      OBVIOUS
    <2>2. a \in Seq(C) /\ a # <<>>
      BY <1>1, <2>1 DEF IsList
    <2>3. Head(a) = a[1] /\ Tail(a) \in Seq(C) /\ Len(Tail(a)) = Len(a) - 1
          /\ \A i \in 1..(Len(a) - 1) : Tail(a)[i] = a[i + 1]
      BY ONLY <2>2
    <2>4. IsList(Tail(a)) /\ Len(Tail(a)) \in Nat
      <3>1. PICK rest : rest = Tail(a)
        OBVIOUS
      <3>2. rest \in Seq(C)
        BY <2>3, <3>1
      <3>3. IsList(rest) /\ Len(rest) \in Nat
        BY <3>2, SequenceIsList
      <3>4. QED BY <3>1, <3>3
    <2>5. QED BY <1>1, <2>3, <2>4 DEF Unindented
  <1>2. CASE ~(a # <<>> /\ Head(a) = " ")
    <2>1. Len(a) \in Nat /\ (a # <<>> => Head(a) = a[1])
      BY DEF IsList
    <2>2. QED BY <1>2, <2>1 DEF Unindented
  <1>3. QED BY <1>1, <1>2

\* A list that begins another still does when a first space is left out of each.
LEMMA UnindentedBegins ==
    ASSUME NEW a, IsList(a), a # <<>>, NEW b, IsList(b), Begins(a, b)
    PROVE  Begins(Unindented(a), Unindented(b))
  <1>1. Len(a) \in Nat \ {0} /\ Len(b) \in Nat
    BY DEF IsList
  <1>2. Len(b) # 0 /\ a[1] = b[1]
    BY <1>1 DEF Begins
  <1>3. b # <<>>
    BY <1>2
  <1>4. CASE a[1] = " "
    <2>1. /\ Len(Unindented(a)) = Len(a) - 1 /\ \A i \in 1..(Len(a) - 1) : Unindented(a)[i] = a[i + 1]
          /\ Len(Unindented(b)) = Len(b) - 1 /\ \A i \in 1..(Len(b) - 1) : Unindented(b)[i] = b[i + 1]
      BY <1>2, <1>3, <1>4, UnindentedList
    <2>2. Len(a) <= Len(b) /\ \A i \in 1..Len(a) : a[i] = b[i]
      BY DEF Begins
    <2>3. Len(a) - 1 <= Len(b) - 1 /\ \A i \in 1..(Len(a) - 1) : i + 1 \in 1..Len(a) /\ i \in 1..(Len(b) - 1)
      <3>1. PICK n, m : n = Len(a) /\ m = Len(b)
        OBVIOUS
      <3>2. n \in Nat \ {0} /\ m \in Nat /\ n <= m
        BY <1>1, <2>2, <3>1
      <3>3. n - 1 <= m - 1 /\ \A i \in 1..(n - 1) : i + 1 \in 1..n /\ i \in 1..(m - 1)
        BY ONLY <3>2
      <3>4. QED BY <3>1, <3>3
    <2>4. QED BY <2>1, <2>2, <2>3 DEF Begins
  <1>5. CASE a[1] # " "
    BY <1>2, <1>5, UnindentedList
  <1>6. QED BY <1>4, <1>5

LEMMA FrontOfList ==
    ASSUME NEW C, NEW a \in Seq(C), a # <<>>, NEW front, front = Front(a)
    PROVE  /\ front \in Seq(C) /\ Len(front) \in Nat /\ Len(front) <= Len(a)
           /\ \A i \in 1..Len(front) : front[i] = a[i]
  <1>1. Len(a) \in Nat \ {0} /\ \A i \in 1..Len(a) : a[i] \in C
    OBVIOUS
  <1>2. PICK n : n = Len(a) - 1
    OBVIOUS
  <1>3. n \in Nat /\ n <= Len(a) /\ \A i \in 1..n : i \in 1..Len(a)
    BY <1>1, <1>2
  <1>4. front = SubSeq(a, 1, n)
    BY <1>2 DEF Front
  <1>5. front \in Seq(C) /\ Len(front) = n /\ \A i \in 1..n : front[i] = a[i]
    BY <1>1, <1>3, <1>4
  <1>6. QED BY <1>3, <1>5

\* A last space may be left out, too.
LEMMA StrippedBegins ==
    ASSUME NEW t, IsList(t)
    PROVE  /\ IsList(Stripped(t)) /\ Len(Stripped(t)) \in Nat /\ Begins(Stripped(t), Unindented(t))
           /\ Unindented(t) = t /\ (t = <<>> \/ Last(t) # " ") => Stripped(t) = t
  <1> DEFINE rest == Unindented(t)
  <1>1. IsList(rest) /\ Len(rest) \in Nat
    BY UnindentedList
  <1>2. CASE rest # <<>> /\ Last(rest) = " "
    <2> HIDE DEF rest
    <2>1. PICK C : C = Range(rest)
      OBVIOUS
    <2>2. rest \in Seq(C)
      BY <1>1, <2>1 DEF IsList
    <2>3. PICK front : front = Front(rest)
      OBVIOUS
    <2>4. /\ front \in Seq(C) /\ Len(front) \in Nat /\ Len(front) <= Len(rest)
          /\ \A i \in 1..Len(front) : front[i] = rest[i]
      BY <2>2, <2>3, <1>2, FrontOfList
    <2>5. IsList(Front(rest)) /\ Len(Front(rest)) \in Nat /\ Begins(Front(rest), rest)
      BY <2>3, <2>4, SequenceIsList DEF Begins
    <2>6. Stripped(t) = Front(rest)
      BY <1>2 DEF Stripped, rest
    <2>7. QED BY <1>2, <2>5, <2>6 DEF rest
  <1>3. CASE ~(rest # <<>> /\ Last(rest) = " ")
    <2>1. Stripped(t) = rest
      BY <1>3 DEF Stripped
    <2>2. Begins(rest, rest)
      <3> HIDE DEF rest
      <3> QED BY <1>1 DEF Begins
    <2>3. QED BY <1>1, <2>1, <2>2
  <1>4. QED BY <1>2, <1>3

\* An identity is more than a part of nothing.
LEMMA PartIsSafe ==
    ASSUME NEW id, IsList(id), Safe(id), NEW t, IsList(t), IsSubtargetOf(t, id)
    PROVE  Safe(t)
  <1>1. Len(id) \in Nat /\ Len(t) \in Nat /\ Len(t) > Len(id)
    BY StrictlyBegins DEF IsSubtargetOf
  <1>2. Len(id) # 0
    <2>1. ASSUME Len(id) = 0 PROVE id = <<>>
      BY <2>1 DEF IsList
    <2>2. QED BY <2>1 DEF Safe, Blank
  <1>3. Len(t) > 1
    BY <1>1, <1>2
  <1>4. Len(<<>>) = 0 /\ \A x : Len(<<x>>) = 1
    OBVIOUS
  <1>5. t # <<>> /\ \A x : t # <<x>>
    <2>1. PICK n : n = Len(t)
      OBVIOUS
    <2>2. n \in Nat /\ n > 1
      BY <1>1, <1>3, <2>1
    <2>3. n # 0 /\ n # 1
      BY <2>2
    <2>4. QED BY <2>1, <2>3, <1>4, Zenon
  <1>6. QED BY <1>5 DEF Safe, NotText, None, Blank, Spaces, Untyped, Number, NotANumber

\* No record of the document looks like a part of an object.
NoParts(d) ==
    \A list \in RecordLists : \A id \in SafeIds(d[list]), obj \in SafeIds(d.objects) :
        id # obj => ~IsPrefix(Unindented(obj), Unindented(id))

ObjectIdsAreLists(d) == \A id \in SafeIds(d.objects) : IsList(id) /\ id # <<>>

\* So only its own identity begins a record's.
LEMMA BegunByItself ==
    ASSUME NEW d, NoParts(d), ObjectIdsAreLists(d), NEW list \in RecordLists,
           NEW t \in SafeIds(d[list]), IsList(t), NEW id \in SafeIds(d.objects), Begins(Unindented(id), Unindented(t))
    PROVE  t = id
  <1>1. IsList(Unindented(t)) /\ IsList(Unindented(id))
    BY UnindentedList DEF ObjectIdsAreLists
  <1>2. IsPrefix(Unindented(id), Unindented(t))
    BY <1>1, PrefixBegins
  <1>3. QED BY <1>2 DEF NoParts

\* Runs of padding before a colon.
IsRun(padding) == padding \in {<<"zw">>, <<" ">>, <<"zw", " ">>}

LEMMA RunsArePadding ==
    ASSUME NEW padding, IsRun(padding)
    PROVE  padding \in Seq(Padding) /\ Len(padding) \in Nat \ {0} /\ padding[1] \in Padding
  <1>1. PICK zw, gap, P : zw = "zw" /\ gap = " " /\ P = Padding
    OBVIOUS
  <1>2. zw \in P /\ gap \in P
    BY <1>1 DEF Padding
  <1>3. <<zw>> \in Seq(P) /\ Len(<<zw>>) \in Nat \ {0} /\ <<zw>>[1] \in P
    BY ONLY <1>2
  <1>4. <<gap>> \in Seq(P) /\ Len(<<gap>>) \in Nat \ {0} /\ <<gap>>[1] \in P
    BY ONLY <1>2
  <1>5. <<zw, gap>> \in Seq(P) /\ Len(<<zw, gap>>) \in Nat \ {0} /\ <<zw, gap>>[1] \in P
    BY ONLY <1>2
  <1>6. padding = <<zw>> \/ padding = <<gap>> \/ padding = <<zw, gap>>
    BY <1>1 DEF IsRun
  <1>7. padding \in Seq(P) /\ Len(padding) \in Nat \ {0} /\ padding[1] \in P
    BY <1>3, <1>4, <1>5, <1>6, Zenon
  <1>8. QED BY <1>1, <1>7

\* An identity begins what has padding after it.
LEMMA PaddedIsLonger ==
    ASSUME NEW id, IsList(id), NEW padding, IsRun(padding),
           NEW longer, longer = id \o padding
    PROVE  /\ IsList(longer) /\ Begins(id, longer) /\ Len(id) < Len(longer)
           /\ longer[Len(id) + 1] \in Padding
  <1>1. PICK C : C = Range(id) \cup Padding
    OBVIOUS
  <1>2. id \in Seq(C) /\ padding \in Seq(C)
    <2>1. Range(id) \subseteq C /\ Padding \subseteq C
      BY <1>1
    <2>2. id \in Seq(Range(id)) /\ padding \in Seq(Padding)
      BY RunsArePadding DEF IsList
    <2>3. QED BY <2>1, <2>2
  <1>3. Len(padding) \in Nat \ {0} /\ padding[1] \in Padding
    BY RunsArePadding
  <1>4. /\ longer \in Seq(C) /\ Len(longer) = Len(id) + Len(padding)
        /\ \A i \in 1..(Len(id) + Len(padding)) :
              longer[i] = IF i <= Len(id) THEN id[i] ELSE padding[i - Len(id)]
    BY <1>2, ConcatProperties
  <1>5. PICK n, m : n = Len(id) /\ m = Len(padding)
    OBVIOUS
  <1>6. n \in Nat /\ m \in Nat \ {0}
    BY <1>2, <1>3, <1>5
  <1>7. /\ n < n + m /\ n <= n + m
        /\ n + 1 \in 1..(n + m) /\ ~(n + 1 <= n) /\ (n + 1) - n = 1
        /\ \A i \in 1..n : i \in 1..(n + m) /\ i <= n
    BY ONLY <1>6
  <1>8. Len(id) < Len(longer) /\ \A i \in 1..Len(id) : id[i] = longer[i]
    BY <1>4, <1>5, <1>7
  <1>9. Begins(id, longer)
    <2>1. Len(id) <= Len(longer)
      BY <1>4, <1>5, <1>7
    <2>2. QED BY <2>1, <1>8 DEF Begins
  <1>10. longer[Len(id) + 1] = padding[1]
    BY <1>4, <1>5, <1>7
  <1>11. IsList(longer)
    BY <1>4, SequenceIsList
  <1>12. QED BY <1>3, <1>8, <1>9, <1>10, <1>11

\* What begins a target when padding is left out of both of them begins it
\* when only the white space before them is.
LEMMA PaddedBegins ==
    ASSUME NEW t, IsList(t), NEW id, IsList(id), id # <<>>,
           IsSubtargetOf(Stripped(t), id) \/ PaddedSeparator(Stripped(t), id)
    PROVE  Begins(id, Unindented(t)) /\ Len(id) < Len(Stripped(t))
  <1> DEFINE s == Stripped(t)
             u == Unindented(t)
  <1>1. IsList(s) /\ Len(s) \in Nat /\ Begins(s, u) /\ Len(u) \in Nat /\ Len(id) \in Nat
    <2>1. Len(id) \in Nat
      BY DEF IsList
    <2>2. QED BY <2>1, StrippedBegins, UnindentedList
  <1> HIDE DEF s, u
  <1>2. ASSUME NEW longer, IsList(longer), Begins(id, longer), IsStrictPrefix(longer, s)
        PROVE  Begins(id, u) /\ Len(id) < Len(s)
    <2>1. Begins(longer, s) /\ Len(longer) \in Nat /\ Len(longer) < Len(s)
      BY <1>1, <1>2, StrictlyBegins
    <2>2. Len(id) <= Len(longer)
      BY <1>2 DEF Begins
    <2>3. Len(id) < Len(s)
      BY <1>1, <2>1, <2>2
    <2>4. Begins(id, s)
      BY <1>1, <1>2, <2>1, BeginsFurther
    <2>5. QED BY <1>1, <2>3, <2>4, BeginsFurther
  <1>3. CASE IsSubtargetOf(s, id)
    <2>1. Begins(id, id)
      BY <1>1 DEF Begins
    <2>2. IsStrictPrefix(id, s)
      BY <1>3 DEF IsSubtargetOf
    <2>3. QED BY <1>2, <2>1, <2>2 DEF s, u
  <1>4. CASE PaddedSeparator(s, id)
    <2>1. PICK padding : IsRun(padding) /\ IsSubtargetOf(s, id \o padding)
      BY <1>4 DEF PaddedSeparator, IsRun
    <2>2. PICK longer : longer = id \o padding
      OBVIOUS
    <2>3. IsList(longer) /\ Begins(id, longer)
      BY <2>1, <2>2, PaddedIsLonger
    <2>4. IsStrictPrefix(longer, s)
      BY <2>1, <2>2 DEF IsSubtargetOf
    <2>5. QED BY <1>2, <2>3, <2>4 DEF s, u
  <1>5. QED BY <1>3, <1>4 DEF s, u

\* The last word of a canonical part is no space,
LEMMA LastIsCanonical ==
    ASSUME NEW t, IsList(t), NEW x, Len(x) \in Nat, Len(t) \in Nat, Len(x) < Len(t), Canonical(t, x)
    PROVE  Last(t) # " "
  <1>1. PICK n, m : n = Len(x) /\ m = Len(t)
    OBVIOUS
  <1>2. n \in Nat /\ m \in Nat /\ n < m
    BY <1>1
  <1>3. n + 1 \in 1..m /\ m - n \in 1..(m - n) /\ (m - n) + (n + 1) - 1 = m /\ m \in (n + 1)..m
    BY ONLY <1>2
  <1> DEFINE part == SubSeq(t, n + 1, m)
  <1>4. DOMAIN part = 1..(m - n) /\ part[m - n] = t[m]
    BY <1>1, <1>2, <1>3 DEF IsList
  <1>5. t[m] \in Range(Subtarget(t, x))
    <2>1. part = Subtarget(t, x)
      BY <1>1 DEF Subtarget
    <2> HIDE DEF part
    <2>2. QED BY <1>3, <1>4, <2>1 DEF Range
  <1>6. Last(t) = t[m]
    BY <1>1 DEF Last
  <1>7. QED BY <1>5, <1>6 DEF Canonical, Padding

\* and no padding stands before a part of an object.
LEMMA SeparatorIsPlain ==
    ASSUME NEW t, IsList(t), NEW x, IsList(x), IsSubtargetOf(t, x)
    PROVE  ~PaddedSeparator(t, x)
  <1> SUFFICES ASSUME PaddedSeparator(t, x) PROVE FALSE
    OBVIOUS
  <1>1. PICK padding : IsRun(padding) /\ IsSubtargetOf(t, x \o padding)
    BY DEF PaddedSeparator, IsRun
  <1>2. PICK longer : longer = x \o padding
    OBVIOUS
  <1>3. IsList(longer) /\ Len(x) < Len(longer) /\ longer[Len(x) + 1] \in Padding
    BY <1>1, <1>2, PaddedIsLonger
  <1>4. IsStrictPrefix(longer, t)
    BY <1>1, <1>2 DEF IsSubtargetOf
  <1>5. Begins(longer, t) /\ Len(longer) \in Nat /\ Len(x) \in Nat
    <2>1. Len(x) \in Nat
      BY DEF IsList
    <2>2. QED BY <2>1, <1>3, <1>4, StrictlyBegins
  <1>6. t[Len(x) + 1] = longer[Len(x) + 1]
    <2>1. Len(x) + 1 \in 1..Len(longer)
      <3>1. PICK n, m : n = Len(x) /\ m = Len(longer)
        OBVIOUS
      <3>2. n \in Nat /\ m \in Nat /\ n < m
        BY <1>3, <1>5, <3>1
      <3>3. n + 1 \in 1..m
        BY ONLY <3>2
      <3>4. QED BY <3>1, <3>3
    <2>2. QED BY <1>5, <2>1 DEF Begins
  <1>7. QED BY <1>3, <1>6 DEF IsSubtargetOf

\* What is declared has one owner at most, and is no defective part of it.
LEMMA OneOwner ==
    ASSUME NEW d, NoParts(d), ObjectIdsAreLists(d), NEW t, IsList(t), IsDeclared(d, t)
    PROVE  /\ ~HasEmptySubtarget(t, SafeIds(d.objects))
           /\ ~HasPaddedSubtarget(t, SafeIds(d.objects))
           /\ Owners(t, SafeIds(d.objects)) # {} =>
                TargetObject(t, SafeIds(d.objects)) \in SafeIds(d.objects)
  <1> DEFINE ids == SafeIds(d.objects)
  <1>1. ASSUME NEW x \in ids, Owners(t, ids) \subseteq {x}, Owners(t, ids) # {}
        PROVE  TargetObject(t, ids) = x
    <2>1. IsList(x)
      BY DEF ObjectIdsAreLists
    <2>2. Len(x) \in Nat
      BY <2>1 DEF IsList
    <2>3. Owners(t, ids) = {x}
      BY <1>1
    <2> HIDE DEF ids
    <2>4. QED BY <2>2, <2>3 DEF TargetObject
  <1>2. \A id \in ids : IsList(id) /\ id # <<>> /\ Len(id) \in Nat
    BY DEF ObjectIdsAreLists, IsList
  <1>3. ASSUME NEW id \in ids, IsSubtargetOf(t, id)
        PROVE  /\ Begins(id, t) /\ Begins(Unindented(id), Unindented(t))
               /\ Len(id) \in Nat /\ Len(t) \in Nat /\ Len(id) < Len(t)
    <2>1. Begins(id, t) /\ Len(id) \in Nat /\ Len(t) \in Nat /\ Len(id) < Len(t)
      BY <1>2, <1>3, StrictlyBegins DEF IsSubtargetOf
    <2>2. QED BY <2>1, <1>2, UnindentedBegins
  <1>4. ASSUME NEW id \in ids, Head(id) # " "
        PROVE  Unindented(id) = id /\ id[1] # " "
    <2>1. IsList(id) /\ id # <<>>
      BY <1>2
    <2>2. Head(id) = id[1]
      BY <2>1 DEF IsList
    <2>3. QED BY <1>4, <2>2 DEF Unindented
  <1>5. CASE \E list \in RecordLists : t \in SafeIds(d[list])
    <2>1. ASSUME NEW id \in ids, Begins(Unindented(id), Unindented(t)) PROVE t = id
      BY <1>5, <2>1, BegunByItself
    <2>2. \A id \in ids : ~IsSubtargetOf(t, id)
      BY <1>3, <2>1
    <2>3. ASSUME NEW id \in ids, Head(id) # " ",
                 IsSubtargetOf(Stripped(t), id) \/ PaddedSeparator(Stripped(t), id)
          PROVE  FALSE
      <3>1. Unindented(id) = id
        BY <1>4, <2>3
      <3>2. Begins(id, Unindented(t)) /\ Len(id) < Len(Stripped(t))
        BY <1>2, <2>3, PaddedBegins
      <3>3. t = id
        BY <2>1, <3>1, <3>2
      <3>4. Len(Stripped(t)) \in Nat /\ Len(id) \in Nat /\ Begins(Stripped(t), id)
        BY <1>2, <3>1, <3>3, StrippedBegins
      <3>5. Len(Stripped(t)) <= Len(id)
        BY <3>4 DEF Begins
      <3>6. QED BY <3>2, <3>4, <3>5
    <2>4. Owners(t, ids) \subseteq {t} /\ Owners(t, ids) \subseteq ids
      BY <2>2 DEF Owners
    <2>5. Owners(t, ids) # {} => TargetObject(t, ids) \in ids
      BY <1>1, <2>4
    <2>6. ~HasEmptySubtarget(t, ids)
      BY <2>2 DEF HasEmptySubtarget
    <2>7. ~HasPaddedSubtarget(t, ids)
      BY <2>3 DEF HasPaddedSubtarget
    <2>8. QED BY <2>5, <2>6, <2>7
  <1>6. CASE \E id \in ids : IsSubtargetOf(t, id) /\ Canonical(t, id)
    <2>1. PICK x \in ids : IsSubtargetOf(t, x) /\ Canonical(t, x)
      BY <1>6
    <2>2. /\ Begins(x, t) /\ Begins(Unindented(x), Unindented(t))
          /\ Len(x) \in Nat /\ Len(t) \in Nat /\ Len(x) < Len(t)
      BY <1>3, <2>1
    <2>3. ASSUME NEW y \in ids, Begins(Unindented(y), Unindented(t)) PROVE y = x
      <3>1. Len(Unindented(x)) \in Nat /\ Len(Unindented(y)) \in Nat /\ Len(Unindented(t)) \in Nat
        BY <1>2, UnindentedList
      <3>2. Begins(Unindented(x), Unindented(y)) \/ Begins(Unindented(y), Unindented(x))
        BY <2>2, <2>3, <3>1, BothBegin
      <3>3. x \in SafeIds(d["objects"]) /\ y \in SafeIds(d["objects"]) /\ "objects" \in RecordLists
        BY DEF RecordLists
      <3>4. QED BY <1>2, <3>2, <3>3, BegunByItself
    <2>4. \A y \in ids : IsSubtargetOf(t, y) => y = x
      BY <1>3, <2>3
    <2>5. t \notin ids
      <3> SUFFICES ASSUME t \in ids PROVE FALSE
        OBVIOUS
      <3>1. Begins(Unindented(t), Unindented(t))
        <4>1. Len(Unindented(t)) \in Nat
          BY UnindentedList
        <4>2. QED BY <4>1 DEF Begins
      <3>2. t = x
        BY <2>3, <3>1
      <3>3. QED BY <2>2, <3>2
    <2>6. Owners(t, ids) \subseteq {x}
      BY <2>4, <2>5 DEF Owners
    <2>7. Owners(t, ids) # {} => TargetObject(t, ids) \in ids
      BY <1>1, <2>6
    <2>8. ~HasEmptySubtarget(t, ids)
      BY <2>1, <2>4 DEF HasEmptySubtarget, Canonical
    <2>9. ASSUME NEW id \in ids, Head(id) # " ",
                 IsSubtargetOf(Stripped(t), id) \/ PaddedSeparator(Stripped(t), id)
          PROVE  id = x /\ Stripped(t) = t /\ ~PaddedSeparator(t, x)
      <3>1. Unindented(id) = id /\ id[1] # " "
        BY <1>4, <2>9
      <3>2. id = x
        <4>1. Begins(id, Unindented(t))
          BY <1>2, <2>9, PaddedBegins
        <4>2. QED BY <2>3, <3>1, <4>1
      <3>3. x[1] # " " /\ Len(x) # 0
        <4>1. IsList(x) /\ x # <<>>
          BY <1>2
        <4>2. Len(x) # 0
          BY <4>1 DEF IsList
        <4>3. QED BY <3>1, <3>2, <4>2
      <3>4. t[1] # " " /\ t # <<>>
        <4>1. t[1] = x[1]
          <5>1. 1 \in 1..Len(x)
            <6>1. PICK n : n = Len(x)
              OBVIOUS
            <6>2. n \in Nat /\ n # 0
              BY <2>2, <3>3, <6>1
            <6>3. 1 \in 1..n
              BY ONLY <6>2
            <6>4. QED BY <6>1, <6>3
          <5>2. QED BY <5>1, <2>2 DEF Begins
        <4>2. t # <<>>
          BY <2>2
        <4>3. QED BY <3>3, <4>1, <4>2
      <3>5. Last(t) # " "
        BY <2>1, <2>2, LastIsCanonical
      <3>6. Stripped(t) = t
        BY <3>4, <3>5, UnindentedList, StrippedBegins
      <3>7. ~PaddedSeparator(t, x)
        BY <1>2, <2>1, SeparatorIsPlain
      <3>8. QED BY <3>2, <3>6, <3>7
    <2>10. ~HasPaddedSubtarget(t, ids)
      <3> SUFFICES ASSUME NEW id \in ids, Head(id) # " ",
                          \/ IsSubtargetOf(Stripped(t), id) /\ (t # Stripped(t) \/ ~Canonical(Stripped(t), id))
                          \/ PaddedSeparator(Stripped(t), id)
                   PROVE  FALSE
        BY DEF HasPaddedSubtarget
      <3>1. QED BY <2>1, <2>9
    <2>11. QED BY <2>7, <2>8, <2>10
  <1>7. QED BY <1>5, <1>6 DEF IsDeclared

-----------------------------------------------------------------------------
(* The names validation makes. *)

\* A name that begins with two words.
LEMMA Prefixed ==
    ASSUME NEW a, NEW b, NEW t, IsList(t), NEW s, s = <<a, b>> \o t
    PROVE  IsList(s) /\ s # <<>> /\ s[1] = a /\ Safe(s)
  <1>1. PICK C : C = Range(t) \cup {a, b}
    OBVIOUS
  <1>2. t \in Seq(C) /\ <<a, b>> \in Seq(C)
    BY <1>1 DEF IsList
  <1>3. PICK u : u = <<a, b>>
    OBVIOUS
  <1>4. Len(u) = 2 /\ u[1] = a
    BY <1>3
  <1>5. s \in Seq(C) /\ Len(s) = 2 + Len(t) /\ s[1] = a
    <2>1. /\ s \in Seq(C) /\ Len(s) = Len(u) + Len(t)
          /\ \A i \in 1..(Len(u) + Len(t)) : s[i] = IF i <= Len(u) THEN u[i] ELSE t[i - Len(u)]
      BY <1>2, <1>3, ConcatProperties
    <2>2. Len(t) \in Nat
      BY <1>2
    <2>3. QED BY <2>1, <2>2, <1>4
  <1>6. Len(t) \in Nat
    BY <1>2
  <1>7. PICK n : n = Len(s)
    OBVIOUS
  <1>8. n \in Nat /\ n # 0 /\ n # 1
    BY <1>5, <1>6, <1>7
  <1>9. Len(<<>>) = 0 /\ \A x : Len(<<x>>) = 1
    OBVIOUS
  <1>10. s # <<>> /\ \A x : s # <<x>>
    BY <1>7, <1>8, <1>9, Zenon
  <1>11. Safe(s)
    BY <1>10 DEF Safe, NotText, None, Blank, Spaces, Untyped, Number, NotANumber
  <1>12. QED BY <1>5, <1>10, <1>11, SequenceIsList

\* What an added record is called.
IsMade(id) == IsList(id) /\ IsMadeUp(id) /\ Safe(id)

\* The names of judgements are made up.
LEMMA MadeNames ==
    ASSUME NEW p, NEW t, IsList(t), NEW s
    PROVE  IsMade(ObligationId(p, t)) /\ IsMade(CheckId(ObligationId(p, t), s))
  <1>1. PICK o : o = <<"vobl", p>> \o t
    OBVIOUS
  <1>2. IsList(o) /\ o # <<>> /\ o[1] = "vobl" /\ Safe(o)
    BY <1>1, Prefixed
  <1>3. PICK c : c = <<"chk", s>> \o o
    OBVIOUS
  <1>4. IsList(c) /\ c # <<>> /\ c[1] = "chk" /\ Safe(c)
    BY <1>2, <1>3, Prefixed
  <1>5. IsMade(o) /\ IsMade(c)
    BY <1>2, <1>4 DEF IsMade, IsMadeUp
  <1>6. QED BY <1>1, <1>3, <1>5 DEF ObligationId, CheckId

\* So are those of the records that were added.
LEMMA AddedNames ==
    ASSUME NEW d, NEW e, NEW os, NEW cs, LayeredBy(d, e, os, cs)
    PROVE  /\ \A o \in Range(os) : o.typed /\ IsMade(o.id)
           /\ \A c \in Range(cs) : c.typed /\ IsMade(c.id)
  <1>1. ASSUME NEW o \in Range(os)
        PROVE  o.typed /\ IsMade(o.id)
    <2>1. PICK j : IsAdded(j) /\ o = ObligationOf(j)
      BY DEF LayeredBy
    <2>2. IsList(j.target)
      BY <2>1 DEF IsAdded
    <2>3. o.typed /\ o.id = ObligationId(j.property, j.target)
      BY <2>1, JudgementIs
    <2>4. QED BY <2>2, <2>3, MadeNames
  <1>2. ASSUME NEW c \in Range(cs)
        PROVE  c.typed /\ IsMade(c.id)
    <2>1. PICK j : IsAdded(j) /\ c = CheckOf(j)
      BY DEF LayeredBy
    <2>2. IsList(j.target)
      BY <2>1 DEF IsAdded
    <2>3. c.typed /\ c.id = CheckId(ObligationId(j.property, j.target), j.status)
      BY <2>1, JudgementIs
    <2>4. QED BY <2>2, <2>3, MadeNames
  <1>3. QED BY <1>1, <1>2

\* Records of which no two have one identity.
Apart(records) == \A i, k \in DOMAIN records : records[i].id = records[k].id => i = k

\* Records that came with names of their own, and records with made up names
\* after them, each once.
LEMMA NamesApart ==
    ASSUME NEW s, IsList(s), LayerSound(s), NoneMadeUp(s),
           NEW t, IsList(t), NEW A, NEW B, Once(t, A, B), \A r \in Range(t) : IsMade(r.id),
           NEW u, u = s \o t
    PROVE  Apart(u)
  <1>1. PICK C : C = Range(s) \cup Range(t)
    OBVIOUS
  <1>2. s \in Seq(C) /\ t \in Seq(C)
    BY <1>1 DEF IsList
  <1>3. /\ Len(s) \in Nat /\ Len(t) \in Nat /\ DOMAIN s = 1..Len(s) /\ DOMAIN t = 1..Len(t)
        /\ DOMAIN u = 1..(Len(s) + Len(t))
        /\ \A i \in 1..(Len(s) + Len(t)) : u[i] = IF i <= Len(s) THEN s[i] ELSE t[i - Len(s)]
    BY <1>2, ConcatProperties
  <1>4. \A i \in DOMAIN s : s[i].typed /\ Safe(s[i].id) /\ IsUnique(s[i].id, s) /\ ~IsMadeUp(s[i].id)
    BY DEF LayerSound, IdsSound, NoneMadeUp, Range
  <1>5. \A i, k \in DOMAIN s : s[i].id = s[k].id => i = k
    BY <1>4, UniqueIs, OneCarrier
  <1>6. \A i \in DOMAIN t : IsMadeUp(t[i].id)
    BY DEF IsMade, Range
  <1>7. ASSUME NEW i \in DOMAIN u, NEW k \in DOMAIN u, u[i].id = u[k].id
        PROVE  i = k
    <2>1. CASE i \in DOMAIN s /\ k \in DOMAIN s
      BY <2>1, <1>3, <1>5, <1>7
    <2>2. CASE i \notin DOMAIN s /\ k \notin DOMAIN s
      <3>1. i - Len(s) \in DOMAIN t /\ k - Len(s) \in DOMAIN t
            /\ u[i] = t[i - Len(s)] /\ u[k] = t[k - Len(s)]
        BY <2>2, <1>3
      <3>2. i - Len(s) = k - Len(s)
        BY <3>1, <1>7 DEF Once
      <3>3. QED BY <3>2, <1>3
    <2>3. CASE i \in DOMAIN s /\ k \notin DOMAIN s
      <3>1. u[i] = s[i] /\ k - Len(s) \in DOMAIN t /\ u[k] = t[k - Len(s)]
        BY <2>3, <1>3
      <3>2. QED BY <2>3, <3>1, <1>4, <1>6, <1>7
    <2>4. CASE k \in DOMAIN s /\ i \notin DOMAIN s
      <3>1. u[k] = s[k] /\ i - Len(s) \in DOMAIN t /\ u[i] = t[i - Len(s)]
        BY <2>4, <1>3
      <3>2. QED BY <2>4, <3>1, <1>4, <1>6, <1>7
    <2>5. QED BY <2>1, <2>2, <2>3, <2>4
  <1>8. QED BY <1>7 DEF Apart

\* No two obligations and no two checks of a document share a name, if no two of
\* those it came with do.
LEMMA LayersApart ==
    ASSUME NEW d, NEW e, IsLayer(e), LayerSound(e.obligations), LayerSound(e.checks),
           NEW os, NEW cs, LayeredBy(d, e, os, cs)
    PROVE  Apart(d.obligations) /\ Apart(d.checks)
  <1>1. /\ IsList(os) /\ d.obligations = e.obligations \o os /\ Once(os, {}, d.obligationIds)
        /\ IsList(cs) /\ d.checks = e.checks \o cs /\ Once(cs, {}, d.checkIds)
    BY DEF LayeredBy
  <1>2. /\ IsList(e.obligations) /\ NoneMadeUp(e.obligations)
        /\ IsList(e.checks) /\ NoneMadeUp(e.checks)
    BY DEF IsLayer
  <1>3. (\A o \in Range(os) : IsMade(o.id)) /\ (\A c \in Range(cs) : IsMade(c.id))
    BY AddedNames
  <1>4. PICK no : no = {}
    OBVIOUS
  <1>5. Once(os, no, d.obligationIds) /\ Once(cs, no, d.checkIds)
    BY <1>1, <1>4
  <1>6. PICK u, v : u = e.obligations \o os /\ v = e.checks \o cs
    OBVIOUS
  <1>7. Apart(u)
    BY <1>1, <1>2, <1>3, <1>5, <1>6, NamesApart
  <1>8. Apart(v)
    BY <1>1, <1>2, <1>3, <1>5, <1>6, NamesApart
  <1>9. QED BY <1>1, <1>6, <1>7, <1>8

\* Then none is a duplicate.
LEMMA ApartIsNotDuplicate ==
    ASSUME NEW records, Apart(records), NEW x
    PROVE  /\ ~IsDuplicate(x, records)
           /\ \A a, b \in Range(records) : a.id = b.id => a = b
  BY DEF Apart, IsDuplicate, Carriers, Range

\* The records that came with the document, and those added, are its records.
LEMMA LayeredRanges ==
    ASSUME NEW d, NEW e, IsLayer(e), NEW os, NEW cs, LayeredBy(d, e, os, cs)
    PROVE  /\ Range(d.obligations) = Range(e.obligations) \cup Range(os)
           /\ Range(d.checks) = Range(e.checks) \cup Range(cs)
  BY BothLists DEF LayeredBy, IsLayer

-----------------------------------------------------------------------------
(* What judgements of a sound document are about. *)

\* A part of an object is longer.
LEMMA PartOf ==
    ASSUME NEW id, IsList(id), NEW rest, IsList(rest), rest # <<>>, rest[1] \notin Padding,
           NEW t, t = id \o rest
    PROVE  IsList(t) /\ IsSubtargetOf(t, id) /\ Subtarget(t, id) = rest
  <1>1. PICK C : C = Range(id) \cup Range(rest)
    OBVIOUS
  <1>2. id \in Seq(C) /\ rest \in Seq(C)
    BY <1>1 DEF IsList
  <1>3. /\ Len(id) \in Nat /\ Len(rest) \in Nat /\ Len(rest) # 0
        /\ t \in Seq(C) /\ Len(t) = Len(id) + Len(rest)
        /\ \A i \in 1..Len(id) : t[i] = id[i]
    <2>1. Len(rest) # 0
      BY <1>2
    <2>2. Len(id) \in Nat /\ Len(rest) \in Nat
      BY <1>2
    <2>3. /\ t \in Seq(C) /\ Len(t) = Len(id) + Len(rest)
          /\ \A i \in 1..(Len(id) + Len(rest)) : t[i] = IF i <= Len(id) THEN id[i] ELSE rest[i - Len(id)]
      BY <1>2, ConcatProperties
    <2>4. QED BY <2>1, <2>2, <2>3
  <1>4. Len(t) > Len(id)
    BY <1>3
  <1>5. Subtarget(t, id) = rest
    BY Appended DEF Added, Subtarget
  <1>6. IsList(t)
    BY <1>3, SequenceIsList
  <1>7. IsStrictPrefix(id, t)
    <2>1. Begins(id, t)
      BY <1>3, <1>4 DEF Begins
    <2>2. id # t
      BY <1>4
    <2>3. QED BY <2>1, <2>2, <1>6, PrefixBegins DEF IsStrictPrefix
  <1>8. t[Len(id) + 1] \notin Padding
    <2>1. PICK n, m : n = Len(id) /\ m = Len(rest)
      OBVIOUS
    <2>2. n \in Nat /\ m \in Nat /\ m # 0
      BY <1>3, <2>1
    <2>3. n + 1 \in 1..(n + m) /\ ~(n + 1 <= n) /\ (n + 1) - n = 1
      BY ONLY <2>2
    <2>4. \A i \in 1..(Len(id) + Len(rest)) : t[i] = IF i <= Len(id) THEN id[i] ELSE rest[i - Len(id)]
      BY <1>2, ConcatProperties
    <2>5. QED BY <2>1, <2>3, <2>4
  <1>9. QED BY <1>5, <1>6, <1>7, <1>8 DEF IsSubtargetOf

Regroups(s, a, b, c) == ((s \o a) \o b) \o c = s \o ((a \o b) \o c)

\* Lists joined in either order are one list.
LEMMA FourLists ==
    ASSUME NEW s, IsList(s), NEW a, IsList(a), NEW b, IsList(b), NEW c, IsList(c)
    PROVE  Regroups(s, a, b, c)
  <1>1. PICK C : C = Range(s) \cup Range(a) \cup Range(b) \cup Range(c)
    OBVIOUS
  <1>2. s \in Seq(C) /\ a \in Seq(C) /\ b \in Seq(C) /\ c \in Seq(C)
    BY <1>1 DEF IsList
  <1>3. PICK ab : ab = a \o b
    OBVIOUS
  <1>4. ab \in Seq(C)
    BY <1>2, <1>3
  <1>5. (s \o a) \o b = s \o ab
    BY <1>2, <1>3, ConcatAssociative
  <1>6. (s \o ab) \o c = s \o (ab \o c)
    <2>1. s \in Seq(C) /\ ab \in Seq(C) /\ c \in Seq(C)
      BY <1>2, <1>4
    <2> HIDE <1>3
    <2>2. QED BY ONLY <2>1, ConcatAssociative
  <1>7. ((s \o a) \o b) \o c = s \o (ab \o c)
    BY <1>5, <1>6
  <1>8. QED BY <1>3, <1>7 DEF Regroups

\* Two lists joined begin as the first does.
LEMMA FirstOfBoth ==
    ASSUME NEW a, IsList(a), a # <<>>, NEW b, IsList(b), NEW ab, ab = a \o b
    PROVE  ab # <<>> /\ ab[1] = a[1]
  <1>1. PICK C : C = Range(a) \cup Range(b)
    OBVIOUS
  <1>2. a \in Seq(C) /\ b \in Seq(C)
    BY <1>1 DEF IsList
  <1>3. /\ ab \in Seq(C) /\ Len(ab) = Len(a) + Len(b)
        /\ \A i \in 1..(Len(a) + Len(b)) : ab[i] = IF i <= Len(a) THEN a[i] ELSE b[i - Len(a)]
    BY <1>2, ConcatProperties
  <1>4. Len(a) \in Nat /\ Len(b) \in Nat /\ Len(a) # 0
    BY <1>2
  <1>5. 1 \in 1..(Len(a) + Len(b)) /\ 1 <= Len(a) /\ Len(a) + Len(b) # 0
    BY ONLY <1>4
  <1>6. QED BY <1>3, <1>5

\* A fact the profile knows is a part of its object, and no defective one.
LEMMA FactIsPart ==
    ASSUME NEW obj, IsList(obj.id), IsList(obj.facts), NEW i \in DOMAIN obj.facts,
           PlainFact(obj.facts[i]), HasSchema(obj.facts[i]), NEW t, t = FactTarget(obj, i)
    PROVE  IsList(t) /\ IsSubtargetOf(t, obj.id) /\ Canonical(t, obj.id)
  <1>1. PICK a, b, c, name : /\ a = <<"fact">> /\ b = Place(i) /\ name = obj.facts[i].predicate /\ c = <<name>>
    OBVIOUS
  <1>2. t = ((obj.id \o a) \o b) \o c
    <2>1. obj.facts[i].form = "tuple"
      BY DEF PlainFact
    <2>2. QED BY <2>1, <1>1 DEF FactTarget
  <1>3. IsList(a) /\ Range(a) = {"fact"} /\ IsList(c) /\ Range(c) = {name}
    BY <1>1, Written DEF Told
  <1>4. IsList(b) /\ Range(b) \subseteq {"|"}
    <2>1. i \in Nat
      BY DEF IsList
    <2>2. Place(i) \in Seq({"|"})
      BY <2>1 DEF Place
    <2>3. IsList(Place(i))
      BY <2>2, SequenceIsList
    <2>4. QED BY <1>1, <2>3 DEF Range, Place
  <1>5. PICK ab, abc : ab = a \o b /\ abc = ab \o c
    OBVIOUS
  <1>6. IsList(ab) /\ Range(ab) \subseteq {"fact", "|"}
    BY <1>3, <1>4, <1>5, BothLists
  <1>7. IsList(abc) /\ Range(abc) \subseteq {"fact", "|", name} /\ name \in Range(abc)
    <2>1. IsList(ab \o c) /\ Range(ab \o c) = Range(ab) \cup Range(c)
      BY <1>3, <1>6, BothLists
    <2>2. IsList(abc) /\ Range(abc) = Range(ab) \cup {name}
      BY <1>3, <1>5, <2>1
    <2>3. QED BY <1>6, <2>2
  <1>8. t = obj.id \o abc
    <2>1. PICK id : id = obj.id
      OBVIOUS
    <2>2. Regroups(id, a, b, c)
      BY <1>3, <1>4, <2>1, FourLists
    <2>3. ((id \o a) \o b) \o c = id \o abc
      BY <1>5, <2>2 DEF Regroups
    <2>4. QED BY <1>2, <2>1, <2>3
  <1>9. abc # <<>> /\ abc[1] \notin Padding
    <2>1. abc # <<>>
      BY <1>7 DEF Range
    <2>2. a # <<>> /\ a[1] = "fact"
      BY <1>1
    <2>3. ab # <<>> /\ ab[1] = "fact"
      BY <1>3, <1>4, <1>5, <2>2, FirstOfBoth
    <2>4. abc[1] = "fact"
      BY <1>3, <1>5, <1>6, <2>3, FirstOfBoth
    <2>5. QED BY <2>1, <2>4 DEF Padding
  <1>10. IsList(t) /\ IsSubtargetOf(t, obj.id) /\ Subtarget(t, obj.id) = abc
    BY <1>7, <1>8, <1>9, PartOf
  <1>11. name \notin {"blank", "padded", " ", "zw"}
    <2>1. name \in DOMAIN FactSchemas
      BY <1>1 DEF HasSchema
    <2>2. {"blank", "padded", " ", "zw"} \cap DOMAIN FactSchemas = {}
      BY DEF FactSchemas
    <2>3. QED BY <2>1, <2>2
  <1>12. Canonical(t, obj.id)
    <2>1. Range(<<"blank">>) = {"blank"}
      BY DEF Range
    <2>2. abc # <<"blank">> /\ ({"padded"} \cup Padding) \cap Range(abc) = {}
      BY <1>7, <1>11, <2>1 DEF Padding
    <2>3. QED BY <1>10, <2>2 DEF Canonical
  <1>13. QED BY <1>10, <1>12

\* What is said of the records of a document and of its layer.
AreNamed(d, e) ==
    /\ \A r \in Records(d, e) : r.typed /\ Safe(r.id) /\ IsList(r.id)
    /\ \A r \in Records(d, e) : \E list \in RecordLists : r.id \in SafeIds(d[list])

\* They have names, and are records of the document.
LEMMA RecordsAreNamed ==
    ASSUME NEW d, NEW e, Fit(d), IsLayer(e), Sound(d, e, 16),
           Range(e.obligations) \subseteq Range(d.obligations), Range(e.checks) \subseteq Range(d.checks)
    PROVE  AreNamed(d, e)
  <1>1. /\ FilesSound(d) /\ SpansSound(d) /\ IdsSound(d.files) /\ IdsSound(d.spans)
        /\ SectionsSound(d) /\ ItemsSound(d) /\ ObjectsSound(d)
        /\ LayerSound(e.obligations) /\ LayerSound(e.checks)
    BY SoundParts
  <1>2. /\ HaveIds(d.files) /\ HaveIds(d.spans) /\ HaveIds(d.sections) /\ HaveIds(d.items) /\ HaveIds(d.objects)
        /\ HaveIds(e.obligations) /\ HaveIds(e.checks)
    BY DEF Fit, IsLayer
  <1>3. ASSUME NEW records, HaveIds(records), LayerSound(records), NEW r \in Range(records)
        PROVE  r.typed /\ Safe(r.id) /\ IsList(r.id)
    BY <1>3 DEF HaveIds, LayerSound, IdsSound, Range
  <1>4. /\ LayerSound(d.files) /\ LayerSound(d.spans) /\ LayerSound(d.sections)
        /\ LayerSound(d.items) /\ LayerSound(d.objects)
    BY <1>1 DEF LayerSound, FilesSound, SpansSound, SectionsSound, ItemsSound, ObjectsSound
  <1>5. \A r \in Records(d, e) : r.typed /\ Safe(r.id) /\ IsList(r.id)
    BY <1>1, <1>2, <1>3, <1>4 DEF Records
  <1>6. ASSUME NEW r \in Records(d, e)
        PROVE  \E list \in RecordLists : r.id \in SafeIds(d[list])
    <2>1. r.typed /\ Safe(r.id)
      BY <1>5
    <2>2. PICK list \in RecordLists : r \in Range(d[list])
      BY DEF Records, RecordLists
    <2>3. QED BY <2>1, <2>2 DEF SafeIds
  <1>7. QED BY <1>5, <1>6 DEF AreNamed

\* A target that judgements are about is declared.
LEMMA TargetsAreDeclared ==
    ASSUME NEW d, NEW e, AreNamed(d, e), FactLists(d.objects), NEW t, TargetIn(d, e, t)
    PROVE  IsList(t) /\ Safe(t) /\ IsDeclared(d, t)
  <1>1. CASE \E r \in Records(d, e) : r.typed /\ (t = r.id \/ ~Safe(r.id))
    <2>1. PICK r \in Records(d, e) : t = r.id
      BY <1>1 DEF AreNamed
    <2>2. QED BY <2>1 DEF AreNamed, IsDeclared
  <1>2. CASE \E obj \in Asking(d.objects) : \E i \in DOMAIN obj.facts :
                PlainFact(obj.facts[i]) /\ HasSchema(obj.facts[i]) /\ t = FactTarget(obj, i)
    <2>1. PICK obj \in Asking(d.objects) : \E i \in DOMAIN obj.facts :
                PlainFact(obj.facts[i]) /\ HasSchema(obj.facts[i]) /\ t = FactTarget(obj, i)
      BY <1>2
    <2>2. PICK i \in DOMAIN obj.facts :
                PlainFact(obj.facts[i]) /\ HasSchema(obj.facts[i]) /\ t = FactTarget(obj, i)
      BY <2>1
    <2>3. obj \in Range(d.objects) /\ obj.typed
      BY DEF Asking
    <2>4. Safe(obj.id) /\ IsList(obj.id) /\ IsList(obj.facts)
      BY <2>3 DEF AreNamed, Records, FactLists
    <2>5. IsList(t) /\ IsSubtargetOf(t, obj.id) /\ Canonical(t, obj.id)
      BY <2>2, <2>4, FactIsPart
    <2>6. Safe(t)
      BY <2>4, <2>5, PartIsSafe
    <2>7. obj.id \in SafeIds(d.objects)
      BY <2>3, <2>4 DEF SafeIds
    <2>8. QED BY <2>5, <2>6, <2>7 DEF IsDeclared
  <1>3. QED BY <1>1, <1>2 DEF TargetIn

\* A span that judgements carry is written, or absent, or that of an object.
LEMMA SpansAreCited ==
    ASSUME NEW d, NEW e, Sound(d, e, 16), AreNamed(d, e), NEW w, Manifest(d, w), NEW x, SpanIn(d, e, x)
    PROVE  /\ OptionalProvenanceReason(x) = "none"
           /\ SpanNotEmitted(d, w.spans, x) => \E obj \in Range(d.objects) : x = obj.span
  <1>1. /\ SectionsSound(d) /\ ItemsSound(d) /\ ObjectsSound(d) /\ ObligationsSound(d, e)
    BY SoundParts
  <1>2. x = None \/ Safe(x) => OptionalProvenanceReason(x) = "none"
    BY AdmittedSpanOf
  <1>3. CASE x = None
    BY <1>2, <1>3 DEF SpanNotEmitted, Safe, NotText
  <1>4. CASE \E s \in Range(d.spans) : s.typed /\ x = s.id
    <2>1. PICK s \in Range(d.spans) : s.typed /\ x = s.id
      BY <1>4
    <2>2. Safe(x)
      BY <2>1 DEF AreNamed, Records
    <2>3. x \in w.spans
      BY <2>1, <2>2 DEF Manifest, SafeIds
    <2>4. QED BY <1>2, <2>2, <2>3 DEF SpanNotEmitted
  <1>5. ASSUME NEW r \in Range(d.sections) \cup Range(d.items), x = r.span
        PROVE  Safe(x) /\ x \in w.spans
    BY <1>1, <1>5 DEF SectionsSound, ItemsSound, SpanIsIn, Manifest
  <1>6. CASE \E r \in Range(d.sections) \cup Range(d.items) : x = r.span
    BY <1>2, <1>5, <1>6 DEF SpanNotEmitted
  <1>7. CASE \E r \in Range(d.objects) : x = r.span
    BY <1>1, <1>2, <1>7 DEF ObjectsSound, SafeOptional
  <1>8. CASE \E r \in Range(e.obligations) : r.typed /\ x = r.span
    <2>1. x \in SafeIds(d.spans)
      BY <1>1, <1>8 DEF ObligationsSound
    <2>2. Safe(x) /\ x \in w.spans
      BY <2>1 DEF SafeIds, Manifest
    <2>3. QED BY <1>2, <2>2 DEF SpanNotEmitted
  <1>9. QED BY <1>3, <1>4, <1>6, <1>7, <1>8 DEF SpanIn

-----------------------------------------------------------------------------
(* The layer of a sound document. *)

\* What is known of a document that validation found sound, its layer, and what
\* was written of it.
Settled(d, e, w, os, cs) ==
    /\ Fit(d) /\ FactLists(d.objects) /\ IsLayer(e) /\ Given(d, e)
    /\ Sound(d, e, 16) /\ LayeredBy(d, e, os, cs) /\ GroundedBy(d, e, os, cs)
    /\ NoParts(d) /\ IsWritten(d, w)

\* A property that is judged is a text.
LEMMA JudgedPropertyIsText ==
    ASSUME NEW p, Group(p) \in 1..16
    PROVE  SafeText(p)
  <1>1. Group("blank") = 0 /\ Group("untyped") = 0
    BY DEF Group
  <1>2. 0 \notin 1..16
    OBVIOUS
  <1>3. p # "blank" /\ p # "untyped"
    BY <1>1, <1>2
  <1>4. QED BY <1>3 DEF SafeText

\* What follows of the document as a whole.
LEMMA SettledIs ==
    ASSUME NEW d, NEW e, NEW w, NEW os, NEW cs, Settled(d, e, w, os, cs)
    PROVE  /\ \A list \in RecordLists : IsList(d[list])
           /\ FilesSound(d) /\ SpansSound(d) /\ IdsSound(d.files) /\ IdsSound(d.spans)
           /\ SectionsSound(d) /\ ItemsSound(d) /\ ObjectsSound(d) /\ LevelsSound(d) /\ FactsSound(d)
           /\ ObligationsSound(d, e) /\ ChecksSound(d, e)
           /\ Manifest(d, w) /\ AreNamed(d, e) /\ ObjectIdsAreLists(d)
           /\ Apart(d.obligations) /\ Apart(d.checks)
           /\ Range(d.obligations) = Range(e.obligations) \cup Range(os)
           /\ Range(d.checks) = Range(e.checks) \cup Range(cs)
  <1>1. /\ FilesSound(d) /\ SpansSound(d) /\ IdsSound(d.files) /\ IdsSound(d.spans)
        /\ SectionsSound(d) /\ ItemsSound(d) /\ ObjectsSound(d) /\ LevelsSound(d) /\ FactsSound(d)
        /\ ObligationsSound(d, e) /\ ChecksSound(d, e)
        /\ LayerSound(e.obligations) /\ LayerSound(e.checks)
    BY SoundParts DEF Settled
  <1>2. \A list \in RecordLists : IsList(d[list])
    BY DEF Settled, Fit
  <1>3. HaveIds(d.objects)
    BY DEF Settled, Fit
  <1>4. /\ Range(d.obligations) = Range(e.obligations) \cup Range(os)
        /\ Range(d.checks) = Range(e.checks) \cup Range(cs)
    BY LayeredRanges DEF Settled
  <1>5. Apart(d.obligations) /\ Apart(d.checks)
    BY <1>1, LayersApart DEF Settled
  <1>6. AreNamed(d, e)
    BY <1>4, RecordsAreNamed DEF Settled
  <1>7. Manifest(d, w)
    <2>1. w.files = FilesOf(d) /\ w.spans = SpansOf(d, w)
      BY DEF Settled, IsWritten
    <2>2. \A x : IsUnique(x, d.files) => x \in w.files
      BY <1>1, <2>1, FilesStand
    <2>3. /\ \A x \in SafeIds(d.spans) : x \in w.spans
          /\ \A x : IsUnique(x, d.spans) => x \in w.spans
      BY <1>1, <2>1, SpansStand DEF Settled
    <2>4. QED BY <2>2, <2>3 DEF Manifest
  <1>8. ObjectIdsAreLists(d)
    BY <1>3 DEF ObjectIdsAreLists, SafeIds, Safe, Blank, HaveIds, Range
  <1>9. QED BY <1>1, <1>2, <1>4, <1>5, <1>6, <1>7, <1>8

\* What an obligation says is in order, and its target declared.
LEMMA ObligationsAreSound ==
    ASSUME NEW d, NEW e, NEW w, NEW os, NEW cs, Settled(d, e, w, os, cs), NEW o \in Range(d.obligations)
    PROVE  /\ o.typed /\ Safe(o.id) /\ IsList(o.id) /\ SafeText(o.property) /\ SafeText(o.rationale)
           /\ IsList(o.target) /\ Safe(o.target) /\ IsDeclared(d, o.target)
           /\ OptionalProvenanceReason(o.span) = "none"
           /\ SpanNotEmitted(d, w.spans, o.span) => \E obj \in Range(d.objects) : o.span = obj.span
  <1>1. /\ ObligationsSound(d, e) /\ Manifest(d, w) /\ AreNamed(d, e)
        /\ Range(d.obligations) = Range(e.obligations) \cup Range(os)
    BY SettledIs
  <1>2. CASE o \in Range(e.obligations)
    <2>1. o.typed /\ Safe(o.id) /\ IsList(o.id)
      BY <1>1, <1>2 DEF AreNamed, Records
    <2>2. /\ SafeText(o.property) /\ SafeText(o.rationale) /\ Safe(o.target)
          /\ o.span \in SafeIds(d.spans) /\ IsDeclared(d, o.target)
      BY <1>1, <1>2, <2>1 DEF ObligationsSound
    <2>3. IsList(o.target)
      BY <1>2, <2>1 DEF Settled, Given
    <2>4. Safe(o.span) /\ o.span \in w.spans
      BY <1>1, <2>2 DEF Manifest, SafeIds
    <2>5. OptionalProvenanceReason(o.span) = "none" /\ ~SpanNotEmitted(d, w.spans, o.span)
      BY <2>4, AdmittedSpanOf DEF SpanNotEmitted
    <2>6. QED BY <2>1, <2>2, <2>3, <2>5
  <1>3. CASE o \in Range(os)
    <2>1. PICK j : IsAdded(j) /\ o = ObligationOf(j)
      BY <1>3 DEF Settled, LayeredBy
    <2>2. o.typed /\ o.property = j.property /\ o.rationale = "text"
      BY <2>1, JudgementIs
    <2>3. SafeText(o.property) /\ SafeText(o.rationale)
      BY <2>1, <2>2, JudgedPropertyIsText DEF IsAdded, SafeText
    <2>4. IsMade(o.id)
      BY <1>3, AddedNames DEF Settled
    <2>5. TargetIn(d, e, o.target) /\ SpanIn(d, e, o.span)
      BY <1>3 DEF Settled, GroundedBy
    <2>6. IsList(o.target) /\ Safe(o.target) /\ IsDeclared(d, o.target)
      BY <1>1, <2>5, TargetsAreDeclared DEF Settled
    <2>7. /\ OptionalProvenanceReason(o.span) = "none"
          /\ SpanNotEmitted(d, w.spans, o.span) => \E obj \in Range(d.objects) : o.span = obj.span
      BY <1>1, <2>5, SpansAreCited DEF Settled
    <2>8. QED BY <2>2, <2>3, <2>4, <2>6, <2>7 DEF IsMade
  <1>4. QED BY <1>1, <1>2, <1>3

\* An obligation that is refused cites the span of a stray object, or is about one.
LEMMA RefusedObligationStrays ==
    ASSUME NEW d, NEW e, NEW w, NEW os, NEW cs, Settled(d, e, w, os, cs), NEW o \in Range(d.obligations),
           ObligationReason(d, w, o) # "none"
    PROVE  \E obj \in Strays(d, w) :
             o.span = obj.span \/ TargetObject(o.target, SafeIds(d.objects)) = obj.id
  <1>1. /\ o.typed /\ Safe(o.id) /\ IsList(o.id) /\ SafeText(o.property) /\ SafeText(o.rationale)
        /\ IsList(o.target) /\ Safe(o.target) /\ IsDeclared(d, o.target)
        /\ OptionalProvenanceReason(o.span) = "none"
        /\ SpanNotEmitted(d, w.spans, o.span) => \E obj \in Range(d.objects) : o.span = obj.span
    BY ObligationsAreSound
  <1>2. /\ ObjectsSound(d) /\ LevelsSound(d) /\ Manifest(d, w) /\ ObjectIdsAreLists(d)
        /\ Apart(d.obligations)
    BY SettledIs
  <1>3. ~IsDuplicate(o.id, d.obligations)
    BY <1>2, ApartIsNotDuplicate
  <1>4. /\ ~HasEmptySubtarget(o.target, SafeIds(d.objects))
        /\ ~HasPaddedSubtarget(o.target, SafeIds(d.objects))
        /\ Owners(o.target, SafeIds(d.objects)) # {} =>
             TargetObject(o.target, SafeIds(d.objects)) \in SafeIds(d.objects)
    BY <1>1, <1>2, OneOwner DEF Settled
  <1>5. CASE SpanNotEmitted(d, w.spans, o.span)
    <2>1. PICK obj \in Range(d.objects) : o.span = obj.span
      BY <1>1, <1>5
    <2>2. SpanNotEmitted(d, w.spans, obj.span)
      BY <1>5, <2>1
    <2>3. obj \in Strays(d, w)
      BY <1>2, <2>2, RefusedObjectStrays
    <2>4. QED BY <2>1, <2>3
  <1>6. CASE OwnerNotEmitted(d, w.objects, o.target)
    <2>1. PICK t : t = TargetObject(o.target, SafeIds(d.objects))
      OBVIOUS
    <2>2. t \in SafeIds(d.objects) /\ t \notin w.objects
      BY <1>4, <1>6, <2>1 DEF OwnerNotEmitted
    <2>3. PICK obj \in Range(d.objects) : t = obj.id
      BY <2>2 DEF SafeIds
    <2>4. PICK i \in DOMAIN d.objects : obj = d.objects[i]
      BY DEF Range
    <2>5. ObjectReason(d, w, obj) # "none"
      BY <2>2, <2>3, <2>4 DEF Settled, IsWritten, ObjectsOf
    <2>6. obj \in Strays(d, w)
      BY <1>2, <2>5, RefusedObjectStrays
    <2>7. QED BY <2>1, <2>3, <2>6
  <1>7. QED BY <1>1, <1>3, <1>4, <1>5, <1>6, AdmittedObligation

\* Of the checks, those whose obligation was refused are refused, and no other.
LEMMA RefusedCheckIsUnlinked ==
    ASSUME NEW d, NEW e, NEW w, NEW os, NEW cs, Settled(d, e, w, os, cs), NEW c \in Range(d.checks),
           c.obligation \in w.obligations
    PROVE  CheckReason(d, w, c) = "none"
  <1>1. /\ ChecksSound(d, e) /\ AreNamed(d, e) /\ Apart(d.obligations) /\ Apart(d.checks)
        /\ Range(d.obligations) = Range(e.obligations) \cup Range(os)
        /\ Range(d.checks) = Range(e.checks) \cup Range(cs)
    BY SettledIs
  <1>2. ~IsDuplicate(c.id, d.checks)
    BY <1>1, ApartIsNotDuplicate
  <1>3. \A a, b \in Range(d.obligations) : a.id = b.id => a = b
    BY <1>1, ApartIsNotDuplicate
  <1>4. CASE c \in Range(e.checks)
    <2>1. c.typed /\ Safe(c.id)
      BY <1>1, <1>4 DEF AreNamed, Records
    <2>2. /\ SafeText(c.property) /\ Safe(c.target) /\ c.status # "untyped" /\ SafeText(c.evidence)
          /\ Safe(c.obligation)
          /\ \E o \in Range(d.obligations) :
               o.typed /\ <<o.id, o.property, o.target>> = <<c.obligation, c.property, c.target>>
      BY <1>1, <1>4, <2>1 DEF ChecksSound
    <2>3. \A o \in Range(d.obligations) : o.id = c.obligation => o.property = c.property /\ o.target = c.target
      BY <1>3, <2>2
    <2>4. QED BY <1>2, <2>1, <2>2, <2>3, AdmittedCheck
  <1>5. CASE c \in Range(cs)
    <2>1. PICK j : IsAdded(j) /\ c = CheckOf(j)
      BY <1>5 DEF Settled, LayeredBy
    <2>2. /\ c.typed /\ c.obligation = ObligationId(j.property, j.target)
          /\ c.property = j.property /\ c.target = j.target /\ c.status = j.status /\ c.evidence = "text"
      BY <2>1, JudgementIs
    <2>3. SafeText(c.property) /\ SafeText(c.evidence) /\ c.status # "untyped"
      BY <2>1, <2>2, JudgedPropertyIsText DEF IsAdded, SafeText
    <2>4. IsMade(c.id)
      BY <1>5, AddedNames DEF Settled
    <2>5. IsList(j.target)
      BY <2>1 DEF IsAdded
    <2>6. IsMade(c.obligation)
      BY <2>2, <2>5, MadeNames
    <2>7. TargetIn(d, e, c.target)
      BY <1>5 DEF Settled, GroundedBy
    <2>8. Safe(c.target)
      BY <1>1, <2>7, TargetsAreDeclared DEF Settled
    <2>9. ASSUME NEW o \in Range(d.obligations), o.typed, o.id = c.obligation
          PROVE  o.property = c.property /\ o.target = c.target
      <3>1. o \notin Range(e.obligations)
        <4>1. NoneMadeUp(e.obligations)
          BY DEF Settled, IsLayer
        <4>2. IsMadeUp(o.id)
          BY <2>6, <2>9 DEF IsMade
        <4>3. QED BY <4>1, <4>2, <2>9 DEF NoneMadeUp, Range
      <3>2. PICK k : IsAdded(k) /\ o = ObligationOf(k)
        BY <1>1, <3>1 DEF Settled, LayeredBy
      <3>3. o.id = ObligationId(k.property, k.target) /\ o.property = k.property /\ o.target = k.target
        BY <3>2, JudgementIs
      <3>4. IsList(k.target)
        BY <3>2 DEF IsAdded
      <3>5. k.property = j.property /\ k.target = j.target
        <4>1. PICK p, q, t, u : p = k.property /\ q = j.property /\ t = k.target /\ u = j.target
          OBVIOUS
        <4>2. IsList(t) /\ IsList(u) /\ ObligationId(p, t) = ObligationId(q, u)
          BY <2>2, <2>5, <2>9, <3>3, <3>4, <4>1
        <4>3. p = q /\ t = u
          BY <4>2, SameObligation
        <4>4. QED BY <4>1, <4>3
      <3>6. QED BY <2>2, <3>3, <3>5
    <2>10. QED BY <1>2, <2>2, <2>3, <2>4, <2>6, <2>8, <2>9, AdmittedCheck DEF IsMade
  <1>6. QED BY <1>1, <1>4, <1>5

\* The lists that are written whole, and the objects.
LEMMA WrittenWhole ==
    ASSUME NEW d, NEW e, NEW w, NEW os, NEW cs, Settled(d, e, w, os, cs)
    PROVE  /\ \A f \in Range(d.files) : PlainFileReason(d, f) = "none"
           /\ \A s \in Range(d.spans) : SpanReason(d, w.files, s) = "none"
           /\ \A s \in Range(d.sections) : SectionReason(d, w, s) = "none"
           /\ Range(d.items) \in ClosedSets(d, w)
           /\ \A obj \in Range(d.objects) : ObjectReason(d, w, obj) # "none" => obj \in Strays(d, w)
           /\ \A obj \in Range(d.objects) : \A i \in DOMAIN obj.facts :
                ProfileFactReason(obj, obj.facts[i]) = "none"
  <1>1. /\ \A list \in RecordLists : IsList(d[list])
        /\ FilesSound(d) /\ SpansSound(d) /\ IdsSound(d.files) /\ IdsSound(d.spans)
        /\ SectionsSound(d) /\ ItemsSound(d) /\ ObjectsSound(d) /\ LevelsSound(d) /\ FactsSound(d)
        /\ Manifest(d, w)
    BY SettledIs
  <1>2. IsList(d.spans) /\ IsList(d.sections) /\ IsList(d.items)
    BY <1>1 DEF RecordLists
  <1>3. Given(d, e) /\ w.files = FilesOf(d) /\ w.spans = SpansOf(d, w) /\ w.sections = SectionsOf(d, w)
    BY DEF Settled, IsWritten
  <1>4. \A f \in Range(d.files) : PlainFileReason(d, f) = "none"
    BY <1>1, FilesStand
  <1>5. \A s \in Range(d.spans) : SpanReason(d, w.files, s) = "none"
    BY <1>1, <1>3, SpansStand
  <1>6. \A s \in Range(d.sections) : SectionReason(d, w, s) = "none"
    BY <1>1, <1>2, SectionsStand
  <1>7. Range(d.items) \in ClosedSets(d, w)
    BY <1>1, <1>2, <1>3, ItemsStandWhole
  <1>8. \A obj \in Range(d.objects) : ObjectReason(d, w, obj) # "none" => obj \in Strays(d, w)
    BY <1>1, RefusedObjectStrays
  <1>9. ASSUME NEW obj \in Range(d.objects), NEW i \in DOMAIN obj.facts
        PROVE  ProfileFactReason(obj, obj.facts[i]) = "none"
    <2>1. obj \in Asking(d.objects)
      BY <1>1 DEF ObjectsSound, Asking
    <2>2. SoundFact(obj, obj.facts[i])
      BY <1>1, <2>1 DEF FactsSound
    <2>3. QED BY <2>2, SoundFactAdmitted
  <1>10. QED BY <1>4, <1>5, <1>6, <1>7, <1>8, <1>9

-----------------------------------------------------------------------------
(* Clean documents. *)

\* A refusal of what was written of a document that validation found sound is
\* one that a stray object accounts for.
Explained(d, w, r) ==
    LET record == d[r[1]][r[2]] IN
    \/ r[1] = "objects" /\ record \in Strays(d, w)
    \/ /\ r[1] = "obligations"
       /\ \E obj \in Strays(d, w) : \/ record.span = obj.span
                                    \/ TargetObject(record.target, SafeIds(d.objects)) = obj.id
    \/ r[1] = "checks" /\ record.obligation \notin w.obligations

\* Every refusal has its reason, and a stray object accounts for the reason.
LEMMA RefusalsAreExplained ==
    ASSUME NEW d, NEW e, NEW w, NEW os, NEW cs, Settled(d, e, w, os, cs), NEW r, Refused(d, w, r)
    PROVE  Explained(d, w, r)
  <1>1. PICK list, i : list = r[1] /\ i = r[2]
    OBVIOUS
  <1>2. \A l \in RecordLists : \A k \in DOMAIN d[l] : d[l][k] \in Range(d[l])
    BY DEF Range
  <1>3. CASE list \in {"files", "spans", "sections", "items"}
    <2>1. ~(list = "files" /\ i \in DOMAIN d.files /\ PlainFileReason(d, d.files[i]) # "none")
      BY WrittenWhole DEF Range
    <2>2. ~(list = "spans" /\ i \in DOMAIN d.spans /\ SpanReason(d, w.files, d.spans[i]) # "none")
      BY WrittenWhole DEF Range
    <2>3. ~(list = "sections" /\ i \in DOMAIN d.sections /\ SectionReason(d, w, d.sections[i]) # "none")
      BY WrittenWhole DEF Range
    <2>4. ~(list = "items" /\ i \in DOMAIN d.items /\ \A S \in ClosedSets(d, w) : d.items[i] \notin S)
      BY WrittenWhole DEF Range
    <2>5. QED BY <1>1, <1>3, <2>1, <2>2, <2>3, <2>4 DEF Refused
  <1>4. CASE list = "objects"
    <2>1. i \in DOMAIN d.objects /\ ObjectReason(d, w, d.objects[i]) # "none"
      BY <1>1, <1>4 DEF Refused
    <2>2. d.objects[i] \in Strays(d, w)
      BY <2>1, WrittenWhole DEF Range
    <2>3. QED BY <1>1, <1>4, <2>2 DEF Explained
  <1>5. CASE list = "facts"
    <2>1. /\ i \in DOMAIN d.objects /\ r[3] \in DOMAIN d.objects[i].facts
          /\ ProfileFactReason(d.objects[i], d.objects[i].facts[r[3]]) # "none"
      BY <1>1, <1>5 DEF Refused
    <2>2. d.objects[i] \in Range(d.objects)
      BY <2>1 DEF Range
    <2>3. QED BY <2>1, <2>2, WrittenWhole
  <1>6. CASE list = "obligations"
    <2>1. i \in DOMAIN d.obligations /\ ObligationReason(d, w, d.obligations[i]) # "none"
      BY <1>1, <1>6 DEF Refused
    <2>2. PICK o : o = d.obligations[i]
      OBVIOUS
    <2>3. o \in Range(d.obligations) /\ ObligationReason(d, w, o) # "none"
      BY <2>1, <2>2 DEF Range
    <2>4. \E obj \in Strays(d, w) : o.span = obj.span \/ TargetObject(o.target, SafeIds(d.objects)) = obj.id
      BY <2>3, RefusedObligationStrays
    <2>5. QED BY <1>1, <1>6, <2>2, <2>4 DEF Explained
  <1>7. CASE list = "checks"
    <2>1. i \in DOMAIN d.checks /\ CheckReason(d, w, d.checks[i]) # "none"
      BY <1>1, <1>7 DEF Refused
    <2>2. PICK c : c = d.checks[i]
      OBVIOUS
    <2>3. c \in Range(d.checks) /\ CheckReason(d, w, c) # "none"
      BY <2>1, <2>2 DEF Range
    <2>4. c.obligation \notin w.obligations
      BY <2>3, RefusedCheckIsUnlinked
    <2>5. QED BY <1>1, <1>7, <2>2, <2>4 DEF Explained
  <1>8. QED BY <1>1, <1>3, <1>4, <1>5, <1>6, <1>7 DEF Refused

\* A document that validation passes without a Fail or an Unknown is emitted
\* whole, if no record looks like a part of an object (validate_document,
\* validators.py:268-1884, against emit_reified_atoms): all that the backend
\* refuses of it is a generated object whose span the manifest lacks, and what
\* is said of that object.
THEOREM CleanDocumentsAreAccepted == Spec => []CleanIsAccepted
  <1>1. EmissionInv /\ ValidationInv /\ AccountedInv /\ RefusalsInv => CleanIsAccepted
    <2> SUFFICES ASSUME EmissionInv, ValidationInv, AccountedInv, RefusalsInv,
                        stage = "emitted", entry.validated, Unsettled({"Fail", "Unknown"}) = {},
                        NoneLooksLikeAPart,
                        NEW refusal \in out.refusals
                 PROVE  Explained(doc, out, refusal)
      BY DEF CleanIsAccepted, Explained, Strays
    <2>1. Judging(doc, entry, 16) /\ Accounted(doc, entry, 16)
      BY DEF ValidationInv, AccountedInv, Progress
    <2>2. Clean(doc, entry)
      BY DEF Unsettled, Clean, AnswersIn
    <2>3. PICK os, cs : /\ LayeredBy(doc, entry, os, cs)
                        /\ GroundedBy(doc, entry, os, cs) /\ Sound(doc, entry, 16)
      BY <2>1, <2>2 DEF Accounted
    <2>4. IsWritten(doc, out)
      BY DEF EmissionInv, WrittenFiles, WrittenSpans, WrittenSections, WrittenItems, ItemsStand,
             WrittenObjects, WrittenObligations, WrittenChecks, IsWritten
    <2>5. NoParts(doc)
      BY DEF NoneLooksLikeAPart, NoParts
    <2>6. Settled(doc, entry, out, os, cs)
      BY <2>1, <2>3, <2>4, <2>5 DEF Settled, Judging, Accounted
    <2>7. Refused(doc, out, refusal)
      BY DEF RefusalsInv
    <2>8. QED BY <2>6, <2>7, RefusalsAreExplained
  <1>2. QED BY <1>1, EmissionInvariant, ValidationInvariant, AccountedInvariant, RefusalsInvariant, PTL
=============================================================================
