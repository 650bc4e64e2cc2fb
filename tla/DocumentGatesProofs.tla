------------------------- MODULE DocumentGatesProofs -------------------------
(***************************************************************************)
(* What the compiler's gates do to a document, for every document:         *)
(* MCDocumentGates is a few documents and their defects; here Inputs is    *)
(* any set of documents made of lists, not validated before.               *)
(*                                                                         *)
(* Part 1, emission.  The inductive invariant EmissionInv says of every    *)
(* list, once its stage is past, that it holds exactly what the rules      *)
(* admit of the document given the lists written before it.  Of the items  *)
(* it says that those standing are candidates and that no set of           *)
(* candidates closed under parents has been broken up by the loop, so that *)
(* when a round refuses nothing the largest such set is left.  The lemmas  *)
(* before it say what the first rule that holds decides (FirstReason),     *)
(* what is true of a record no rule refuses, and that the rules of         *)
(* diagnostics.py decide what those of petta.py decide.                    *)
(*                                                                         *)
(* Part 2, the walk over references that the gate before executable        *)
(* skeletons takes.  Its rounds end with every path found, since a path    *)
(* that goes on meets no object twice; so what the gate lets through is    *)
(* closed under references, and has no cycle.                              *)
(*                                                                         *)
(* Part 3, validation.  A step adds the answers of a set of judgements     *)
(* (Adds), of properties no other step judges (Group).  Within a step the  *)
(* identity of a record, or its place, tells its judgements from the       *)
(* others', so an obligation has one answer (ValidationInv).  Answers that *)
(* are unknown come with the question that asks for them, and a question   *)
(* blocks one obligation (AskedInv).                                       *)
(***************************************************************************)
EXTENDS DocumentGates, FiniteSetTheorems, SequenceTheorems, WellFoundedInduction, TLAPS

\* Numbers that are not none have a least one.
LEMMA LeastNumber ==
    ASSUME NEW S, S \subseteq Nat, S # {}
    PROVE  \E m \in S : \A k \in S : m <= k
  <1>1. PICK m \in S : \A k \in S : <<k, m>> \notin OpToRel(<, Nat)
    BY WFMin, NatLessThanWellFounded, Zenon
  <1>2. \A k \in S : ~(k < m)
    BY <1>1, Zenon DEF OpToRel
  <1>3. QED BY <1>2

\* The reason given is the one of a rule that holds, if any does.
LEMMA FirstReasonHolds ==
    ASSUME NEW rules, NEW n \in Nat, DOMAIN rules = 1..n, NEW k \in 1..n, rules[k][1]
    PROVE  \E i \in 1..n : rules[i][1] /\ FirstReason(rules) = rules[i][2] /\ i <= k
  <1> DEFINE held == {i \in DOMAIN rules : rules[i][1]}
  <1>1. held \subseteq Nat /\ k \in held
    OBVIOUS
  <1>2. \E m \in held : \A j \in held : m <= j
    BY <1>1, LeastNumber
  <1> DEFINE first == CHOOSE i \in held : \A j \in held : i <= j
  <1>3. first \in held /\ first <= k
    <2> HIDE DEF held
    <2>1. first \in held /\ \A j \in held : first <= j
      BY <1>2
    <2>2. QED BY <2>1, <1>1
  <1>4. FirstReason(rules) = rules[first][2]
    BY <1>1 DEF FirstReason
  <1>5. QED BY <1>3, <1>4

\* A first rule that holds decides.
LEMMA FirstRuleDecides ==
    ASSUME NEW rules, NEW n \in Nat \ {0}, DOMAIN rules = 1..n, rules[1][1]
    PROVE  FirstReason(rules) = rules[1][2]
  <1>1. 1 \in 1..n
    OBVIOUS
  <1>2. PICK i \in 1..n : FirstReason(rules) = rules[i][2] /\ i <= 1
    BY <1>1, FirstReasonHolds
  <1>3. QED BY <1>2

\* When no rule that holds says "none", "none" is said when no rule holds.
LEMMA FirstReasonIsNone ==
    ASSUME NEW rules, NEW n \in Nat, DOMAIN rules = 1..n,
           \A i \in 1..n : rules[i][1] => rules[i][2] # "none"
    PROVE  FirstReason(rules) = "none" <=> \A i \in 1..n : ~rules[i][1]
  <1>1. ASSUME NEW k \in 1..n, rules[k][1]
        PROVE  FirstReason(rules) # "none"
    BY <1>1, FirstReasonHolds
  <1>2. ASSUME \A i \in 1..n : ~rules[i][1]
        PROVE  FirstReason(rules) = "none"
    BY <1>2 DEF FirstReason
  <1>3. QED BY <1>1, <1>2

-----------------------------------------------------------------------------
(* What is true of a record no rule refuses. *)

\* A file that is not refused.
LEMMA AdmittedFile ==
    ASSUME NEW d, NEW f
    PROVE  PlainFileReason(d, f) = "none" <=>
               f.typed /\ Safe(f.id) /\ SafeText(f.path) /\ SafeText(f.digest) /\ ~IsDuplicate(f.id, d.files)
  <1> DEFINE rules == <<
        <<~f.typed, "unsupported-plain-file-record-type">>,
        <<~Safe(f.id), "invalid-plain-file-id">>,
        <<~SafeText(f.path), "invalid-plain-file-path">>,
        <<~SafeText(f.digest), "invalid-plain-file-digest">>,
        <<IsDuplicate(f.id, d.files), "duplicate-plain-file-id">>>>
  <1>1. DOMAIN rules = 1..5 /\ \A i \in 1..5 : rules[i][1] => rules[i][2] # "none"
    OBVIOUS
  <1>2. FirstReason(rules) = "none" <=> \A i \in 1..5 : ~rules[i][1]
    <2> HIDE DEF rules
    <2>1. QED BY <1>1, FirstReasonIsNone
  <1>3. (\A i \in 1..5 : ~rules[i][1]) <=>
            ~rules[1][1] /\ ~rules[2][1] /\ ~rules[3][1] /\ ~rules[4][1] /\ ~rules[5][1]
    <2> HIDE DEF rules
    <2>1. QED OBVIOUS
  <1>4. QED BY <1>2, <1>3 DEF PlainFileReason

\* A span that is not refused for itself.
LEMMA SoundSpan ==
    ASSUME NEW s
    PROVE  SourceSpanReason(s) = "none" <=>
               /\ s.typed /\ Safe(s.id) /\ Safe(s.file) /\ s.numeric
               /\ ~(s.from < 0 \/ s.to < s.from) /\ ~(s.first < 1 \/ s.last < s.first)
  <1> DEFINE rules == <<
        <<~s.typed, "unsupported-source-span-record-type">>,
        <<~Safe(s.id), "invalid-source-span-id">>,
        <<~Safe(s.file), "invalid-source-span-file-id">>,
        <<~s.numeric, "invalid-source-span-byte-bound-type">>,
        <<s.from < 0 \/ s.to < s.from, "invalid-source-span-byte-bounds">>,
        <<s.first < 1 \/ s.last < s.first, "invalid-source-span-line-bounds">>>>
  <1>1. DOMAIN rules = 1..6 /\ \A i \in 1..6 : rules[i][1] => rules[i][2] # "none"
    OBVIOUS
  <1>2. FirstReason(rules) = "none" <=> \A i \in 1..6 : ~rules[i][1]
    <2> HIDE DEF rules
    <2>1. QED BY <1>1, FirstReasonIsNone
  <1>3. (\A i \in 1..6 : ~rules[i][1]) <=>
            /\ ~rules[1][1] /\ ~rules[2][1] /\ ~rules[3][1] /\ ~rules[4][1]
            /\ ~rules[5][1] /\ ~rules[6][1]
    <2> HIDE DEF rules
    <2>1. QED OBVIOUS
  <1>4. QED BY <1>2, <1>3 DEF SourceSpanReason

\* A span is admitted under an identity of its own, with the file it cites.
LEMMA AdmittedSpan ==
    ASSUME NEW d, NEW files, NEW s
    PROVE  SpanReason(d, files, s) = "none" <=>
               SourceSpanReason(s) = "none" /\ ~IsDuplicate(s.id, d.spans) /\ s.file \in files
  <1> DEFINE rules == <<
        <<SourceSpanReason(s) # "none", SourceSpanReason(s)>>,
        <<IsDuplicate(s.id, d.spans), "duplicate-source-span-id">>,
        <<s.file \notin files, "source-span-file-not-emitted">>>>
  <1>1. DOMAIN rules = 1..3 /\ \A i \in 1..3 : rules[i][1] => rules[i][2] # "none"
    <2>1. DOMAIN rules = 1..3
      OBVIOUS
    <2>2. /\ rules[1][1] => rules[1][2] # "none"
          /\ rules[2][2] # "none" /\ rules[3][2] # "none"
      OBVIOUS
    <2> HIDE DEF rules
    <2>3. QED BY <2>1, <2>2
  <1>2. FirstReason(rules) = "none" <=> \A i \in 1..3 : ~rules[i][1]
    <2> HIDE DEF rules
    <2>1. QED BY <1>1, FirstReasonIsNone
  <1>3. (\A i \in 1..3 : ~rules[i][1]) <=>
            /\ ~rules[1][1] /\ ~rules[2][1] /\ ~rules[3][1]
    <2> HIDE DEF rules
    <2>1. QED OBVIOUS
  <1>4. QED BY <1>2, <1>3 DEF SpanReason

\* A section is admitted under an identity of its own, with the file and the
\* span it cites.
LEMMA AdmittedSection ==
    ASSUME NEW d, NEW w, NEW s
    PROVE  SectionReason(d, w, s) = "none" <=>
               /\ s.typed /\ Safe(s.id) /\ Safe(s.file) /\ SafeText(s.kind) /\ s.ordinal = "number"
               /\ Safe(s.span) /\ ~IsDuplicate(s.id, d.sections)
               /\ s.file \in w.files /\ s.span \in w.spans /\ LiesIn(d.spans, s.span, s.file)
  <1> DEFINE rules == <<
        <<~s.typed, "unsupported-section-record-type">>,
        <<~Safe(s.id), "invalid-section-id">>,
        <<~Safe(s.file), "invalid-section-file-id">>,
        <<~SafeText(s.kind), "invalid-section-kind">>,
        <<s.ordinal # "number", "invalid-section-ordinal">>,
        <<~Safe(s.span), "invalid-section-span-id">>,
        <<IsDuplicate(s.id, d.sections), "duplicate-section-id">>,
        <<s.file \notin w.files, "section-file-not-emitted">>,
        <<s.span \notin w.spans, "section-span-not-emitted">>,
        <<~LiesIn(d.spans, s.span, s.file), "section-span-file-mismatch">>>>
  <1>1. DOMAIN rules = 1..10 /\ \A i \in 1..10 : rules[i][1] => rules[i][2] # "none"
    OBVIOUS
  <1>2. FirstReason(rules) = "none" <=> \A i \in 1..10 : ~rules[i][1]
    <2> HIDE DEF rules
    <2>1. QED BY <1>1, FirstReasonIsNone
  <1>3. (\A i \in 1..10 : ~rules[i][1]) <=>
            /\ ~rules[1][1] /\ ~rules[2][1] /\ ~rules[3][1] /\ ~rules[4][1]
            /\ ~rules[5][1] /\ ~rules[6][1] /\ ~rules[7][1] /\ ~rules[8][1]
            /\ ~rules[9][1] /\ ~rules[10][1]
    <2> HIDE DEF rules
    <2>1. QED OBVIOUS
  <1>4. QED BY <1>2, <1>3 DEF SectionReason

\* An item that is not refused for itself.
LEMMA SoundItem ==
    ASSUME NEW item
    PROVE  PlainItemReason(item) = "none" <=>
               /\ item.typed /\ Safe(item.id) /\ Safe(item.file) /\ Safe(item.section)
               /\ item.parent = None \/ Safe(item.parent)
               /\ item.ordinal = "number" /\ item.level = "number" /\ item.raw = "text" /\ Safe(item.span)
  <1> DEFINE rules == <<
        <<~item.typed, "unsupported-plain-item-record-type">>,
        <<~Safe(item.id), "invalid-plain-item-id">>,
        <<~Safe(item.file), "invalid-plain-item-file-id">>,
        <<~Safe(item.section), "invalid-plain-item-section-id">>,
        <<item.parent # None /\ ~Safe(item.parent), "invalid-plain-item-parent-id">>,
        <<item.ordinal # "number", "invalid-plain-item-ordinal">>,
        <<item.level # "number", "invalid-plain-item-level">>,
        <<item.raw # "text", "invalid-plain-item-raw-text">>,
        <<~Safe(item.span), "invalid-plain-item-span-id">>>>
  <1>1. DOMAIN rules = 1..9 /\ \A i \in 1..9 : rules[i][1] => rules[i][2] # "none"
    OBVIOUS
  <1>2. FirstReason(rules) = "none" <=> \A i \in 1..9 : ~rules[i][1]
    <2> HIDE DEF rules
    <2>1. QED BY <1>1, FirstReasonIsNone
  <1>3. (\A i \in 1..9 : ~rules[i][1]) <=>
            /\ ~rules[1][1] /\ ~rules[2][1] /\ ~rules[3][1] /\ ~rules[4][1]
            /\ ~rules[5][1] /\ ~rules[6][1] /\ ~rules[7][1] /\ ~rules[8][1]
            /\ ~rules[9][1]
    <2> HIDE DEF rules
    <2>1. QED OBVIOUS
  <1>4. QED BY <1>2, <1>3 DEF PlainItemReason

\* An item is a candidate under an identity of its own, with the file, the
\* section and the span it cites.
LEMMA AdmittedItem ==
    ASSUME NEW d, NEW w, NEW item
    PROVE  ItemReason(d, w, item) = "none" <=>
               /\ PlainItemReason(item) = "none" /\ ~IsDuplicate(item.id, d.items)
               /\ item.file \in w.files /\ item.section \in w.sections /\ item.span \in w.spans
               /\ LiesIn(d.sections, item.section, item.file) /\ LiesIn(d.spans, item.span, item.file)
  <1> DEFINE rules == <<
        <<PlainItemReason(item) # "none", PlainItemReason(item)>>,
        <<IsDuplicate(item.id, d.items), "duplicate-plain-item-id">>,
        <<item.file \notin w.files, "plain-item-file-not-emitted">>,
        <<item.section \notin w.sections, "plain-item-section-not-emitted">>,
        <<item.span \notin w.spans, "plain-item-span-not-emitted">>,
        <<~LiesIn(d.sections, item.section, item.file), "plain-item-section-file-mismatch">>,
        <<~LiesIn(d.spans, item.span, item.file), "plain-item-span-file-mismatch">>>>
  <1>1. DOMAIN rules = 1..7 /\ \A i \in 1..7 : rules[i][1] => rules[i][2] # "none"
    <2>1. DOMAIN rules = 1..7
      OBVIOUS
    <2>2. /\ rules[1][1] => rules[1][2] # "none"
          /\ rules[2][2] # "none" /\ rules[3][2] # "none" /\ rules[4][2] # "none"
          /\ rules[5][2] # "none" /\ rules[6][2] # "none" /\ rules[7][2] # "none"
      OBVIOUS
    <2> HIDE DEF rules
    <2>3. QED BY <2>1, <2>2
  <1>2. FirstReason(rules) = "none" <=> \A i \in 1..7 : ~rules[i][1]
    <2> HIDE DEF rules
    <2>1. QED BY <1>1, FirstReasonIsNone
  <1>3. (\A i \in 1..7 : ~rules[i][1]) <=>
            /\ ~rules[1][1] /\ ~rules[2][1] /\ ~rules[3][1] /\ ~rules[4][1]
            /\ ~rules[5][1] /\ ~rules[6][1] /\ ~rules[7][1]
    <2> HIDE DEF rules
    <2>1. QED OBVIOUS
  <1>4. QED BY <1>2, <1>3 DEF ItemReason

\* An object that is not refused for itself.
LEMMA SoundObject ==
    ASSUME NEW obj
    PROVE  ReifiedObjectReason(obj) = "none" <=>
               Safe(obj.id) /\ obj.role # "untyped" /\ obj.level \in SupportedLevels /\ obj.listed
  <1> DEFINE rules == <<
        <<obj.id \in NotText, "unsupported-object-id-type">>,
        <<~Safe(obj.id), "missing-object-id">>,
        <<obj.role = "untyped", "unsupported-object-role-type">>,
        <<obj.level \notin KnownLevels, "unsupported-semantic-level-type">>,
        <<obj.level \notin SupportedLevels, "unsupported-semantic-level">>,
        <<~obj.listed, "unsupported-object-facts-container-type">>>>
  <1>1. DOMAIN rules = 1..6 /\ \A i \in 1..6 : rules[i][1] => rules[i][2] # "none"
    OBVIOUS
  <1>2. FirstReason(rules) = "none" <=> \A i \in 1..6 : ~rules[i][1]
    <2> HIDE DEF rules
    <2>1. QED BY <1>1, FirstReasonIsNone
  <1>3. (\A i \in 1..6 : ~rules[i][1]) <=>
            /\ ~rules[1][1] /\ ~rules[2][1] /\ ~rules[3][1] /\ ~rules[4][1]
            /\ ~rules[5][1] /\ ~rules[6][1]
    <2> HIDE DEF rules
    <2>1. QED OBVIOUS
  <1>4. QED BY <1>2, <1>3 DEF ReifiedObjectReason, Safe, KnownLevels

\* An object is admitted under an identity of its own, unless it cites a span
\* that is not there.
LEMMA AdmittedObject ==
    ASSUME NEW d, NEW w, NEW obj
    PROVE  ObjectReason(d, w, obj) = "none" <=>
               /\ obj.typed /\ ~IsDuplicate(obj.id, d.objects)
               /\ OptionalProvenanceReason(obj.span) = "none" /\ ~SpanNotEmitted(d, w.spans, obj.span)
               /\ ReifiedObjectReason(obj) = "none"
  <1> DEFINE rules == <<
        <<~obj.typed, "unsupported-spec-object-record-type">>,
        <<IsDuplicate(obj.id, d.objects), "duplicate-object-id">>,
        <<OptionalProvenanceReason(obj.span) # "none", OptionalProvenanceReason(obj.span)>>,
        <<SpanNotEmitted(d, w.spans, obj.span), "object-source-span-not-emitted">>,
        <<ReifiedObjectReason(obj) # "none", ReifiedObjectReason(obj)>>>>
  <1>1. DOMAIN rules = 1..5 /\ \A i \in 1..5 : rules[i][1] => rules[i][2] # "none"
    <2>1. DOMAIN rules = 1..5
      OBVIOUS
    <2>2. /\ rules[3][1] => rules[3][2] # "none"
          /\ rules[5][1] => rules[5][2] # "none"
          /\ rules[1][2] # "none" /\ rules[2][2] # "none" /\ rules[4][2] # "none"
      OBVIOUS
    <2> HIDE DEF rules
    <2>3. QED BY <2>1, <2>2
  <1>2. FirstReason(rules) = "none" <=> \A i \in 1..5 : ~rules[i][1]
    <2> HIDE DEF rules
    <2>1. QED BY <1>1, FirstReasonIsNone
  <1>3. (\A i \in 1..5 : ~rules[i][1]) <=>
            /\ ~rules[1][1] /\ ~rules[2][1] /\ ~rules[3][1] /\ ~rules[4][1]
            /\ ~rules[5][1]
    <2> HIDE DEF rules
    <2>1. QED OBVIOUS
  <1>4. QED BY <1>2, <1>3 DEF ObjectReason

\* An obligation is admitted when its texts are there and what it cites is.
LEMMA AdmittedObligation ==
    ASSUME NEW d, NEW w, NEW o
    PROVE  ObligationReason(d, w, o) = "none" <=>
               /\ o.typed /\ Safe(o.id) /\ ~IsDuplicate(o.id, d.obligations)
               /\ SafeText(o.property) /\ Safe(o.target) /\ SafeText(o.rationale)
               /\ OptionalProvenanceReason(o.span) = "none" /\ ~SpanNotEmitted(d, w.spans, o.span)
               /\ ~HasEmptySubtarget(o.target, SafeIds(d.objects))
               /\ ~HasPaddedSubtarget(o.target, SafeIds(d.objects))
               /\ ~OwnerNotEmitted(d, w.objects, o.target)
  <1> DEFINE rules == <<
        <<~o.typed, "unsupported-validation-obligation-record-type">>,
        <<o.id \in NotText, "unsupported-validation-obligation-id-type">>,
        <<~Safe(o.id), "missing-validation-obligation-id">>,
        <<IsDuplicate(o.id, d.obligations), "duplicate-validation-obligation-id">>,
        <<~SafeText(o.property), "missing-validation-obligation-property">>,
        <<~Safe(o.target), "missing-validation-obligation-target-id">>,
        <<~SafeText(o.rationale), "missing-validation-obligation-rationale">>,
        <<OptionalProvenanceReason(o.span) # "none", OptionalProvenanceReason(o.span)>>,
        <<SpanNotEmitted(d, w.spans, o.span), "validation-obligation-source-span-not-emitted">>,
        <<HasEmptySubtarget(o.target, SafeIds(d.objects)), "validation-obligation-target-has-empty-object-subtarget">>,
        <<HasPaddedSubtarget(o.target, SafeIds(d.objects)), "validation-obligation-target-has-padded-object-subtarget">>,
        <<OwnerNotEmitted(d, w.objects, o.target), "validation-obligation-target-object-not-emitted">>>>
  <1>1. DOMAIN rules = 1..12 /\ \A i \in 1..12 : rules[i][1] => rules[i][2] # "none"
    <2>1. DOMAIN rules = 1..12
      OBVIOUS
    <2>2. /\ rules[8][1] => rules[8][2] # "none"
          /\ rules[1][2] # "none" /\ rules[2][2] # "none" /\ rules[3][2] # "none"
          /\ rules[4][2] # "none" /\ rules[5][2] # "none" /\ rules[6][2] # "none"
          /\ rules[7][2] # "none" /\ rules[9][2] # "none" /\ rules[10][2] # "none"
          /\ rules[11][2] # "none" /\ rules[12][2] # "none"
      OBVIOUS
    <2> HIDE DEF rules
    <2>3. QED BY <2>1, <2>2
  <1>2. FirstReason(rules) = "none" <=> \A i \in 1..12 : ~rules[i][1]
    <2> HIDE DEF rules
    <2>1. QED BY <1>1, FirstReasonIsNone
  <1>3. (\A i \in 1..12 : ~rules[i][1]) <=>
            /\ ~rules[1][1] /\ ~rules[2][1] /\ ~rules[3][1] /\ ~rules[4][1]
            /\ ~rules[5][1] /\ ~rules[6][1] /\ ~rules[7][1] /\ ~rules[8][1]
            /\ ~rules[9][1] /\ ~rules[10][1] /\ ~rules[11][1] /\ ~rules[12][1]
    <2> HIDE DEF rules
    <2>1. QED OBVIOUS
  <1>4. QED BY <1>2, <1>3 DEF ObligationReason, Safe

\* A check is admitted when it agrees with the obligation it cites.
LEMMA AdmittedCheck ==
    ASSUME NEW d, NEW w, NEW c
    PROVE  CheckReason(d, w, c) = "none" <=>
               /\ c.typed /\ Safe(c.id) /\ ~IsDuplicate(c.id, d.checks)
               /\ Safe(c.obligation) /\ c.obligation \in w.obligations
               /\ SafeText(c.property) /\ Safe(c.target)
               /\ \A o \in Range(d.obligations) :
                    o.typed /\ o.id = c.obligation /\ o.id \in w.obligations =>
                        o.property = c.property /\ o.target = c.target
               /\ c.status # "untyped" /\ SafeText(c.evidence)
  <1> DEFINE cited == {o \in Range(d.obligations) : o.typed /\ o.id = c.obligation /\ o.id \in w.obligations}
             rules == <<
        <<~c.typed, "unsupported-check-record-type">>,
        <<c.id \in NotText, "unsupported-check-id-type">>,
        <<~Safe(c.id), "missing-check-id">>,
        <<IsDuplicate(c.id, d.checks), "duplicate-check-id">>,
        <<~Safe(c.obligation), "missing-check-obligation-id">>,
        <<c.obligation \notin w.obligations, "check-obligation-not-emitted">>,
        <<~SafeText(c.property), "missing-check-property">>,
        <<~Safe(c.target), "missing-check-target-id">>,
        <<\E o \in cited : o.property # c.property, "check-property-mismatch-with-obligation">>,
        <<\E o \in cited : o.target # c.target, "check-target-mismatch-with-obligation">>,
        <<c.status = "untyped", "unsupported-check-status-type">>,
        <<~SafeText(c.evidence), "missing-check-evidence">>>>
  <1>1. DOMAIN rules = 1..12 /\ \A i \in 1..12 : rules[i][1] => rules[i][2] # "none"
    OBVIOUS
  <1>2. FirstReason(rules) = "none" <=> \A i \in 1..12 : ~rules[i][1]
    <2> HIDE DEF rules
    <2>1. QED BY <1>1, FirstReasonIsNone
  <1>3. (\A i \in 1..12 : ~rules[i][1]) <=>
            /\ ~rules[1][1] /\ ~rules[2][1] /\ ~rules[3][1] /\ ~rules[4][1]
            /\ ~rules[5][1] /\ ~rules[6][1] /\ ~rules[7][1] /\ ~rules[8][1]
            /\ ~rules[9][1] /\ ~rules[10][1] /\ ~rules[11][1] /\ ~rules[12][1]
    <2> HIDE DEF rules
    <2>1. QED OBVIOUS
  <1>4. QED BY <1>2, <1>3 DEF CheckReason, Safe

\* Absent provenance is no defect, nor is a span that is named.
LEMMA AdmittedSpanOf ==
    ASSUME NEW span
    PROVE  OptionalProvenanceReason(span) = "none" <=> span \in {None, Blank} \/ Safe(span)
  <1> DEFINE rules == <<
        <<span \in {None, Blank}, "none">>,
        <<span \in NotText, "unsupported-source-span-id-type">>,
        <<~Safe(span), "missing-source-provenance">>>>
  <1>1. DOMAIN rules = 1..3 /\ rules[1][2] = "none" /\ rules[2][2] # "none" /\ rules[3][2] # "none"
    OBVIOUS
  <1>2. CASE rules[1][1]
    <2>1. FirstReason(rules) = rules[1][2]
      <3> HIDE DEF rules
      <3>1. 3 \in Nat \ {0}
        OBVIOUS
      <3>2. QED BY <1>1, <1>2, <3>1, FirstRuleDecides, Zenon
    <2>2. QED BY <1>1, <1>2, <2>1 DEF OptionalProvenanceReason
  <1>3. CASE ~rules[1][1]
    <2>1. FirstReason(rules) = "none" <=> ~rules[1][1] /\ ~rules[2][1] /\ ~rules[3][1]
      <3> HIDE DEF rules
      <3>1. \A i \in 1..3 : rules[i][1] => rules[i][2] # "none"
        BY <1>1, <1>3
      <3>2. FirstReason(rules) = "none" <=> \A i \in 1..3 : ~rules[i][1]
        BY <1>1, <3>1, FirstReasonIsNone
      <3>3. QED BY <3>2
    <2>2. QED BY <1>3, <2>1 DEF OptionalProvenanceReason, Safe
  <1>4. QED BY <1>2, <1>3

\* The parent of an item that is not refused stands, is another item, and
\* shares its file and section.
LEMMA StandingParent ==
    ASSUME NEW d, NEW standing, NEW item
    PROVE  ParentReason(d, standing, item) = "none" <=>
               \/ item.parent = None
               \/ /\ item.parent # item.id
                  /\ \E p \in Range(d.items) : p.typed /\ p.id = item.parent /\ p.id \in standing
                  /\ \A p \in Range(d.items) : p.typed /\ p.id = item.parent /\ p.id \in standing =>
                        p.file = item.file /\ p.section = item.section
  <1> DEFINE parents == {p \in Range(d.items) : p.typed /\ p.id = item.parent /\ p.id \in standing}
             rules == <<
        <<item.parent = None, "none">>,
        <<item.parent = item.id, "plain-item-self-parent">>,
        <<parents = {}, "plain-item-parent-not-emitted">>,
        <<\E p \in parents : p.file # item.file, "plain-item-parent-file-mismatch">>,
        <<\E p \in parents : p.section # item.section, "plain-item-parent-section-mismatch">>>>
  <1>1. /\ DOMAIN rules = 1..5 /\ rules[1][2] = "none"
        /\ rules[2][2] # "none" /\ rules[3][2] # "none" /\ rules[4][2] # "none" /\ rules[5][2] # "none"
    OBVIOUS
  <1>2. CASE rules[1][1]
    <2>1. FirstReason(rules) = rules[1][2]
      <3> HIDE DEF rules
      <3>1. 5 \in Nat \ {0}
        OBVIOUS
      <3>2. QED BY <1>1, <1>2, <3>1, FirstRuleDecides, Zenon
    <2>2. QED BY <1>1, <1>2, <2>1 DEF ParentReason
  <1>3. CASE ~rules[1][1]
    <2>1. FirstReason(rules) = "none" <=>
              ~rules[1][1] /\ ~rules[2][1] /\ ~rules[3][1] /\ ~rules[4][1] /\ ~rules[5][1]
      <3> HIDE DEF rules
      <3>1. \A i \in 1..5 : rules[i][1] => rules[i][2] # "none"
        BY <1>1, <1>3
      <3>2. FirstReason(rules) = "none" <=> \A i \in 1..5 : ~rules[i][1]
        BY <1>1, <3>1, FirstReasonIsNone
      <3>3. QED BY <3>2
    <2>2. QED BY <1>3, <2>1 DEF ParentReason
  <1>4. QED BY <1>2, <1>3

-----------------------------------------------------------------------------
(* Identities. *)

\* Two records of one identity that is not a duplicate are the same record.
LEMMA OneCarrier ==
    ASSUME NEW records, NEW i \in DOMAIN records, NEW j \in DOMAIN records,
           records[i].typed, records[j].typed, records[i].id = records[j].id,
           Safe(records[i].id), ~IsDuplicate(records[i].id, records)
    PROVE  i = j
  BY DEF IsDuplicate, Carriers

\* An identity that is carried is unique or a duplicate.
LEMMA UniqueOrDuplicate ==
    ASSUME NEW records, NEW i \in DOMAIN records, records[i].typed, Safe(records[i].id)
    PROVE  IsUnique(records[i].id, records) <=> ~IsDuplicate(records[i].id, records)
  <1> DEFINE carriers == Carriers(records, records[i].id)
  <1>1. i \in carriers
    BY DEF Carriers
  <1>2. (\E k \in carriers : carriers = {k}) <=> ~\E j, k \in carriers : j # k
    <2> HIDE DEF carriers
    <2>1. QED BY <1>1
  <1>3. QED BY <1>2 DEF IsUnique, IsDuplicate

-----------------------------------------------------------------------------
(* Diagnostics and emission, by the same document.                         *)

\* What the backend writes of a list, given what it has written before.
FilesOf(d) ==
    {d.files[i].id : i \in {i \in DOMAIN d.files : PlainFileReason(d, d.files[i]) = "none"}}
SpansOf(d, w) ==
    {d.spans[i].id : i \in {i \in DOMAIN d.spans : SpanReason(d, w.files, d.spans[i]) = "none"}}
SectionsOf(d, w) ==
    {d.sections[i].id : i \in {i \in DOMAIN d.sections : SectionReason(d, w, d.sections[i]) = "none"}}
ObjectsOf(d, w) ==
    {d.objects[i].id : i \in {i \in DOMAIN d.objects : ObjectReason(d, w, d.objects[i]) = "none"}}
ObligationsOf(d, w) ==
    {d.obligations[i].id : i \in {i \in DOMAIN d.obligations : ObligationReason(d, w, d.obligations[i]) = "none"}}
ChecksOf(d, w) ==
    {d.checks[i].id : i \in {i \in DOMAIN d.checks : CheckReason(d, w, d.checks[i]) = "none"}}

\* The spans diagnostics admit are those emitted.
LEMMA SpansAgree ==
    ASSUME NEW d, NEW w, w.files = FilesOf(d)
    PROVE  AdmittedSpanIds(d) = SpansOf(d, w)
  <1>1. w.files = {f.id : f \in {f \in Range(d.files) : PlainFileReason(d, f) = "none"}}
    BY DEF FilesOf, Range
  <1>2. AdmittedSpanIds(d) = {s.id : s \in {s \in Range(d.spans) : SpanReason(d, w.files, s) = "none"}}
    BY <1>1 DEF AdmittedSpanIds
  <1>3. QED BY <1>2 DEF SpansOf, Range

\* So do they agree on the provenance of a record.
LEMMA ProvenanceAgrees ==
    ASSUME NEW d, NEW w, w.spans = AdmittedSpanIds(d), NEW span
    PROVE  AdmittedProvenance(d, span) <=>
               OptionalProvenanceReason(span) = "none" /\ ~SpanNotEmitted(d, w.spans, span)
  <1>1. OptionalProvenanceReason(span) = "none" <=> span \in {None, Blank} \/ Safe(span)
    BY AdmittedSpanOf
  <1>2. span \in {None, Blank} => ~Safe(span)
    BY DEF Safe, NotText
  <1>3. QED BY <1>1, <1>2 DEF AdmittedProvenance, SpanNotEmitted

\* Diagnostics and emission admit the same objects,
LEMMA ObjectsAgree ==
    ASSUME NEW d, NEW w, w.spans = AdmittedSpanIds(d)
    PROVE  AdmittedObjects(d) = {i \in DOMAIN d.objects : ObjectReason(d, w, d.objects[i]) = "none"}
  <1>1. ASSUME NEW i \in DOMAIN d.objects
        PROVE  i \in AdmittedObjects(d) <=> ObjectReason(d, w, d.objects[i]) = "none"
    <2> DEFINE obj == d.objects[i]
    <2>1. ObjectReason(d, w, obj) = "none" <=>
              /\ obj.typed /\ ~IsDuplicate(obj.id, d.objects) /\ AdmittedProvenance(d, obj.span)
              /\ Safe(obj.id) /\ obj.role # "untyped" /\ obj.level \in SupportedLevels /\ obj.listed
      BY AdmittedObject, SoundObject, ProvenanceAgrees
    <2>2. obj.typed /\ Safe(obj.id) => (IsUnique(obj.id, d.objects) <=> ~IsDuplicate(obj.id, d.objects))
      BY UniqueOrDuplicate
    <2>3. QED BY <2>1, <2>2 DEF AdmittedObjects
  <1>2. AdmittedObjects(d) \subseteq DOMAIN d.objects
    BY DEF AdmittedObjects
  <1>3. QED BY <1>1, <1>2

\* and the same obligations, of which every one has an emitted owner,
LEMMA ObligationsAgree ==
    ASSUME NEW d, NEW w, w.spans = AdmittedSpanIds(d), w.objects = ObjectsOf(d, w)
    PROVE  AdmittedObligations(d) =
               {i \in DOMAIN d.obligations : ObligationReason(d, w, d.obligations[i]) = "none"}
  <1>1. w.objects = {d.objects[i].id : i \in AdmittedObjects(d)}
    BY ObjectsAgree DEF ObjectsOf
  <1>2. ASSUME NEW i \in DOMAIN d.obligations
        PROVE  i \in AdmittedObligations(d) <=> ObligationReason(d, w, d.obligations[i]) = "none"
    <2> DEFINE o == d.obligations[i]
               declared == SafeIds(d.objects)
    <2>1. ObligationReason(d, w, o) = "none" <=>
              /\ o.typed /\ Safe(o.id) /\ ~IsDuplicate(o.id, d.obligations)
              /\ SafeText(o.property) /\ Safe(o.target) /\ SafeText(o.rationale)
              /\ AdmittedProvenance(d, o.span)
              /\ ~HasEmptySubtarget(o.target, declared) /\ ~HasPaddedSubtarget(o.target, declared)
              /\ ~OwnerNotEmitted(d, w.objects, o.target)
      BY AdmittedObligation, ProvenanceAgrees
    <2>2. o.typed /\ Safe(o.id) => (IsUnique(o.id, d.obligations) <=> ~IsDuplicate(o.id, d.obligations))
      BY UniqueOrDuplicate
    <2>3. ~OwnerNotEmitted(d, w.objects, o.target) <=>
              (Owners(o.target, declared) # {} => TargetObject(o.target, declared) \in w.objects)
      BY DEF OwnerNotEmitted
    <2>4. QED BY <1>1, <2>1, <2>2, <2>3 DEF AdmittedObligations
  <1>3. AdmittedObligations(d) \subseteq DOMAIN d.obligations
    BY DEF AdmittedObligations
  <1>4. QED BY <1>2, <1>3

\* An obligation that is written is the only one of its identity.
LEMMA WrittenObligation ==
    ASSUME NEW d, NEW w, w.obligations = ObligationsOf(d, w),
           NEW k \in DOMAIN d.obligations, d.obligations[k].typed, d.obligations[k].id \in w.obligations
    PROVE  ObligationReason(d, w, d.obligations[k]) = "none"
  <1>1. PICK i \in DOMAIN d.obligations :
            ObligationReason(d, w, d.obligations[i]) = "none" /\ d.obligations[i].id = d.obligations[k].id
    BY DEF ObligationsOf
  <1>2. /\ d.obligations[i].typed /\ Safe(d.obligations[i].id)
        /\ ~IsDuplicate(d.obligations[i].id, d.obligations)
    BY <1>1, AdmittedObligation
  <1>3. QED BY <1>1, <1>2, OneCarrier

\* and the same checks.
LEMMA ChecksAgree ==
    ASSUME NEW d, NEW w, w.spans = AdmittedSpanIds(d), w.objects = ObjectsOf(d, w),
           w.obligations = ObligationsOf(d, w)
    PROVE  AdmittedChecks(d) = {i \in DOMAIN d.checks : CheckReason(d, w, d.checks[i]) = "none"}
  <1> DEFINE admitted == AdmittedObligations(d)
  <1>1. admitted = {k \in DOMAIN d.obligations : ObligationReason(d, w, d.obligations[k]) = "none"}
    BY ObligationsAgree
  <1>2. w.obligations = {d.obligations[k].id : k \in admitted}
    BY <1>1 DEF ObligationsOf
  <1>3. \A k \in admitted : /\ k \in DOMAIN d.obligations /\ d.obligations[k].typed
                            /\ d.obligations[k].id \in w.obligations
    BY <1>1, <1>2, AdmittedObligation
  <1>4. \A k \in DOMAIN d.obligations :
            d.obligations[k].typed /\ d.obligations[k].id \in w.obligations => k \in admitted
    BY <1>1, WrittenObligation
  <1>5. \A k, l \in admitted : d.obligations[k].id = d.obligations[l].id => k = l
    <2>1. \A k \in admitted : /\ k \in DOMAIN d.obligations /\ d.obligations[k].typed
                              /\ Safe(d.obligations[k].id)
                              /\ ~IsDuplicate(d.obligations[k].id, d.obligations)
      BY <1>1, AdmittedObligation
    <2> HIDE DEF admitted
    <2>2. QED BY <2>1, OneCarrier
  <1>6. ASSUME NEW i \in DOMAIN d.checks
        PROVE  i \in AdmittedChecks(d) <=> CheckReason(d, w, d.checks[i]) = "none"
    <2> DEFINE c == d.checks[i]
               Cites(o) == o.id = c.obligation /\ o.property = c.property /\ o.target = c.target
    <2>1. CheckReason(d, w, c) = "none" <=>
              /\ c.typed /\ Safe(c.id) /\ ~IsDuplicate(c.id, d.checks)
              /\ Safe(c.obligation) /\ c.obligation \in w.obligations
              /\ SafeText(c.property) /\ Safe(c.target)
              /\ \A o \in Range(d.obligations) :
                   o.typed /\ o.id = c.obligation /\ o.id \in w.obligations =>
                       o.property = c.property /\ o.target = c.target
              /\ c.status # "untyped" /\ SafeText(c.evidence)
      BY AdmittedCheck
    <2>2. c.typed /\ Safe(c.id) => (IsUnique(c.id, d.checks) <=> ~IsDuplicate(c.id, d.checks))
      BY UniqueOrDuplicate
    <2>3. (\A o \in Range(d.obligations) :
              o.typed /\ o.id = c.obligation /\ o.id \in w.obligations =>
                  o.property = c.property /\ o.target = c.target) <=>
          (\A k \in admitted : d.obligations[k].id = c.obligation => Cites(d.obligations[k]))
      <3> HIDE DEF admitted, c
      <3>1. QED BY <1>3, <1>4 DEF Range
    <2>4. (\E k \in admitted : Cites(d.obligations[k])) <=>
          /\ c.obligation \in w.obligations
          /\ \A k \in admitted : d.obligations[k].id = c.obligation => Cites(d.obligations[k])
      <3> HIDE DEF admitted, c
      <3>1. QED BY <1>2, <1>5
    <2>5. i \in AdmittedChecks(d) <=>
              /\ c.typed /\ Safe(c.id) /\ IsUnique(c.id, d.checks)
              /\ Safe(c.obligation) /\ SafeText(c.property) /\ Safe(c.target)
              /\ \E k \in admitted : Cites(d.obligations[k])
              /\ c.status # "untyped" /\ SafeText(c.evidence)
      BY DEF AdmittedChecks
    <2>6. QED BY <2>1, <2>2, <2>3, <2>4, <2>5
  <1>7. AdmittedChecks(d) \subseteq DOMAIN d.checks
    BY DEF AdmittedChecks
  <1>8. QED BY <1>6, <1>7

\* A check that is written is the only one of its identity, so the summary
\* counts the checks diagnostics admit.
LEMMA WrittenCheck ==
    ASSUME NEW d, NEW w, w.checks = ChecksOf(d, w),
           NEW k \in DOMAIN d.checks, d.checks[k].typed, d.checks[k].id \in w.checks
    PROVE  CheckReason(d, w, d.checks[k]) = "none"
  <1>1. PICK i \in DOMAIN d.checks :
            CheckReason(d, w, d.checks[i]) = "none" /\ d.checks[i].id = d.checks[k].id
    BY DEF ChecksOf
  <1>2. d.checks[i].typed /\ Safe(d.checks[i].id) /\ ~IsDuplicate(d.checks[i].id, d.checks)
    BY <1>1, AdmittedCheck
  <1>3. QED BY <1>1, <1>2, OneCarrier

\* What diagnostics count of a status is what the summary counts of it.
LEMMA CountsAgree ==
    ASSUME NEW d, NEW w, w.spans = AdmittedSpanIds(d), w.objects = ObjectsOf(d, w),
           w.obligations = ObligationsOf(d, w), w.checks = ChecksOf(d, w), NEW status
    PROVE  {i \in AdmittedChecks(d) : d.checks[i].status = status} =
               {i \in DOMAIN d.checks : /\ d.checks[i].typed /\ d.checks[i].id \in w.checks
                                        /\ d.checks[i].status = status}
  <1>1. AdmittedChecks(d) = {i \in DOMAIN d.checks : CheckReason(d, w, d.checks[i]) = "none"}
    BY ChecksAgree
  <1>2. \A i \in DOMAIN d.checks :
            CheckReason(d, w, d.checks[i]) = "none" => d.checks[i].typed /\ d.checks[i].id \in w.checks
    BY AdmittedCheck DEF ChecksOf
  <1>3. \A i \in DOMAIN d.checks :
            d.checks[i].typed /\ d.checks[i].id \in w.checks => CheckReason(d, w, d.checks[i]) = "none"
    BY WrittenCheck
  <1>4. QED BY <1>1, <1>2, <1>3

-----------------------------------------------------------------------------
(* The parents. *)

Candidates(d, w) == {item \in Range(d.items) : ItemReason(d, w, item) = "none"}

Stands(item, S) ==
    \/ item.parent = None
    \/ \E p \in S : /\ p.id = item.parent /\ p.id # item.id
                    /\ p.file = item.file /\ p.section = item.section

\* The sets of candidates that could be emitted together.
ClosedSets(d, w) == {S \in SUBSET Candidates(d, w) : \A item \in S : Stands(item, S)}

\* The items standing are candidates, every closed set stands, and an item is
\* refused once: as no candidate, or when it ceases to stand.
ParentsInv(d, w) ==
    /\ w.items \subseteq {item.id : item \in Candidates(d, w)}
    /\ \A S \in ClosedSets(d, w) : \A item \in S : item.id \in w.items
    /\ \A r \in w.refusals : r[1] = "items" =>
         \/ ItemReason(d, w, d.items[r[2]]) # "none"
         \/ d.items[r[2]].id \notin w.items
    /\ \A a, b \in w.refusals : a[1] = "items" /\ b[1] = "items" /\ a[2] = b[2] => a = b

\* Candidates of one identity are one record.
LEMMA OneCandidate ==
    ASSUME NEW d, NEW w, NEW p \in Candidates(d, w), NEW q \in Range(d.items), q.typed, p.id = q.id
    PROVE  p = q
  <1>1. p.typed /\ Safe(p.id) /\ ~IsDuplicate(p.id, d.items)
    BY AdmittedItem, SoundItem DEF Candidates
  <1>2. PICK i \in DOMAIN d.items : p = d.items[i]
    BY DEF Candidates, Range
  <1>3. PICK j \in DOMAIN d.items : q = d.items[j]
    BY DEF Range
  <1>4. QED BY <1>1, <1>2, <1>3, OneCarrier

\* Whether an item is a candidate was settled before the loop.
LEMMA CandidatesAreSettled ==
    ASSUME NEW d, NEW w, NEW v, v.files = w.files, v.spans = w.spans, v.sections = w.sections, NEW item
    PROVE  ItemReason(d, v, item) = ItemReason(d, w, item)
  BY DEF ItemReason

\* A round refuses no item of a closed set that stands.
LEMMA RoundKeepsClosedSets ==
    ASSUME NEW d, NEW w, NEW S \in ClosedSets(d, w), \A item \in S : item.id \in w.items,
           NEW i \in ParentRefusals(d, w)
    PROVE  \A item \in S : item.id # d.items[i].id
  <1> SUFFICES ASSUME NEW item \in S, item.id = d.items[i].id
               PROVE  FALSE
    OBVIOUS
  <1>1. i \in DOMAIN d.items /\ ItemReason(d, w, d.items[i]) = "none"
        /\ ParentReason(d, w.items, d.items[i]) # "none"
    BY DEF ParentRefusals
  <1>2. S \subseteq Candidates(d, w) /\ \A s \in S : Stands(s, S)
    BY DEF ClosedSets
  <1>3. item = d.items[i]
    <2>1. d.items[i] \in Range(d.items) /\ d.items[i].typed
      BY <1>1, AdmittedItem, SoundItem DEF Range
    <2>2. QED BY <1>2, <2>1, OneCandidate
  <1>4. item.parent # None
    BY <1>1, <1>3, StandingParent
  <1>5. PICK p \in S : /\ p.id = item.parent /\ p.id # item.id
                       /\ p.file = item.file /\ p.section = item.section
    BY <1>2, <1>4 DEF Stands
  <1>6. p \in Range(d.items) /\ p.typed /\ p.id \in w.items
    BY <1>2, AdmittedItem, SoundItem DEF Candidates
  <1>7. \A q \in Range(d.items) : q.typed /\ q.id = item.parent => q = p
    BY <1>2, <1>5, OneCandidate
  <1>8. ParentReason(d, w.items, item) = "none"
    BY <1>5, <1>6, <1>7, StandingParent
  <1>9. QED BY <1>1, <1>3, <1>8

\* When a round refuses nothing, what stands is a closed set.
LEMMA LastRoundIsClosed ==
    ASSUME NEW d, NEW w, ParentsInv(d, w), ParentRefusals(d, w) = {}
    PROVE  {item \in Candidates(d, w) : item.id \in w.items} \in ClosedSets(d, w)
  <1> DEFINE S == {item \in Candidates(d, w) : item.id \in w.items}
  <1>1. S \subseteq Candidates(d, w)
    OBVIOUS
  <1>2. ASSUME NEW item \in S
        PROVE  Stands(item, S)
    <2>1. PICK i \in DOMAIN d.items : item = d.items[i] /\ ItemReason(d, w, item) = "none"
      BY DEF Candidates, Range
    <2>2. ParentReason(d, w.items, item) = "none"
      BY <2>1 DEF ParentRefusals
    <2>3. CASE item.parent = None
      BY <2>3 DEF Stands
    <2>4. CASE item.parent # None
      <3>1. PICK p \in Range(d.items) : /\ p.typed /\ p.id = item.parent /\ p.id \in w.items
                                        /\ p.file = item.file /\ p.section = item.section
        BY <2>2, <2>4, StandingParent
      <3>2. item.parent # item.id
        BY <2>2, <2>4, StandingParent
      <3>3. PICK c \in Candidates(d, w) : c.id = p.id
        BY <3>1 DEF ParentsInv
      <3>4. c = p
        BY <3>1, <3>3, OneCandidate
      <3>5. QED BY <3>1, <3>2, <3>3, <3>4 DEF Stands
    <2>5. QED BY <2>3, <2>4
  <1>3. QED BY <1>1, <1>2 DEF ClosedSets

\* So the items standing then are those of the largest closed set.
LEMMA StandingIsLargest ==
    ASSUME NEW d, NEW w, ParentsInv(d, w), ParentRefusals(d, w) = {}
    PROVE  w.items = {item.id : item \in UNION ClosedSets(d, w)}
  <1> DEFINE S == {item \in Candidates(d, w) : item.id \in w.items}
  <1>1. S \in ClosedSets(d, w)
    BY LastRoundIsClosed
  <1>2. w.items = {item.id : item \in S}
    BY DEF ParentsInv
  <1>3. \A T \in ClosedSets(d, w) : \A item \in T : item.id \in w.items
    BY DEF ParentsInv
  <1> HIDE DEF S
  <1>4. QED BY <1>1, <1>2, <1>3

\* The output is a record of the lists and of the refusals.
Outputs ==
    {"files", "spans", "sections", "items", "objects", "facts", "obligations", "checks", "refusals"}
IsOutput(w) == w = [list \in Outputs |-> w[list]]

\* The loop begins with the candidates,
LEMMA CandidatesStand ==
    ASSUME NEW d, NEW w, IsOutput(w), \A r \in w.refusals : r[1] # "items"
    PROVE  ParentsInv(d, CandidateItems(d, w))
  <1> DEFINE v == CandidateItems(d, w)
             refused == {i \in DOMAIN d.items : ItemReason(d, w, d.items[i]) # "none"}
  <1>1. /\ v.files = w.files /\ v.spans = w.spans /\ v.sections = w.sections
        /\ v.items = {d.items[i].id : i \in {i \in DOMAIN d.items : ItemReason(d, w, d.items[i]) = "none"}}
        /\ v.refusals = w.refusals \cup {<<"items", i, 0, ItemReason(d, w, d.items[i])>> : i \in refused}
    BY DEF CandidateItems, Admit, IsOutput, Outputs
  <1> SUFFICES ParentsInv(d, v)
    OBVIOUS
  <1> HIDE DEF v
  <1>2. \A item : ItemReason(d, v, item) = ItemReason(d, w, item)
    BY <1>1, CandidatesAreSettled
  <1>3. Candidates(d, v) = Candidates(d, w)
    BY <1>2 DEF Candidates
  <1>4. v.items = {item.id : item \in Candidates(d, v)}
    BY <1>1, <1>3 DEF Candidates, Range
  <1>5. \A S \in ClosedSets(d, v) : \A item \in S : item.id \in v.items
    BY <1>4 DEF ClosedSets
  <1>6. \A r \in v.refusals : r[1] = "items" =>
            r[2] \in refused /\ r = <<"items", r[2], 0, ItemReason(d, w, d.items[r[2]])>>
    BY <1>1
  <1>7. \A r \in v.refusals : r[1] = "items" => ItemReason(d, v, d.items[r[2]]) # "none"
    BY <1>2, <1>6
  <1>8. \A a, b \in v.refusals : a[1] = "items" /\ b[1] = "items" /\ a[2] = b[2] => a = b
    BY <1>6
  <1>9. QED BY <1>4, <1>5, <1>7, <1>8 DEF ParentsInv

\* and every round keeps what is said of it.
LEMMA RoundKeepsParents ==
    ASSUME NEW d, NEW w, IsOutput(w), ParentsInv(d, w)
    PROVE  ParentsInv(d, RefuseParents(d, w))
  <1> DEFINE v == RefuseParents(d, w)
             fallen == ParentRefusals(d, w)
             Why(i) == ParentReason(d, w.items, d.items[i])
  <1>1. /\ v.files = w.files /\ v.spans = w.spans /\ v.sections = w.sections
        /\ v.items = w.items \ {d.items[i].id : i \in fallen}
        /\ v.refusals = w.refusals \cup {<<"items", i, 0, Why(i)>> : i \in fallen}
    BY DEF RefuseParents, IsOutput, Outputs
  <1>2. \A i \in fallen : /\ ItemReason(d, w, d.items[i]) = "none"
                          /\ d.items[i].id \in w.items
    BY DEF ParentRefusals
  <1>3. \A S \in ClosedSets(d, w) : \A item \in S : \A i \in fallen : item.id # d.items[i].id
    BY RoundKeepsClosedSets DEF ParentsInv
  <1> SUFFICES ParentsInv(d, v)
    OBVIOUS
  <1> HIDE DEF v, fallen
  <1>4. \A item : ItemReason(d, v, item) = ItemReason(d, w, item)
    BY <1>1, CandidatesAreSettled
  <1>5. Candidates(d, v) = Candidates(d, w) /\ ClosedSets(d, v) = ClosedSets(d, w)
    BY <1>4 DEF Candidates, ClosedSets
  <1>6. v.items \subseteq {item.id : item \in Candidates(d, v)}
    BY <1>1, <1>5 DEF ParentsInv
  <1>7. \A S \in ClosedSets(d, v) : \A item \in S : item.id \in v.items
    BY <1>1, <1>3, <1>5 DEF ParentsInv
  <1>8. \A r \in v.refusals :
            \/ r \in w.refusals
            \/ r[2] \in fallen /\ r = <<"items", r[2], 0, Why(r[2])>>
    <2> HIDE DEF Why
    <2>1. SUFFICES ASSUME NEW r \in v.refusals, r \notin w.refusals
                   PROVE  r[2] \in fallen /\ r = <<"items", r[2], 0, Why(r[2])>>
      OBVIOUS
    <2>2. PICK i \in fallen : r = <<"items", i, 0, Why(i)>>
      BY <1>1, <2>1
    <2>3. r[2] = i
      BY <2>2
    <2>4. QED BY <2>2, <2>3
  <1>9. \A r \in w.refusals : r[1] = "items" => r[2] \notin fallen
    BY <1>2 DEF ParentsInv
  <1>10. \A r \in v.refusals : r[1] = "items" =>
             \/ ItemReason(d, v, d.items[r[2]]) # "none"
             \/ d.items[r[2]].id \notin v.items
    <2> HIDE DEF Why
    <2>1. QED BY <1>1, <1>4, <1>8 DEF ParentsInv
  <1>11. \A a, b \in v.refusals : a[1] = "items" /\ b[1] = "items" /\ a[2] = b[2] => a = b
    <2> HIDE DEF Why
    <2>1. QED BY <1>8, <1>9 DEF ParentsInv
  <1>12. QED BY <1>6, <1>7, <1>10, <1>11 DEF ParentsInv

-----------------------------------------------------------------------------
(* What each step writes, and what it leaves. *)

\* v is w but for the lists, and says nothing new of items.
Leaves(v, w, lists) ==
    /\ IsOutput(v)
    /\ \A list \in Outputs \ (lists \cup {"refusals"}) : v[list] = w[list]

\* Each step writes its list as the rules admit it, and no other: the files,
LEMMA FilesAreWritten ==
    ASSUME NEW d, NEW w, IsOutput(w)
    PROVE  LET v == EmitFiles(d, w) IN
           /\ Leaves(v, w, {"files"}) /\ v.files = FilesOf(d)
           /\ \A r \in v.refusals : r \in w.refusals \/ r[1] = "files"
  <1> DEFINE v == EmitFiles(d, w)
  <1>1. Leaves(v, w, {"files"}) /\ v.files = FilesOf(d)
    BY DEF EmitFiles, Admit, IsOutput, Outputs, Leaves, FilesOf
  <1>2. \A r \in v.refusals : r \in w.refusals \/ r[1] = "files"
    BY DEF EmitFiles, Admit, IsOutput, Outputs
  <1>3. QED BY <1>1, <1>2

\* the spans,
LEMMA SpansAreWritten ==
    ASSUME NEW d, NEW w, IsOutput(w)
    PROVE  LET v == EmitSpans(d, w) IN
           /\ Leaves(v, w, {"spans"}) /\ v.spans = SpansOf(d, w)
           /\ \A r \in v.refusals : r \in w.refusals \/ r[1] = "spans"
  <1> DEFINE v == EmitSpans(d, w)
  <1>1. Leaves(v, w, {"spans"}) /\ v.spans = SpansOf(d, w)
    BY DEF EmitSpans, Admit, IsOutput, Outputs, Leaves, SpansOf
  <1>2. \A r \in v.refusals : r \in w.refusals \/ r[1] = "spans"
    BY DEF EmitSpans, Admit, IsOutput, Outputs
  <1>3. QED BY <1>1, <1>2

\* the sections,
LEMMA SectionsAreWritten ==
    ASSUME NEW d, NEW w, IsOutput(w)
    PROVE  LET v == EmitSections(d, w) IN
           /\ Leaves(v, w, {"sections"}) /\ v.sections = SectionsOf(d, w)
           /\ \A r \in v.refusals : r \in w.refusals \/ r[1] = "sections"
  <1> DEFINE v == EmitSections(d, w)
  <1>1. Leaves(v, w, {"sections"}) /\ v.sections = SectionsOf(d, w)
    BY DEF EmitSections, Admit, IsOutput, Outputs, Leaves, SectionsOf
  <1>2. \A r \in v.refusals : r \in w.refusals \/ r[1] = "sections"
    BY DEF EmitSections, Admit, IsOutput, Outputs
  <1>3. QED BY <1>1, <1>2

\* the candidates,
LEMMA CandidatesAreWritten ==
    ASSUME NEW d, NEW w, IsOutput(w)
    PROVE  Leaves(CandidateItems(d, w), w, {"items"})
  BY DEF CandidateItems, Admit, IsOutput, Outputs, Leaves

\* what a round leaves of the items,
LEMMA RoundIsWritten ==
    ASSUME NEW d, NEW w, IsOutput(w)
    PROVE  Leaves(RefuseParents(d, w), w, {"items"})
  BY DEF RefuseParents, IsOutput, Outputs, Leaves

\* the objects and the facts they carry,
LEMMA ObjectsAreWritten ==
    ASSUME NEW d, NEW w, IsOutput(w)
    PROVE  LET v == EmitObjects(d, w) IN Leaves(v, w, {"objects", "facts"}) /\ v.objects = ObjectsOf(d, w)
  BY DEF EmitObjects, Admit, IsOutput, Outputs, Leaves, ObjectsOf

\* the obligations
LEMMA ObligationsAreWritten ==
    ASSUME NEW d, NEW w, IsOutput(w)
    PROVE  LET v == EmitObligations(d, w) IN
           Leaves(v, w, {"obligations"}) /\ v.obligations = ObligationsOf(d, w)
  BY DEF EmitObligations, Admit, IsOutput, Outputs, Leaves, ObligationsOf

\* and the checks.
LEMMA ChecksAreWritten ==
    ASSUME NEW d, NEW w, IsOutput(w)
    PROVE  LET v == EmitChecks(d, w) IN Leaves(v, w, {"checks"}) /\ v.checks = ChecksOf(d, w)
  BY DEF EmitChecks, Admit, IsOutput, Outputs, Leaves, ChecksOf

\* What the backend writes of a list rests on the lists written before it.
LEMMA WrittenRestsOnEarlier ==
    ASSUME NEW d, NEW v, NEW w
    PROVE  /\ v.files = w.files => SpansOf(d, v) = SpansOf(d, w)
           /\ v.files = w.files /\ v.spans = w.spans => SectionsOf(d, v) = SectionsOf(d, w)
           /\ v.files = w.files /\ v.spans = w.spans /\ v.sections = w.sections =>
                 Candidates(d, v) = Candidates(d, w)
           /\ v.files = w.files /\ v.spans = w.spans /\ v.sections = w.sections /\ v.items = w.items =>
                 ParentRefusals(d, v) = ParentRefusals(d, w)
           /\ v.spans = w.spans => ObjectsOf(d, v) = ObjectsOf(d, w)
           /\ v.spans = w.spans /\ v.objects = w.objects => ObligationsOf(d, v) = ObligationsOf(d, w)
           /\ v.obligations = w.obligations => ChecksOf(d, v) = ChecksOf(d, w)
  <1>1. v.files = w.files => SpansOf(d, v) = SpansOf(d, w)
    BY DEF SpansOf
  <1>2. v.files = w.files /\ v.spans = w.spans => SectionsOf(d, v) = SectionsOf(d, w)
    BY DEF SectionsOf, SectionReason
  <1>3. v.files = w.files /\ v.spans = w.spans /\ v.sections = w.sections =>
            Candidates(d, v) = Candidates(d, w)
    BY CandidatesAreSettled DEF Candidates
  <1>4. v.files = w.files /\ v.spans = w.spans /\ v.sections = w.sections /\ v.items = w.items =>
            ParentRefusals(d, v) = ParentRefusals(d, w)
    BY CandidatesAreSettled DEF ParentRefusals
  <1>5. v.spans = w.spans => ObjectsOf(d, v) = ObjectsOf(d, w)
    BY DEF ObjectsOf, ObjectReason
  <1>6. v.spans = w.spans /\ v.objects = w.objects => ObligationsOf(d, v) = ObligationsOf(d, w)
    BY DEF ObligationsOf, ObligationReason
  <1>7. v.obligations = w.obligations => ChecksOf(d, v) = ChecksOf(d, w)
    BY DEF ChecksOf, CheckReason
  <1>8. QED BY <1>1, <1>2, <1>3, <1>4, <1>5, <1>6, <1>7

-----------------------------------------------------------------------------
(* The invariant. *)

\* The stages after which a list is written.
WrittenChecks      == {"emitted"}
WrittenObligations == {"emit-checks"} \cup WrittenChecks
WrittenObjects     == {"emit-obligations"} \cup WrittenObligations
ItemsStand         == {"emit-objects"} \cup WrittenObjects
WrittenItems       == {"emit-parents"} \cup ItemsStand
WrittenSections    == {"emit-items"} \cup WrittenItems
WrittenSpans       == {"emit-sections"} \cup WrittenSections
WrittenFiles       == {"emit-spans"} \cup WrittenSpans

\* Every list holds what the rules admit of the document, given the lists
\* before it; of the items, those whose parents stand.
EmissionInv ==
    /\ IsOutput(out)
    /\ stage \in WrittenFiles => out.files = FilesOf(doc)
    /\ stage \in WrittenSpans => out.spans = SpansOf(doc, out)
    /\ stage \in WrittenSections => out.sections = SectionsOf(doc, out)
    /\ stage \notin WrittenItems => \A r \in out.refusals : r[1] # "items"
    /\ stage \in {"emit-parents", "emit-objects"} => ParentsInv(doc, out)
    /\ stage \in ItemsStand => /\ out.items \subseteq {item.id : item \in Candidates(doc, out)}
                               /\ ParentRefusals(doc, out) = {}
    /\ stage \in WrittenObjects => out.objects = ObjectsOf(doc, out)
    /\ stage \in WrittenObligations => out.obligations = ObligationsOf(doc, out)
    /\ stage \in WrittenChecks => out.checks = ChecksOf(doc, out)

\* Before anything is written the invariant holds.
LEMMA EmissionInvInit == Init => EmissionInv
  BY DEF Init, NothingEmitted, EmissionInv, IsOutput, Outputs, ParentsInv, WrittenFiles, WrittenSpans,
         WrittenSections, WrittenItems, ItemsStand, WrittenObjects, WrittenObligations, WrittenChecks

\* Nothing is written before or besides emission.
LEMMA NothingIsWritten ==
    ASSUME EmissionInv, stage \notin WrittenItems, stage' \notin WrittenFiles, UNCHANGED out
    PROVE  EmissionInv'
  BY DEF EmissionInv, WrittenFiles, WrittenSpans, WrittenSections, WrittenItems, ItemsStand,
         WrittenObjects, WrittenObligations, WrittenChecks

\* Validation, and the beginning of emission, write nothing.
LEMMA ValidationWritesNothing ==
    ASSUME EmissionInv, BeginValidation \/ ValidateStep \/ Raise \/ BeginEmission
    PROVE  EmissionInv'
  <1>1. /\ stage \notin WrittenItems /\ stage' \notin WrittenFiles
        /\ UNCHANGED out
    <2>1. CASE BeginValidation
      BY <2>1 DEF BeginValidation, WrittenFiles, WrittenSpans, WrittenSections, WrittenItems, ItemsStand,
                  WrittenObjects, WrittenObligations, WrittenChecks
    <2>2. CASE ValidateStep
      BY <2>2 DEF ValidateStep, Validate, WrittenFiles, WrittenSpans, WrittenSections, WrittenItems, ItemsStand,
                  WrittenObjects, WrittenObligations, WrittenChecks
    <2>3. CASE Raise
      BY <2>3 DEF Raise, WrittenFiles, WrittenSpans, WrittenSections, WrittenItems, ItemsStand,
                  WrittenObjects, WrittenObligations, WrittenChecks
    <2>4. CASE BeginEmission
      BY <2>4 DEF BeginEmission, WrittenFiles, WrittenSpans, WrittenSections, WrittenItems, ItemsStand,
                  WrittenObjects, WrittenObligations, WrittenChecks
    <2>5. QED BY <2>1, <2>2, <2>3, <2>4
  <1>2. QED BY <1>1, NothingIsWritten

\* What is left of the output carries the invariant over.
LEMMA EarlierListsStand ==
    ASSUME NEW d, NEW v, NEW w, IsOutput(w)
    PROVE  /\ Leaves(v, w, {"spans"}) => v.files = w.files
           /\ Leaves(v, w, {"sections"}) =>
                v.files = w.files /\ v.spans = w.spans /\ SpansOf(d, v) = SpansOf(d, w)
           /\ Leaves(v, w, {"items"}) =>
                /\ v.files = w.files /\ v.spans = w.spans /\ v.sections = w.sections
                /\ SpansOf(d, v) = SpansOf(d, w) /\ SectionsOf(d, v) = SectionsOf(d, w)
                /\ Candidates(d, v) = Candidates(d, w)
           /\ \A list \in {"obligations", "checks"} : Leaves(v, w, {list}) \/ Leaves(v, w, {"objects", "facts"}) =>
                /\ v.files = w.files /\ v.spans = w.spans /\ v.sections = w.sections /\ v.items = w.items
                /\ SpansOf(d, v) = SpansOf(d, w) /\ SectionsOf(d, v) = SectionsOf(d, w)
                /\ Candidates(d, v) = Candidates(d, w) /\ ParentRefusals(d, v) = ParentRefusals(d, w)
                /\ ObjectsOf(d, v) = ObjectsOf(d, w)
           /\ \A list \in {"obligations", "checks"} : Leaves(v, w, {list}) =>
                v.objects = w.objects /\ ObligationsOf(d, v) = ObligationsOf(d, w)
           /\ Leaves(v, w, {"checks"}) => v.obligations = w.obligations /\ ChecksOf(d, v) = ChecksOf(d, w)
  BY WrittenRestsOnEarlier DEF Leaves, Outputs

\* Every step of emission keeps the invariant, list by list.
LEMMA EmissionKeepsInv ==
    ASSUME EmissionInv, EmitStep
    PROVE  EmissionInv'
  <1> USE DEF WrittenFiles, WrittenSpans, WrittenSections, WrittenItems, ItemsStand, WrittenObjects,
              WrittenObligations, WrittenChecks
  <1>1. CASE Emit("emit-files", "emit-spans", EmitFiles(doc, out))
    <2>1. /\ stage = "emit-files" /\ stage' = "emit-spans" /\ doc' = doc
          /\ out' = EmitFiles(doc, out)
      BY <1>1 DEF Emit
    <2>2. IsOutput(out) /\ \A r \in out.refusals : r[1] # "items"
      BY <2>1 DEF EmissionInv
    <2>3. /\ IsOutput(out') /\ out'.files = FilesOf(doc)
          /\ \A r \in out'.refusals : r[1] # "items"
      BY <2>1, <2>2, FilesAreWritten DEF Leaves
    <2>4. QED BY <2>1, <2>3 DEF EmissionInv
  <1>2. CASE Emit("emit-spans", "emit-sections", EmitSpans(doc, out))
    <2>1. /\ stage = "emit-spans" /\ stage' = "emit-sections" /\ doc' = doc
          /\ out' = EmitSpans(doc, out)
      BY <1>2 DEF Emit
    <2>2. IsOutput(out) /\ out.files = FilesOf(doc) /\ \A r \in out.refusals : r[1] # "items"
      BY <2>1 DEF EmissionInv
    <2>3. /\ Leaves(out', out, {"spans"}) /\ out'.spans = SpansOf(doc, out)
          /\ \A r \in out'.refusals : r[1] # "items"
      BY <2>1, <2>2, SpansAreWritten
    <2>4. out'.files = FilesOf(doc) /\ out'.spans = SpansOf(doc, out')
      BY <2>2, <2>3, EarlierListsStand, WrittenRestsOnEarlier
    <2>5. QED BY <2>1, <2>3, <2>4 DEF EmissionInv, Leaves
  <1>3. CASE Emit("emit-sections", "emit-items", EmitSections(doc, out))
    <2>1. /\ stage = "emit-sections" /\ stage' = "emit-items" /\ doc' = doc
          /\ out' = EmitSections(doc, out)
      BY <1>3 DEF Emit
    <2>2. /\ IsOutput(out) /\ out.files = FilesOf(doc) /\ out.spans = SpansOf(doc, out)
          /\ \A r \in out.refusals : r[1] # "items"
      BY <2>1 DEF EmissionInv
    <2>3. /\ Leaves(out', out, {"sections"}) /\ out'.sections = SectionsOf(doc, out)
          /\ \A r \in out'.refusals : r[1] # "items"
      BY <2>1, <2>2, SectionsAreWritten
    <2>4. /\ out'.files = FilesOf(doc) /\ out'.spans = SpansOf(doc, out')
          /\ out'.sections = SectionsOf(doc, out')
      BY <2>2, <2>3, EarlierListsStand, WrittenRestsOnEarlier
    <2>5. QED BY <2>1, <2>3, <2>4 DEF EmissionInv, Leaves
  <1>4. CASE Emit("emit-items", "emit-parents", CandidateItems(doc, out))
    <2>1. /\ stage = "emit-items" /\ stage' = "emit-parents" /\ doc' = doc
          /\ out' = CandidateItems(doc, out)
      BY <1>4 DEF Emit
    <2>2. /\ IsOutput(out) /\ out.files = FilesOf(doc) /\ out.spans = SpansOf(doc, out)
          /\ out.sections = SectionsOf(doc, out) /\ \A r \in out.refusals : r[1] # "items"
      BY <2>1 DEF EmissionInv
    <2>3. Leaves(out', out, {"items"}) /\ ParentsInv(doc, out')
      BY <2>1, <2>2, CandidatesAreWritten, CandidatesStand
    <2>4. /\ out'.files = FilesOf(doc) /\ out'.spans = SpansOf(doc, out')
          /\ out'.sections = SectionsOf(doc, out')
      BY <2>2, <2>3, EarlierListsStand
    <2>5. QED BY <2>1, <2>3, <2>4 DEF EmissionInv, Leaves
  <1>5. CASE ParentRound /\ ParentRefusals(doc, out) # {}
    <2>1. /\ stage = "emit-parents" /\ stage' = "emit-parents" /\ doc' = doc
          /\ out' = RefuseParents(doc, out)
      BY <1>5 DEF ParentRound, Emit
    <2>2. /\ IsOutput(out) /\ out.files = FilesOf(doc) /\ out.spans = SpansOf(doc, out)
          /\ out.sections = SectionsOf(doc, out) /\ ParentsInv(doc, out)
      BY <2>1 DEF EmissionInv
    <2>3. Leaves(out', out, {"items"}) /\ ParentsInv(doc, out')
      BY <2>1, <2>2, RoundIsWritten, RoundKeepsParents
    <2>4. /\ out'.files = FilesOf(doc) /\ out'.spans = SpansOf(doc, out')
          /\ out'.sections = SectionsOf(doc, out')
      BY <2>2, <2>3, EarlierListsStand
    <2>5. QED BY <2>1, <2>3, <2>4 DEF EmissionInv, Leaves
  <1>6. CASE ParentRound /\ ParentRefusals(doc, out) = {}
    <2>1. /\ stage = "emit-parents" /\ stage' = "emit-objects" /\ doc' = doc
          /\ out' = out
      BY <1>6 DEF ParentRound, Emit
    <2>2. ParentsInv(doc, out)
      BY <2>1 DEF EmissionInv
    <2>3. out.items \subseteq {item.id : item \in Candidates(doc, out)}
      BY <2>2 DEF ParentsInv
    <2>4. QED BY <1>6, <2>1, <2>2, <2>3 DEF EmissionInv
  <1>7. CASE Emit("emit-objects", "emit-obligations", EmitObjects(doc, out))
    <2>1. /\ stage = "emit-objects" /\ stage' = "emit-obligations" /\ doc' = doc
          /\ out' = EmitObjects(doc, out)
      BY <1>7 DEF Emit
    <2>2. Leaves(out', out, {"objects", "facts"}) /\ out'.objects = ObjectsOf(doc, out)
      BY <2>1, ObjectsAreWritten DEF EmissionInv
    <2>3. QED BY <2>1, <2>2, EarlierListsStand DEF EmissionInv, Leaves
  <1>8. CASE Emit("emit-obligations", "emit-checks", EmitObligations(doc, out))
    <2>1. /\ stage = "emit-obligations" /\ stage' = "emit-checks" /\ doc' = doc
          /\ out' = EmitObligations(doc, out)
      BY <1>8 DEF Emit
    <2>2. Leaves(out', out, {"obligations"}) /\ out'.obligations = ObligationsOf(doc, out)
      BY <2>1, ObligationsAreWritten DEF EmissionInv
    <2>3. QED BY <2>1, <2>2, EarlierListsStand DEF EmissionInv, Leaves
  <1>9. CASE Emit("emit-checks", "emitted", EmitChecks(doc, out))
    <2>1. /\ stage = "emit-checks" /\ stage' = "emitted" /\ doc' = doc
          /\ out' = EmitChecks(doc, out)
      BY <1>9 DEF Emit
    <2>2. Leaves(out', out, {"checks"}) /\ out'.checks = ChecksOf(doc, out)
      BY <2>1, ChecksAreWritten DEF EmissionInv
    <2>3. QED BY <2>1, <2>2, EarlierListsStand DEF EmissionInv, Leaves
  <1>10. QED BY <1>1, <1>2, <1>3, <1>4, <1>5, <1>6, <1>7, <1>8, <1>9 DEF EmitStep

\* The invariant holds in every state.
LEMMA EmissionInvariant == Spec => []EmissionInv
  <1>1. Init => EmissionInv
    BY EmissionInvInit
  <1>2. EmissionInv /\ [Next]_vars => EmissionInv'
    <2> SUFFICES ASSUME EmissionInv, [Next]_vars
                 PROVE  EmissionInv'
      OBVIOUS
    <2>1. CASE BeginValidation \/ ValidateStep \/ Raise \/ BeginEmission
      BY <2>1, ValidationWritesNothing
    <2>2. CASE EmitStep
      BY <2>2, EmissionKeepsInv
    <2>3. CASE Done \/ UNCHANGED vars
      BY <2>3 DEF Done, vars, EmissionInv
    <2>4. QED BY <2>1, <2>2, <2>3 DEF Next
  <1>3. QED BY <1>1, <1>2, PTL DEF Spec

-----------------------------------------------------------------------------
(* The theorems. *)

\* Diagnostics, by rules of their own and without the backend's output
\* (backends/diagnostics.py), admit exactly the objects, the obligations and
\* the checks that emit_reified_atoms writes, and count its passes, failures
\* and unknowns, whatever document the compiler is given, validated or not.
THEOREM DiagnosticsAgree == Spec => []DiagnosticsAgreeWithEmission
  <1>1. EmissionInv => DiagnosticsAgreeWithEmission
    <2> SUFFICES ASSUME EmissionInv, stage = "emitted"
                 PROVE  /\ {doc.objects[i].id : i \in AdmittedObjects(doc)} = out.objects
                        /\ {doc.obligations[i].id : i \in AdmittedObligations(doc)} = out.obligations
                        /\ {doc.checks[i].id : i \in AdmittedChecks(doc)} = out.checks
                        /\ LET summary == DiagnosticsSummary(doc, out)
                               counts  == SummaryCounts(doc, out) IN
                           <<summary.pass, summary.fail, summary.unknown>> =
                               <<counts["Pass"], counts["Fail"], counts["Unknown"]>>
      BY DEF DiagnosticsAgreeWithEmission
    <2>1. /\ out.files = FilesOf(doc) /\ out.spans = SpansOf(doc, out) /\ out.objects = ObjectsOf(doc, out)
          /\ out.obligations = ObligationsOf(doc, out) /\ out.checks = ChecksOf(doc, out)
      BY DEF EmissionInv, WrittenFiles, WrittenSpans, WrittenSections, WrittenItems, ItemsStand,
             WrittenObjects, WrittenObligations, WrittenChecks
    <2>2. out.spans = AdmittedSpanIds(doc)
      BY <2>1, SpansAgree
    <2>3. {doc.objects[i].id : i \in AdmittedObjects(doc)} = out.objects
      BY <2>1, <2>2, ObjectsAgree DEF ObjectsOf
    <2>4. {doc.obligations[i].id : i \in AdmittedObligations(doc)} = out.obligations
      BY <2>1, <2>2, ObligationsAgree DEF ObligationsOf
    <2>5. {doc.checks[i].id : i \in AdmittedChecks(doc)} = out.checks
      BY <2>1, <2>2, ChecksAgree DEF ChecksOf
    <2>6. \A status \in {"Pass", "Fail", "Unknown"} :
              Cardinality({i \in AdmittedChecks(doc) : doc.checks[i].status = status}) =
                  SummaryCounts(doc, out)[status]
      <3> TAKE status \in {"Pass", "Fail", "Unknown"}
      <3>1. {i \in AdmittedChecks(doc) : doc.checks[i].status = status} =
                {i \in DOMAIN doc.checks : /\ doc.checks[i].typed /\ doc.checks[i].id \in out.checks
                                           /\ doc.checks[i].status = status}
        BY <2>1, <2>2, CountsAgree
      <3>2. QED BY <3>1 DEF SummaryCounts
    <2>7. LET summary == DiagnosticsSummary(doc, out) IN
          /\ summary.pass = Cardinality({i \in AdmittedChecks(doc) : doc.checks[i].status = "Pass"})
          /\ summary.fail = Cardinality({i \in AdmittedChecks(doc) : doc.checks[i].status = "Fail"})
          /\ summary.unknown = Cardinality({i \in AdmittedChecks(doc) : doc.checks[i].status = "Unknown"})
      BY DEF DiagnosticsSummary
    <2>8. QED BY <2>3, <2>4, <2>5, <2>6, <2>7
  <1>2. QED BY <1>1, EmissionInvariant, PTL

\* The file of a span that is written is written.
LEMMA WrittenSpan ==
    ASSUME NEW d, NEW w, w.spans = SpansOf(d, w), NEW s \in Range(d.spans), s.typed, s.id \in w.spans
    PROVE  s.file \in w.files
  <1>1. PICK j \in DOMAIN d.spans : s = d.spans[j]
    BY DEF Range
  <1>2. PICK i \in DOMAIN d.spans : SpanReason(d, w.files, d.spans[i]) = "none" /\ d.spans[i].id = s.id
    BY DEF SpansOf
  <1>3. /\ d.spans[i].typed /\ Safe(d.spans[i].id) /\ ~IsDuplicate(d.spans[i].id, d.spans)
        /\ d.spans[i].file \in w.files
    BY <1>2, AdmittedSpan, SoundSpan
  <1>4. QED BY <1>1, <1>2, <1>3, OneCarrier

\* The file and the span of a section that is written are written.
LEMMA WrittenSection ==
    ASSUME NEW d, NEW w, w.sections = SectionsOf(d, w),
           NEW s \in Range(d.sections), s.typed, s.id \in w.sections
    PROVE  s.file \in w.files /\ s.span \in w.spans
  <1>1. PICK j \in DOMAIN d.sections : s = d.sections[j]
    BY DEF Range
  <1>2. PICK i \in DOMAIN d.sections : SectionReason(d, w, d.sections[i]) = "none" /\ d.sections[i].id = s.id
    BY DEF SectionsOf
  <1>3. /\ d.sections[i].typed /\ Safe(d.sections[i].id) /\ ~IsDuplicate(d.sections[i].id, d.sections)
        /\ d.sections[i].file \in w.files /\ d.sections[i].span \in w.spans
    BY <1>2, AdmittedSection
  <1>4. QED BY <1>1, <1>2, <1>3, OneCarrier

\* So are those of an item, its section, and its parent, if it has one;
LEMMA WrittenItem ==
    ASSUME NEW d, NEW w, w.items \subseteq {item.id : item \in Candidates(d, w)}, ParentRefusals(d, w) = {},
           NEW item \in Range(d.items), item.typed, item.id \in w.items
    PROVE  /\ item.file \in w.files /\ item.span \in w.spans /\ item.section \in w.sections
           /\ item.parent # None => item.parent \in w.items
  <1>1. item \in Candidates(d, w)
    BY OneCandidate
  <1>2. ItemReason(d, w, item) = "none" /\ ParentReason(d, w.items, item) = "none"
    BY <1>1 DEF Candidates, ParentRefusals, Range
  <1>3. item.file \in w.files /\ item.span \in w.spans /\ item.section \in w.sections
    BY <1>2, AdmittedItem, SoundItem
  <1>4. item.parent # None => item.parent \in w.items
    BY <1>2, StandingParent
  <1>5. QED BY <1>3, <1>4

\* and the spans of an object, of its reasons and of its facts.
LEMMA WrittenObject ==
    ASSUME NEW d, NEW w, w.objects = ObjectsOf(d, w),
           NEW obj \in Range(d.objects), obj.typed, obj.id \in w.objects
    PROVE  ObjectReason(d, w, obj) = "none"
  <1>1. PICK j \in DOMAIN d.objects : obj = d.objects[j]
    BY DEF Range
  <1>2. PICK i \in DOMAIN d.objects : ObjectReason(d, w, d.objects[i]) = "none" /\ d.objects[i].id = obj.id
    BY DEF ObjectsOf
  <1>3. d.objects[i].typed /\ Safe(d.objects[i].id) /\ ~IsDuplicate(d.objects[i].id, d.objects)
    BY <1>2, AdmittedObject, SoundObject
  <1>4. QED BY <1>1, <1>2, <1>3, OneCarrier

\* Everything a written record cites is written.
LEMMA CitationsAre ==
    ASSUME EmissionInv, stage = "emitted"
    PROVE  CitationsAreEmitted
  <1> DEFINE Emitted(list) == {r \in Range(doc[list]) : r.typed /\ r.id \in out[list]}
             Provenance(r) == r.span \in {None, Blank} \/ ~HasManifest(doc) \/ r.span \in out.spans
  <1>1. /\ out.spans = SpansOf(doc, out) /\ out.sections = SectionsOf(doc, out)
        /\ out.items \subseteq {item.id : item \in Candidates(doc, out)} /\ ParentRefusals(doc, out) = {}
        /\ out.objects = ObjectsOf(doc, out) /\ out.obligations = ObligationsOf(doc, out)
        /\ out.checks = ChecksOf(doc, out)
    BY DEF EmissionInv, WrittenFiles, WrittenSpans, WrittenSections, WrittenItems, ItemsStand,
           WrittenObjects, WrittenObligations, WrittenChecks
  <1>2. \A s \in Emitted("spans") : s.file \in out.files
    BY <1>1, WrittenSpan
  <1>3. \A s \in Emitted("sections") : s.file \in out.files /\ s.span \in out.spans
    BY <1>1, WrittenSection
  <1>4. \A item \in Emitted("items") :
            /\ item.file \in out.files /\ item.span \in out.spans /\ item.section \in out.sections
            /\ item.parent # None => item.parent \in out.items
    BY <1>1, WrittenItem
  <1>5. \A span : OptionalProvenanceReason(span) = "none" /\ ~SpanNotEmitted(doc, out.spans, span) =>
            span \in {None, Blank} \/ ~HasManifest(doc) \/ span \in out.spans
    BY AdmittedSpanOf DEF SpanNotEmitted
  <1>6. \A obj \in Emitted("objects") : Provenance(obj)
    BY <1>1, <1>5, WrittenObject, AdmittedObject
  <1>7. \A o \in Emitted("obligations") : ObligationReason(doc, out, o) = "none"
    BY <1>1, WrittenObligation DEF Range
  <1>8. \A o \in Emitted("obligations") : Provenance(o) /\ ~OwnerNotEmitted(doc, out.objects, o.target)
    BY <1>5, <1>7, AdmittedObligation
  <1>9. ASSUME NEW c \in Emitted("checks")
        PROVE  \E o \in Emitted("obligations") : <<o.id, o.property, o.target>> = <<c.obligation, c.property, c.target>>
    <2>1. CheckReason(doc, out, c) = "none"
      BY <1>1, WrittenCheck DEF Range
    <2>2. /\ c.obligation \in out.obligations
          /\ \A o \in Range(doc.obligations) : o.typed /\ o.id = c.obligation /\ o.id \in out.obligations =>
                o.property = c.property /\ o.target = c.target
      BY <2>1, AdmittedCheck
    <2>3. PICK k \in DOMAIN doc.obligations :
              ObligationReason(doc, out, doc.obligations[k]) = "none" /\ doc.obligations[k].id = c.obligation
      BY <1>1, <2>2 DEF ObligationsOf
    <2>4. doc.obligations[k] \in Emitted("obligations")
      BY <2>2, <2>3, AdmittedObligation DEF Range
    <2>5. QED BY <2>2, <2>3, <2>4
  <1>10. QED BY <1>2, <1>3, <1>4, <1>6, <1>8, <1>9 DEF CitationsAreEmitted

\* What emit_reified_atoms writes cites only what it writes: no file, span,
\* section, item, parent, object or obligation is named that is not there.  Of
\* the items whose fields are sound, exactly those are kept that can be kept
\* together, and none is refused twice.
THEOREM ManifestsAreClosed == Spec => []ManifestIsClosed
  <1>1. EmissionInv => ManifestIsClosed
    <2> SUFFICES ASSUME EmissionInv
                 PROVE  ManifestIsClosed
      OBVIOUS
    <2>1. ASSUME stage = "emit-objects"
          PROVE  ParentsAreKeptWherePossible
      <3>1. ParentsInv(doc, out) /\ ParentRefusals(doc, out) = {}
        BY <2>1 DEF EmissionInv, ItemsStand
      <3>2. out.items = {item.id : item \in UNION ClosedSets(doc, out)}
        BY <3>1, StandingIsLargest
      <3>3. \A a, b \in out.refusals : a[1] = "items" /\ b[1] = "items" /\ a[2] = b[2] => a = b
        BY <3>1 DEF ParentsInv
      <3>4. QED BY <3>2, <3>3 DEF ParentsAreKeptWherePossible, ClosedSets, Candidates, Stands
    <2>2. ASSUME stage = "emitted"
          PROVE  CitationsAreEmitted
      BY <2>2, CitationsAre
    <2>3. QED BY <2>1, <2>2 DEF ManifestIsClosed
  <1>2. QED BY <1>1, EmissionInvariant, PTL

-----------------------------------------------------------------------------
(* Part 2.  The walk over references. *)

\* A step can be taken any number of times.
LEMMA Rounds ==
    ASSUME NEW X, NEW base \in X, NEW step \in [X -> X]
    PROVE  \E f \in [Nat -> X] : f[0] = base /\ \A n \in Nat \ {0} : f[n] = step[f[n - 1]]
  <1> DEFINE Upto(n, f) == f[0] = base /\ \A k \in 1..n : f[k] = step[f[k - 1]]
             short == {n \in Nat : ~\E f \in [0..n -> X] : Upto(n, f)}
  <1>1. short = {}
    <2> SUFFICES ASSUME short # {} PROVE FALSE
      OBVIOUS
    <2>1. PICK n \in short : \A k \in short : n <= k
      <3>1. short \subseteq Nat
        OBVIOUS
      <3> HIDE DEF short
      <3>2. QED BY <3>1, LeastNumber
    <2>2. CASE n = 0
      <3>1. Upto(0, [k \in 0..0 |-> base]) /\ [k \in 0..0 |-> base] \in [0..0 -> X]
        OBVIOUS
      <3>2. QED BY <2>2, <3>1
    <2>3. CASE n # 0
      <3>1. n \in Nat /\ n - 1 \in Nat /\ n - 1 \notin short
        <4>1. n \in Nat /\ n - 1 \in Nat /\ ~(n <= n - 1)
          BY <2>3
        <4>2. QED BY <4>1, <2>1
      <3>2. PICK f \in [0..(n - 1) -> X] : Upto(n - 1, f)
        BY <3>1
      <3> DEFINE g == [k \in 0..n |-> IF k = n THEN step[f[n - 1]] ELSE f[k]]
      <3>3. f[n - 1] \in X
        BY <3>1
      <3>4. g \in [0..n -> X]
        BY <3>1, <3>3
      <3>5. g[0] = base
        BY <3>1, <3>2, <2>3
      <3>6. \A k \in 1..n : g[k] = step[g[k - 1]]
        BY <3>1, <3>2
      <3>7. Upto(n, g)
        BY <3>5, <3>6
      <3> HIDE DEF g, Upto
      <3>8. QED BY <3>4, <3>7
    <2>4. QED BY <2>2, <2>3
  <1>2. \A n \in Nat : \E f \in [0..n -> X] : Upto(n, f)
    BY <1>1
  <1> DEFINE upto == [n \in Nat |-> CHOOSE f \in [0..n -> X] : Upto(n, f)]
             all == [n \in Nat |-> upto[n][n]]
  <1>3. \A n \in Nat : upto[n] \in [0..n -> X] /\ Upto(n, upto[n])
    <2> HIDE DEF Upto
    <2> QED BY <1>2
  <1> HIDE DEF upto
  <1>4. \A n \in Nat \ {0} : upto[n][n - 1] = upto[n - 1][n - 1]
    <2> SUFFICES ASSUME NEW n \in Nat \ {0} PROVE upto[n][n - 1] = upto[n - 1][n - 1]
      OBVIOUS
    <2> DEFINE apart == {k \in 0..(n - 1) : upto[n][k] # upto[n - 1][k]}
    <2>1. apart = {}
      <3> SUFFICES ASSUME apart # {} PROVE FALSE
        OBVIOUS
      <3>1. PICK k \in apart : \A j \in apart : k <= j
        <4>1. apart \subseteq Nat
          OBVIOUS
        <4> HIDE DEF apart
        <4>2. QED BY <4>1, LeastNumber
      <3>2. k # 0
        BY <1>3
      <3>3. k - 1 \in 0..(n - 1) /\ k - 1 \notin apart /\ k \in 1..(n - 1) /\ k \in 1..n
        BY <3>1, <3>2
      <3>4. upto[n][k - 1] = upto[n - 1][k - 1]
        BY <3>3
      <3>5. upto[n][k] = step[upto[n][k - 1]] /\ upto[n - 1][k] = step[upto[n - 1][k - 1]]
        BY <1>3, <3>3
      <3>6. QED BY <3>4, <3>5
    <2>2. QED BY <2>1
  <1>5. all \in [Nat -> X]
    BY <1>3
  <1>6. all[0] = base
    BY <1>3
  <1>7. \A n \in Nat \ {0} : all[n] = step[all[n - 1]]
    <2> SUFFICES ASSUME NEW n \in Nat \ {0} PROVE all[n] = step[all[n - 1]]
      OBVIOUS
    <2>1. upto[n][n] = step[upto[n][n - 1]]
      BY <1>3
    <2>2. QED BY <2>1, <1>4
  <1>8. QED BY <1>5, <1>6, <1>7

\* An identity that is declared finds a record of it, and, unless it is
\* ambiguous, the only one.
LEMMA DeclaredIsFound ==
    ASSUME NEW objects, objects \in Seq(Range(objects)), NEW id \in Named(objects)
    PROVE  /\ Declared(objects, id) \in Range(objects) /\ Declared(objects, id).id = id
           /\ \E i \in DOMAIN objects : objects[i].id = id /\ Declared(objects, id) = objects[i]
           /\ id \notin Ambiguous(objects) =>
                \A i \in DOMAIN objects : objects[i].id = id => Declared(objects, id) = objects[i]
  <1> DEFINE carriers == {i \in DOMAIN objects : objects[i].id = id}
             first == CHOOSE i \in DOMAIN objects : objects[i].id = id /\ \A j \in 1..(i - 1) : objects[j].id # id
  <1>1. DOMAIN objects = 1..Len(objects) /\ Len(objects) \in Nat
    OBVIOUS
  <1>2. carriers # {} /\ carriers \subseteq Nat
    BY <1>1 DEF Named, Range
  <1>3. PICK m \in carriers : \A k \in carriers : m <= k
    <2> HIDE DEF carriers
    <2> QED BY <1>2, LeastNumber
  <1>4. m \in DOMAIN objects /\ objects[m].id = id /\ \A j \in 1..(m - 1) : objects[j].id # id
    BY <1>1, <1>3
  <1>5. first \in DOMAIN objects /\ objects[first].id = id
    BY <1>4
  <1>6. Declared(objects, id) = objects[first]
    BY DEF Declared
  <1>7. id \notin Ambiguous(objects) => \A i \in DOMAIN objects : objects[i].id = id => i = first
    <2> SUFFICES ASSUME NEW i \in carriers, i # first PROVE id \in Ambiguous(objects)
      OBVIOUS
    <2>1. IsFiniteSet(carriers)
      <3>1. IsFiniteSet(1..Len(objects))
        BY <1>1, FS_Interval
      <3>2. carriers \in SUBSET (1..Len(objects))
        BY <1>1
      <3> HIDE DEF carriers
      <3>3. QED BY <3>1, <3>2, FS_Subset
    <2>2. first \in carriers
      BY <1>5
    <2>3. Cardinality(carriers) > 1
      <3> HIDE DEF carriers
      <3>1. Cardinality(carriers) \in Nat
        BY <2>1, FS_CardinalityType
      <3>2. Cardinality(carriers) # 0
        BY <2>1, <2>2, FS_EmptySet
      <3>3. Cardinality(carriers) # 1
        BY <2>1, <2>2, FS_Singleton
      <3>4. QED BY <3>1, <3>2, <3>3
    <2>4. QED BY <2>3 DEF Ambiguous
  <1> HIDE DEF first
  <1>8. QED BY <1>5, <1>6, <1>7 DEF Range

-----------------------------------------------------------------------------
\* The end of a path is where it was extended to.
LEMMA ExtendedPath ==
    ASSUME NEW U, NEW path \in Seq(U), NEW x \in U, path # <<>>
    PROVE  LET longer == Append(path, x) IN
           /\ longer \in Seq(U) /\ longer # <<>> /\ Len(longer) = Len(path) + 1
           /\ Last(longer) = x /\ \A k \in 1..Len(path) : longer[k] = path[k]
           /\ Len(path) \in Nat \ {0}
  BY DEF Last

\* What a path that may be extended passed.
LEMMA PassedEnd ==
    ASSUME NEW objects, NEW path, PathReason(objects, path) = "none"
    PROVE  /\ Safe(Last(path)) /\ Last(path) \notin Range(Front(path))
           /\ Last(path) \in Named(objects) \ Ambiguous(objects)
           /\ Len(path) > 1 => NodeReason(Declared(objects, Last(path))) = "none"
  <1>1. PathReason(objects, path) \notin {"MissingObjectId", "ReferenceCycle", "AmbiguousReference",
                                         "DanglingReference"}
    OBVIOUS
  <1>2. QED BY <1>1 DEF PathReason

\* The paths from a set of paths, round by round.
Grows(f, objects, base) ==
    f[0] = base /\ \A n \in Nat \ {0} : f[n] = f[n - 1] \cup Extensions(objects, f[n - 1])

\* What a walk may meet.
Met(objects, start) == {start} \cup UNION {ReferencesOf(obj) : obj \in Range(objects)}

\* The walk from an object in rounds: its paths are sequences of what objects
\* refer to, and the rounds are those of the definition.
IsWalk(W, objects, start) ==
    /\ W \in [Nat -> SUBSET Seq(Met(objects, start))]
    /\ Grows(W, objects, {<<start>>})
    /\ PathsFrom(objects, start) = W[Len(objects) + 1]

\* Rounds of extensions can be taken within any set that they do not leave.
LEMMA RoundsOfExtensions ==
    ASSUME NEW objects, NEW X, NEW base \in X, \A paths \in X : paths \cup Extensions(objects, paths) \in X
    PROVE  \E f \in [Nat -> X] : Grows(f, objects, base)
  <1> DEFINE step == [paths \in X |-> paths \cup Extensions(objects, paths)]
  <1>1. step \in [X -> X]
    OBVIOUS
  <1>2. \A f \in [Nat -> X] : \A n \in Nat \ {0} :
            step[f[n - 1]] = f[n - 1] \cup Extensions(objects, f[n - 1])
    OBVIOUS
  <1> HIDE DEF step
  <1>3. \E f \in [Nat -> X] : f[0] = base /\ \A n \in Nat \ {0} : f[n] = step[f[n - 1]]
    BY <1>1, Rounds
  <1>4. QED BY <1>2, <1>3 DEF Grows

\* The walk has such rounds.
LEMMA WalkInRounds ==
    ASSUME NEW objects, objects \in Seq(Range(objects)), NEW start
    PROVE  \E W : IsWalk(W, objects, start)
  <1>u. PICK U : U = Met(objects, start)
    OBVIOUS
  <1>x. PICK X : X = SUBSET Seq(U)
    OBVIOUS
  <1> DEFINE within == CHOOSE w : w = [rounds \in Nat |->
                           IF rounds = 0 THEN {<<start>>}
                           ELSE w[rounds - 1] \cup Extensions(objects, w[rounds - 1])]
  <1>1. {<<start>>} \in X
    BY <1>u, <1>x DEF Met
  <1>2. \A paths \in X : Extensions(objects, paths) \in X
    <2> SUFFICES ASSUME NEW paths \in X, NEW longer \in Extensions(objects, paths)
                 PROVE  longer \in Seq(U)
      BY <1>x
    <2>. PICK path \in {path \in paths : PathReason(objects, path) = "none"} :
             longer \in {Append(path, next) : next \in ReferencesOf(Declared(objects, Last(path)))}
      BY Zenon DEF Extensions
    <2>. PICK next \in ReferencesOf(Declared(objects, Last(path))) : longer = Append(path, next)
      OBVIOUS
    <2>1. Declared(objects, Last(path)) \in Range(objects)
      BY PassedEnd, DeclaredIsFound
    <2>2. next \in U
      BY <2>1, <1>u DEF Met
    <2>3. path \in Seq(U)
      BY <1>x
    <2>4. QED BY <2>2, <2>3
  <1>3. \A paths \in X : paths \cup Extensions(objects, paths) \in X
    BY <1>2, <1>x
  <1> HIDE DEF within
  <1>4. PICK f \in [Nat -> X] : Grows(f, objects, {<<start>>})
    BY <1>1, <1>3, RoundsOfExtensions
  <1>5. f[0] = {<<start>>} /\ \A n \in Nat \ {0} : f[n] = f[n - 1] \cup Extensions(objects, f[n - 1])
    BY <1>4 DEF Grows
  <1>6. f = [rounds \in Nat |-> IF rounds = 0 THEN {<<start>>}
                                ELSE f[rounds - 1] \cup Extensions(objects, f[rounds - 1])]
    BY <1>5
  <1>7. within = [rounds \in Nat |-> IF rounds = 0 THEN {<<start>>}
                                     ELSE within[rounds - 1] \cup Extensions(objects, within[rounds - 1])]
    BY <1>6 DEF within
  <1>8. PathsFrom(objects, start) = within[Len(objects) + 1]
    BY Zenon DEF PathsFrom, within
  <1>9. within[0] = {<<start>>}
        /\ \A n \in Nat \ {0} : within[n] = within[n - 1] \cup Extensions(objects, within[n - 1])
    BY <1>7
  <1>10. within \in [Nat -> X]
    <2> DEFINE apart == {n \in Nat : within[n] # f[n]}
    <2>1. apart = {}
      <3> SUFFICES ASSUME apart # {} PROVE FALSE
        OBVIOUS
      <3>1. PICK n \in apart : \A k \in apart : n <= k
        <4>1. apart \subseteq Nat
          OBVIOUS
        <4> HIDE DEF apart
        <4>2. QED BY <4>1, LeastNumber
      <3>2. n # 0
        BY <1>5, <1>9
      <3>3. n - 1 \in Nat /\ n - 1 \notin apart
        <4>1. n \in Nat /\ n - 1 \in Nat /\ ~(n <= n - 1)
          BY <3>2
        <4>2. QED BY <4>1, <3>1
      <3>4. within[n - 1] = f[n - 1] /\ n \in Nat \ {0}
        BY <3>2, <3>3
      <3>5. within[n] = f[n]
        BY <3>4, <1>5, <1>9
      <3>6. QED BY <3>5
    <2>2. \A n \in Nat : within[n] = f[n]
      BY <2>1
    <2>3. within = [n \in Nat |-> within[n]]
      BY <1>7
    <2>4. QED BY <2>2, <2>3, <1>4
  <1>12. IsWalk(within, objects, start)
    BY <1>8, <1>9, <1>10, <1>u, <1>x DEF IsWalk, Grows
  <1>13. QED BY <1>12

\* A set of paths that holds the first one, and every extension of a path that
\* may be extended, holds the walk.
LEMMA WalkWithin ==
    ASSUME NEW objects, objects \in Seq(Range(objects)), NEW start, NEW P, <<start>> \in P,
           \A path \in Seq(Met(objects, start)) \cap P : \A x \in Met(objects, start) :
               /\ path # <<>> /\ PathReason(objects, path) = "none"
               /\ x \in ReferencesOf(Declared(objects, Last(path)))
               => Append(path, x) \in P
    PROVE  PathsFrom(objects, start) \subseteq {path \in P \cap Seq(Met(objects, start)) : path # <<>>}
  <1>1. PICK W : IsWalk(W, objects, start)
    BY WalkInRounds
  <1>u. PICK U : U = Met(objects, start)
    OBVIOUS
  <1> DEFINE Q == {path \in P \cap Seq(U) : path # <<>>}
             out1 == {n \in Nat : ~(W[n] \subseteq Q)}
  <1>2. start \in U /\ W \in [Nat -> SUBSET Seq(U)] /\ W[0] = {<<start>>}
        /\ \A n \in Nat \ {0} : W[n] = W[n - 1] \cup Extensions(objects, W[n - 1])
    BY <1>1, <1>u DEF IsWalk, Grows, Met
  <1>3. W[0] \subseteq Q
    BY <1>2
  <1>4. ASSUME NEW n \in Nat \ {0}, W[n - 1] \subseteq Q, NEW longer \in W[n], longer \notin W[n - 1]
        PROVE  longer \in Q
    <2>1. longer \in Extensions(objects, W[n - 1]) /\ longer \in Seq(U)
      BY <1>2, <1>4
    <2>2. PICK path \in {path \in W[n - 1] : PathReason(objects, path) = "none"} :
              longer \in {Append(path, next) : next \in ReferencesOf(Declared(objects, Last(path)))}
      BY <2>1, Zenon DEF Extensions
    <2>3. PICK x \in ReferencesOf(Declared(objects, Last(path))) : longer = Append(path, x)
      BY <2>2
    <2>4. path \in Q /\ path \in Seq(U) /\ path # <<>>
      BY <1>4
    <2>5. x \in U /\ longer # <<>>
      <3>1. longer[Len(path) + 1] = x /\ Len(path) + 1 \in 1..Len(longer)
        BY <2>3, <2>4
      <3>2. longer[Len(path) + 1] \in U
        BY <2>1, <3>1
      <3>3. QED BY <3>1, <3>2, <2>1
    <2>6. longer \in P
      BY <2>2, <2>3, <2>4, <2>5, <1>u
    <2>7. QED BY <2>1, <2>5, <2>6
  <1>5. out1 = {}
    <2> SUFFICES ASSUME out1 # {} PROVE FALSE
      OBVIOUS
    <2>1. PICK n \in out1 : \A k \in out1 : n <= k
      <3>1. out1 \subseteq Nat
        OBVIOUS
      <3> HIDE DEF out1
      <3>2. QED BY <3>1, LeastNumber
    <2>2. n \in Nat \ {0}
      BY <1>3
    <2>3. n - 1 \in Nat /\ ~(n <= n - 1)
      BY <2>2
    <2>4. W[n - 1] \subseteq Q
      BY <2>1, <2>3
    <2> HIDE DEF Q
    <2>5. W[n] \subseteq Q
      BY <2>2, <2>4, <1>4
    <2>6. QED BY <2>5
  <1>6. Len(objects) + 1 \in Nat
    OBVIOUS
  <1>7. QED BY <1>1, <1>5, <1>6, <1>u DEF IsWalk

\* Before its end a path meets only declared objects, and none twice.
Simple(objects, path) ==
    \A k \in 1..(Len(path) - 1) :
        path[k] \in Named(objects) /\ \A j \in 1..(k - 1) : path[j] # path[k]

\* A path that may be extended meets no object twice at all.
LEMMA SimpleExtension ==
    ASSUME NEW objects, NEW U, NEW path \in Seq(U), path # <<>>, NEW x \in U,
           Simple(objects, path), PathReason(objects, path) = "none"
    PROVE  Simple(objects, Append(path, x))
  <1> DEFINE longer == Append(path, x)
             n == Len(path)
  <1>1. n \in Nat \ {0} /\ Len(longer) = n + 1 /\ \A k \in 1..n : longer[k] = path[k]
    BY ExtendedPath
  <1>2. path[n] \in Named(objects)
    BY PassedEnd DEF Last
  <1>3. \A j \in 1..(n - 1) : path[j] # path[n]
    <2>1. path[n] \notin Range(Front(path))
      BY PassedEnd DEF Last
    <2>2. \A j \in 1..(n - 1) : path[j] \in Range(Front(path))
      BY DEF Range, Front
    <2>3. QED BY <2>1, <2>2
  <1>4. ASSUME NEW k \in 1..n
        PROVE  longer[k] \in Named(objects) /\ \A j \in 1..(k - 1) : longer[j] # longer[k]
    <2>1. CASE k = n
      BY <1>1, <1>2, <1>3, <2>1
    <2>2. CASE k # n
      <3>1. k \in 1..(n - 1)
        BY <2>2, <1>1
      <3>2. path[k] \in Named(objects) /\ \A j \in 1..(k - 1) : path[j] # path[k]
        BY <3>1 DEF Simple
      <3>3. QED BY <3>1, <3>2, <1>1
    <2>3. QED BY <2>1, <2>2
  <1>5. QED BY <1>1, <1>4 DEF Simple

\* So no path is longer than the list of objects, but for its end.
LEMMA PathsAreShort ==
    ASSUME NEW objects, objects \in Seq(Range(objects)), NEW start, NEW path \in PathsFrom(objects, start)
    PROVE  /\ path \in Seq(Met(objects, start)) /\ path # <<>>
           /\ Len(path) <= Len(objects) + 1
  <1>u. PICK U : U = Met(objects, start)
    OBVIOUS
  <1> DEFINE P == {p \in Seq(U) : Simple(objects, p)}
  <1>1. <<start>> \in P
    BY <1>u DEF Simple, Met
  <1>2. ASSUME NEW p \in Seq(U) \cap P, NEW x \in U, p # <<>>, PathReason(objects, p) = "none"
        PROVE  Append(p, x) \in P
    BY <1>2, SimpleExtension
  <1>3. path \in P /\ path \in Seq(U) /\ path # <<>>
    <2> HIDE DEF P
    <2>1. PathsFrom(objects, start) \subseteq {p \in P \cap Seq(Met(objects, start)) : p # <<>>}
      BY <1>1, <1>2, <1>u, WalkWithin
    <2>2. QED BY <2>1, <1>u
  <1> DEFINE n == Len(path) - 1
             at == [k \in 1..n |-> CHOOSE i \in DOMAIN objects : objects[i].id = path[k]]
  <1>4. n \in Nat /\ Simple(objects, path)
    BY <1>3
  <1>5. \A k \in 1..n : at[k] \in DOMAIN objects /\ objects[at[k]].id = path[k]
    <2> SUFFICES ASSUME NEW k \in 1..n PROVE at[k] \in DOMAIN objects /\ objects[at[k]].id = path[k]
      OBVIOUS
    <2>1. path[k] \in Named(objects)
      BY <1>4 DEF Simple
    <2>2. \E i \in DOMAIN objects : objects[i].id = path[k]
      BY <2>1 DEF Named, Range
    <2>3. QED BY <2>2
  <1>6. \A j, k \in 1..n : at[j] = at[k] => j = k
    <2>1. \A j, k \in 1..n : j < k => path[j] # path[k]
      BY <1>4 DEF Simple
    <2>2. \A j, k \in 1..n : j < k => at[j] # at[k]
      BY <2>1, <1>5
    <2> HIDE DEF at
    <2>3. \A j, k \in 1..n : j < k \/ k < j \/ j = k
      BY <1>4
    <2>4. QED BY <2>2, <2>3
  <1>7. at \in Injection(1..n, 1..Len(objects))
    <2>1. DOMAIN objects = 1..Len(objects)
      OBVIOUS
    <2>2. at \in [1..n -> 1..Len(objects)]
      BY <1>5, <2>1
    <2> HIDE DEF at
    <2>3. QED BY <2>2, <1>6 DEF Injection, IsInjective
  <1>8. n <= Len(objects)
    <2>1. Len(objects) \in Nat
      OBVIOUS
    <2>2. IsFiniteSet(1..Len(objects)) /\ Cardinality(1..Len(objects)) = Len(objects)
      BY <2>1, FS_Interval
    <2>3. Cardinality(1..n) <= Cardinality(1..Len(objects))
      BY <1>7, <2>2, FS_Injection
    <2>4. Cardinality(1..n) = n
      BY <1>4, FS_Interval
    <2>5. QED BY <2>2, <2>3, <2>4
  <1>9. QED BY <1>3, <1>8, <1>u

\* The walk leaves nothing out: it begins with the object, and every path that
\* may be extended is, by every reference of its last object.
LEMMA WalkIsComplete ==
    ASSUME NEW objects, objects \in Seq(Range(objects)), NEW start
    PROVE  /\ <<start>> \in PathsFrom(objects, start)
           /\ \A path \in PathsFrom(objects, start) :
                PathReason(objects, path) = "none" =>
                    \A x \in ReferencesOf(Declared(objects, Last(path))) :
                        Append(path, x) \in PathsFrom(objects, start)
  <1>u. PICK U : U = Met(objects, start)
    OBVIOUS
  <1>1. PICK W : IsWalk(W, objects, start)
    BY WalkInRounds
  <1>2. W \in [Nat -> SUBSET Seq(U)] /\ W[0] = {<<start>>}
        /\ \A n \in Nat \ {0} : W[n] = W[n - 1] \cup Extensions(objects, W[n - 1])
    BY <1>1, <1>u DEF IsWalk, Grows
  <1> DEFINE N == Len(objects)
  <1>3. N \in Nat /\ PathsFrom(objects, start) = W[N + 1]
    BY <1>1 DEF IsWalk
  <1> HIDE DEF N
  <1>4. \A n \in Nat : W[n] \subseteq W[n + 1]
    <2> TAKE n \in Nat
    <2>1. n + 1 \in Nat \ {0} /\ (n + 1) - 1 = n
      OBVIOUS
    <2>2. QED BY <2>1, <1>2
  <1>5. ASSUME NEW n \in Nat, NEW path \in W[n], PathReason(objects, path) = "none",
               NEW x \in ReferencesOf(Declared(objects, Last(path)))
        PROVE  Append(path, x) \in W[n + 1]
    <2>1. n + 1 \in Nat \ {0} /\ (n + 1) - 1 = n
      OBVIOUS
    <2>2. Append(path, x) \in Extensions(objects, W[n])
      <3>1. path \in {p \in W[n] : PathReason(objects, p) = "none"}
        BY <1>5
      <3>2. Append(path, x) \in {Append(path, next) : next \in ReferencesOf(Declared(objects, Last(path)))}
        BY <1>5
      <3>3. QED BY <3>1, <3>2, Zenon DEF Extensions
    <2>3. QED BY <2>1, <2>2, <1>2
  <1> DEFINE Late(n) == \A path \in W[n + 1] : path \notin W[n] => Len(path) >= n + 2
             early == {n \in Nat : ~Late(n)}
  <1>6. ASSUME NEW n \in Nat, n = 0 \/ (n - 1 \in Nat /\ Late(n - 1)),
               NEW longer \in W[n + 1], longer \notin W[n]
        PROVE  Len(longer) >= n + 2
    <2>1. longer \in Extensions(objects, W[n])
      BY <1>6, <1>2
    <2>2. PICK path \in {path \in W[n] : PathReason(objects, path) = "none"} :
              longer \in {Append(path, next) : next \in ReferencesOf(Declared(objects, Last(path)))}
      BY <2>1, Zenon DEF Extensions
    <2>3. PICK x \in ReferencesOf(Declared(objects, Last(path))) : longer = Append(path, x)
      BY <2>2
    <2>4. path \in W[n] /\ PathReason(objects, path) = "none" /\ path \in Seq(U)
      BY <2>2, <1>2
    <2>5. Len(path) >= n + 1
      <3>1. CASE n = 0
        <4>1. path \in W[0]
          BY <3>1, <2>4
        <4>2. path = <<start>>
          BY <4>1, <1>2
        <4>3. QED BY <4>2, <3>1
      <3>2. CASE n # 0
        <4>1. n - 1 \in Nat /\ (n - 1) + 1 = n /\ Late(n - 1)
          BY <3>2, <1>6
        <4>2. path \notin W[n - 1]
          BY <4>1, <1>5, <2>3, <2>4, <1>6
        <4>3. QED BY <4>1, <4>2, <2>4
      <3>3. QED BY <3>1, <3>2
    <2>6. Len(longer) = Len(path) + 1 /\ Len(path) \in Nat
      BY <2>3, <2>4
    <2>7. QED BY <2>5, <2>6
  <1>7. early = {}
    <2> SUFFICES ASSUME early # {} PROVE FALSE
      OBVIOUS
    <2>1. PICK n \in early : \A k \in early : n <= k
      <3>1. early \subseteq Nat
        OBVIOUS
      <3> HIDE DEF early
      <3>2. QED BY <3>1, LeastNumber
    <2>2. n \in Nat /\ (n = 0 \/ (n - 1 \in Nat /\ ~(n <= n - 1)))
      BY <2>1
    <2>3. n = 0 \/ (n - 1 \in Nat /\ Late(n - 1))
      <3> HIDE DEF Late
      <3>1. CASE n = 0
        BY <3>1
      <3>2. CASE n # 0
        <4>1. n - 1 \in Nat /\ n - 1 \notin early
          <5> HIDE DEF early
          <5> QED BY <3>2, <2>1, <2>2
        <4>2. Late(n - 1)
          BY <4>1
        <4>3. QED BY <4>1, <4>2
      <3>3. QED BY <3>1, <3>2
    <2>4. Late(n)
      <3> HIDE DEF early
      <3> SUFFICES ASSUME NEW longer \in W[n + 1], longer \notin W[n] PROVE Len(longer) >= n + 2
        OBVIOUS
      <3> HIDE DEF Late
      <3> QED BY <1>6, <2>2, <2>3
    <2>5. QED BY <2>4
  <1>8. W[N + 1] \subseteq W[N]
    <2> SUFFICES ASSUME NEW path \in W[N + 1], path \notin W[N] PROVE FALSE
      OBVIOUS
    <2>1. Len(path) >= N + 2
      BY <1>3, <1>7
    <2>2. Len(path) <= N + 1
      BY <1>3, PathsAreShort DEF N
    <2>3. path \in Seq(U)
      BY <1>2, <1>3
    <2>4. QED BY <2>1, <2>2, <2>3, <1>3
  <1>9. <<start>> \in W[N + 1]
    <2> DEFINE without == {n \in Nat : <<start>> \notin W[n]}
    <2>1. without = {}
      <3> SUFFICES ASSUME without # {} PROVE FALSE
        OBVIOUS
      <3>1. PICK n \in without : \A k \in without : n <= k
        <4>1. without \subseteq Nat
          OBVIOUS
        <4> HIDE DEF without
        <4>2. QED BY <4>1, LeastNumber
      <3>2. n # 0
        BY <1>2
      <3>3. n - 1 \in Nat /\ ~(n <= n - 1) /\ (n - 1) + 1 = n
        BY <3>2
      <3>4. <<start>> \in W[n - 1]
        BY <3>1, <3>3
      <3>5. W[n - 1] \subseteq W[n]
        BY <1>4, <3>3
      <3>6. QED BY <3>4, <3>5
    <2>2. QED BY <2>1, <1>3
  <1>10. QED BY <1>3, <1>5, <1>8, <1>9

-----------------------------------------------------------------------------
(* What the rules of the gate refuse. *)

\* An object no rule refuses as the target of a reference.
LEMMA SafeNode ==
    ASSUME NEW obj
    PROVE  NodeReason(obj) = "none" <=>
               /\ obj.level \in SafeByValue /\ ProvenanceReason(obj.span) = "none"
               /\ obj.facts # <<>> /\ FactReasons(obj) = {}
  <1> DEFINE rules == <<
        <<obj.level \notin SafeByValue, "unsafe-semantic-level">>,
        <<ProvenanceReason(obj.span) # "none", ProvenanceReason(obj.span)>>,
        <<obj.facts = <<>>, "missing-profile-facts">>,
        <<FactReasons(obj) # {}, "unsafe-profile">>>>
  <1>1. DOMAIN rules = 1..4 /\ \A i \in 1..4 : rules[i][1] => rules[i][2] # "none"
    <2>1. DOMAIN rules = 1..4
      OBVIOUS
    <2>2. /\ rules[1][2] # "none" /\ rules[3][2] # "none" /\ rules[4][2] # "none"
          /\ rules[2][1] => rules[2][2] # "none"
      OBVIOUS
    <2> HIDE DEF rules
    <2>3. QED BY <2>1, <2>2
  <1>2. FirstReason(rules) = "none" <=> \A i \in 1..4 : ~rules[i][1]
    <2> HIDE DEF rules
    <2>1. QED BY <1>1, FirstReasonIsNone
  <1>3. (\A i \in 1..4 : ~rules[i][1]) <=> ~rules[1][1] /\ ~rules[2][1] /\ ~rules[3][1] /\ ~rules[4][1]
    <2> HIDE DEF rules
    <2>1. QED OBVIOUS
  <1>4. QED BY <1>2, <1>3 DEF NodeReason

\* An object no rule refuses for itself.
LEMMA OwnSafety ==
    ASSUME NEW objects, NEW obj
    PROVE  OwnReason(objects, obj) = "none" <=>
               /\ obj.id \notin NotText /\ Safe(obj.id) /\ obj.role # "untyped" /\ obj.level \in KnownLevels
               /\ obj.id \notin Ambiguous(objects) /\ obj.level # "RawTextOnly"
               /\ obj.level \in ExecutableSafeLevels /\ ProvenanceReason(obj.span) = "none"
               /\ obj.facts # <<>>
  <1> DEFINE rules == <<
        <<obj.id \in NotText, "unsupported-object-id-type">>,
        <<~Safe(obj.id), "missing-object-id">>,
        <<obj.role = "untyped", "unsupported-object-role-type">>,
        <<obj.level \notin KnownLevels, "unsupported-semantic-level-type">>,
        <<obj.id \in Ambiguous(objects), "duplicate-object-id">>,
        <<obj.level = "RawTextOnly", "raw-text-only-skeleton-forbidden">>,
        <<obj.level \notin ExecutableSafeLevels, "unsupported-semantic-level">>,
        <<ProvenanceReason(obj.span) # "none", ProvenanceReason(obj.span)>>,
        <<obj.facts = <<>>, "missing-profile-facts">>>>
  <1>1. DOMAIN rules = 1..9 /\ \A i \in 1..9 : rules[i][1] => rules[i][2] # "none"
    <2>1. DOMAIN rules = 1..9
      OBVIOUS
    <2>2. /\ rules[1][2] # "none" /\ rules[2][2] # "none" /\ rules[3][2] # "none" /\ rules[4][2] # "none"
          /\ rules[5][2] # "none" /\ rules[6][2] # "none" /\ rules[7][2] # "none"
          /\ rules[8][1] => rules[8][2] # "none"
          /\ rules[9][2] # "none"
      OBVIOUS
    <2> HIDE DEF rules
    <2>3. QED BY <2>1, <2>2
  <1>2. FirstReason(rules) = "none" <=> \A i \in 1..9 : ~rules[i][1]
    <2> HIDE DEF rules
    <2>1. QED BY <1>1, FirstReasonIsNone
  <1>3. (\A i \in 1..9 : ~rules[i][1]) <=>
            /\ ~rules[1][1] /\ ~rules[2][1] /\ ~rules[3][1] /\ ~rules[4][1] /\ ~rules[5][1]
            /\ ~rules[6][1] /\ ~rules[7][1] /\ ~rules[8][1] /\ ~rules[9][1]
    <2> HIDE DEF rules
    <2>1. QED OBVIOUS
  <1>4. QED BY <1>2, <1>3 DEF OwnReason

\* A level safe to execute is a member of its type that equals one.
LEMMA SafeLevels ==
    /\ ExecutableSafeLevels \subseteq KnownLevels \ {"RawTextOnly"}
    /\ ExecutableSafeLevels = SafeByValue \cap KnownLevels
  BY DEF ExecutableSafeLevels, SafeByValue, KnownLevels, SupportedLevels

\* An object is lowered when nothing is refused, of it or of its facts.
LEMMA LoweredObject ==
    ASSUME NEW objects, NEW i \in DOMAIN objects
    PROVE  i \in Lowerable(objects) <=>
               /\ OwnReason(objects, objects[i]) = "none"
               /\ \A f \in Range(objects[i].facts) : FactGateReasons(objects, objects[i], f) = {}
  <1> DEFINE RefusalsOf(j) ==
        IF OwnReason(objects, objects[j]) # "none" THEN {<<j, OwnReason(objects, objects[j])>>}
        ELSE {<<j, reason>> : reason \in UNION {FactGateReasons(objects, objects[j], f) :
                                                    f \in Range(objects[j].facts)}}
  <1>1. ExecutableRefusals(objects) = UNION {RefusalsOf(j) : j \in DOMAIN objects}
    BY Zenon DEF ExecutableRefusals
  <1>2. \A j \in DOMAIN objects : \A refusal \in RefusalsOf(j) : refusal[1] = j
    OBVIOUS
  <1>3. RefusalsOf(i) = {} <=>
               /\ OwnReason(objects, objects[i]) = "none"
               /\ \A f \in Range(objects[i].facts) : FactGateReasons(objects, objects[i], f) = {}
    <2>1. CASE OwnReason(objects, objects[i]) # "none"
      BY <2>1
    <2>2. CASE OwnReason(objects, objects[i]) = "none"
      <3> DEFINE reasons == UNION {FactGateReasons(objects, objects[i], f) : f \in Range(objects[i].facts)}
      <3>1. RefusalsOf(i) = {<<i, reason>> : reason \in reasons}
        BY <2>2
      <3>2. RefusalsOf(i) = {} <=> reasons = {}
        <4> HIDE DEF reasons, RefusalsOf
        <4> QED BY <3>1
      <3>3. reasons = {} <=> \A f \in Range(objects[i].facts) : FactGateReasons(objects, objects[i], f) = {}
        OBVIOUS
      <3>4. QED BY <2>2, <3>2, <3>3
    <2>3. QED BY <2>1, <2>2
  <1> HIDE DEF RefusalsOf
  <1>4. i \in Lowerable(objects) <=> RefusalsOf(i) = {}
    BY <1>1, <1>2 DEF Lowerable
  <1>5. QED BY <1>3, <1>4

\* The gate refuses a fact for itself, or for a target.
LEMMA UnrefusedFact ==
    ASSUME NEW objects, NEW obj, NEW f
    PROVE  FactGateReasons(objects, obj, f) = {} <=>
               /\ ProfileFactReason(obj, f) = "none"
               /\ \A target \in TargetsOf(f) : ReferenceReason(objects, target) = "none"
  BY DEF FactGateReasons

\* What the references of a fact name, the object refers to.
LEMMA TargetsAreReferences ==
    ASSUME NEW obj, NEW f \in Range(obj.facts)
    PROVE  TargetsOf(f) \subseteq ReferencesOf(obj)
  BY DEF ReferencesOf

-----------------------------------------------------------------------------
(* Closures. *)

\* What the first object of an identity refers to.
Refs(objects, id) == ReferencesOf(Declared(objects, id))

\* What the gate asks of every object it meets.
Sourced(obj) ==
    obj.level \in SafeByValue /\ ProvenanceReason(obj.span) = "none" /\ obj.facts # <<>>

\* The identities of one object that is safe in itself, and of one that may be
\* named by a fact of another.
SoundIds(objects) ==
    {id \in Named(objects) \ Ambiguous(objects) :
        Safe(id) /\ Sourced(Declared(objects, id)) /\ FactReasons(Declared(objects, id)) = {}}
CitableIds(objects) ==
    {id \in Named(objects) \ Ambiguous(objects) :
        Safe(id) /\ Sourced(Declared(objects, id)) /\ TargetFactReasons(Declared(objects, id)) = {}}

\* A set that refers to nothing else and can be ordered.
IsClosure(objects, S) ==
    /\ \A id \in S : Refs(objects, id) \subseteq S
    /\ \A part \in (SUBSET S) \ {{}} : \E id \in part : Refs(objects, id) \cap part = {}

\* One of sound objects that holds what the target refers to and not the target.
Supports(objects, target, S) ==
    /\ S \subseteq SoundIds(objects) \ {target}
    /\ Refs(objects, target) \subseteq S
    /\ IsClosure(objects, S)

\* Sound objects are those no rule refuses, and may be named.
LEMMA SoundAre ==
    ASSUME NEW objects, NEW id \in Named(objects) \ Ambiguous(objects), Safe(id)
    PROVE  /\ id \in SoundIds(objects) <=> NodeReason(Declared(objects, id)) = "none"
           /\ id \in SoundIds(objects) => id \in CitableIds(objects)
  BY SafeNode DEF SoundIds, CitableIds, Sourced, TargetFactReasons

\* With the target they are still a closure.
LEMMA SupportedIsClosed ==
    ASSUME NEW objects, NEW target, NEW S, Supports(objects, target, S)
    PROVE  IsClosure(objects, S \cup {target})
  <1>1. /\ target \notin S /\ Refs(objects, target) \subseteq S
        /\ \A id \in S : Refs(objects, id) \subseteq S
        /\ \A part \in (SUBSET S) \ {{}} : \E id \in part : Refs(objects, id) \cap part = {}
    BY DEF Supports, IsClosure
  <1>2. ASSUME NEW part \in (SUBSET (S \cup {target})) \ {{}}
        PROVE  \E id \in part : Refs(objects, id) \cap part = {}
    <2>p. PICK rest : rest = part \ {target}
      OBVIOUS
    <2>1. CASE rest = {}
      <3>1. part = {target}
        BY <2>p, <2>1
      <3>2. QED BY <3>1, <1>1
    <2>2. CASE rest # {}
      <3>1. rest \in (SUBSET S) \ {{}}
        BY <2>p, <2>2
      <3>2. PICK id \in rest : Refs(objects, id) \cap rest = {}
        BY <3>1, <1>1
      <3>3. id \in S /\ target \notin Refs(objects, id)
        BY <3>1, <1>1
      <3>4. QED BY <2>p, <3>2, <3>3
    <2>3. QED BY <2>1, <2>2
  <1>3. QED BY <1>1, <1>2 DEF IsClosure

\* A sequence with more than one member keeps its first one when its last goes.
LEMMA FirstInFront ==
    ASSUME NEW U, NEW path \in Seq(U), Len(path) > 1
    PROVE  path[1] \in Range(Front(path))
  <1> DEFINE front == SubSeq(path, 1, Len(path) - 1)
  <1>1. Len(path) \in Nat /\ 1 \in 1..(Len(path) - 1)
    OBVIOUS
  <1>2. front[1] = path[1] /\ 1 \in DOMAIN front
    BY <1>1
  <1> HIDE DEF front
  <1>3. QED BY <1>2 DEF front, Front, Range

\* A walk from the target stays among them, meets no object twice and ends
\* without a reason.
LEMMA SupportedIsWalked ==
    ASSUME NEW objects, objects \in Seq(Range(objects)), NEW target \in Named(objects) \ Ambiguous(objects),
           Safe(target), NEW S, Supports(objects, target, S)
    PROVE  DeepReasons(objects, target) = {}
  <1>t. PICK T : T = S \cup {target}
    OBVIOUS
  <1>0. IsClosure(objects, T) /\ S \subseteq SoundIds(objects)
    BY <1>t, SupportedIsClosed DEF Supports
  <1> DEFINE Chain(path) == \A k \in 1..(Len(path) - 1) : path[k + 1] \in Refs(objects, path[k])
             P == {path \in Seq(T) : Chain(path) /\ path # <<>> /\ path[1] = target}
  <1>1. <<target>> \in P
    BY <1>t
  <1>2. ASSUME NEW path \in P, NEW x, x \in Refs(objects, Last(path))
        PROVE  Append(path, x) \in P
    <2>1. /\ path \in Seq(T) /\ Len(path) \in Nat \ {0} /\ path[Len(path)] \in T /\ path[1] = target
          /\ \A k \in 1..(Len(path) - 1) : path[k + 1] \in Refs(objects, path[k])
      BY <1>2
    <2>2. x \in T /\ x \in Refs(objects, path[Len(path)])
      BY <1>0, <1>2, <2>1 DEF IsClosure, Last
    <2> DEFINE longer == Append(path, x)
    <2>3. /\ longer \in Seq(T) /\ Len(longer) = Len(path) + 1 /\ longer[Len(path) + 1] = x
          /\ \A k \in 1..Len(path) : longer[k] = path[k]
      BY <2>1, <2>2
    <2>4. ASSUME NEW k \in 1..Len(path) PROVE longer[k + 1] \in Refs(objects, longer[k])
      <3>1. CASE k = Len(path)
        BY <3>1, <2>2, <2>3
      <3>2. CASE k # Len(path)
        <4>1. k \in 1..(Len(path) - 1) /\ k + 1 \in 1..Len(path)
          BY <3>2, <2>1
        <4>2. QED BY <4>1, <2>1, <2>3
      <3>3. QED BY <3>1, <3>2
    <2>5. longer # <<>> /\ longer[1] = target
      BY <2>1, <2>3
    <2> HIDE DEF longer
    <2>6. Chain(longer)
      BY <2>1, <2>3, <2>4
    <2>7. QED BY <2>3, <2>5, <2>6 DEF longer
  <1>3. PathsFrom(objects, target) \subseteq P
    <2> HIDE DEF P
    <2>1. QED BY <1>1, <1>2, WalkWithin DEF Refs
  <1>4. ASSUME NEW path \in Seq(T), Chain(path), path # <<>>, path[1] = target
        PROVE  PathReason(objects, path) = "none"
    <2> DEFINE n == Len(path)
               end == path[n]
    <2>1. n \in Nat \ {0} /\ \A k \in 1..n : path[k] \in T
      BY <1>4
    <2>2. Last(path) = end /\ end \in T
      BY <2>1 DEF Last
    <2>3. end \notin Range(Front(path))
      <3> SUFFICES ASSUME end \in Range(Front(path)) PROVE FALSE
        OBVIOUS
      <3>1. PICK j \in 1..(n - 1) : path[j] = end
        BY <2>1 DEF Range, Front
      <3> DEFINE part == {path[k] : k \in j..(n - 1)}
      <3>2. part \in (SUBSET T) \ {{}}
        <4>1. j \in j..(n - 1) /\ \A k \in j..(n - 1) : k \in 1..n
          BY <2>1
        <4>2. part \subseteq T /\ path[j] \in part
          BY <4>1, <2>1
        <4> HIDE DEF part
        <4>3. part # {} /\ part \in SUBSET T
          BY <4>2
        <4>4. QED BY <4>3
      <3>3. ASSUME NEW k \in j..(n - 1) PROVE Refs(objects, path[k]) \cap part # {}
        <4>1. k \in 1..(n - 1) /\ path[k + 1] \in Refs(objects, path[k])
          BY <1>4, <2>1
        <4>2. CASE k = n - 1
          <5>1. k + 1 = n /\ j \in j..(n - 1)
            BY <4>2, <2>1
          <5>2. path[k + 1] = path[j]
            BY <5>1, <3>1
          <5>3. QED BY <4>1, <5>1, <5>2
        <4>3. CASE k # n - 1
          <5>1. k + 1 \in j..(n - 1)
            BY <4>3, <2>1
          <5>2. QED BY <4>1, <5>1
        <4>4. QED BY <4>2, <4>3
      <3>4. PICK id \in part : Refs(objects, id) \cap part = {}
        <4> HIDE DEF part
        <4> QED BY <1>0, <3>2 DEF IsClosure
      <3>5. QED BY <3>3, <3>4
    <2>4. Len(path) > 1 => end # target
      <3> SUFFICES ASSUME n > 1 PROVE end # target
        OBVIOUS
      <3>1. path[1] \in Range(Front(path))
        BY FirstInFront
      <3>2. QED BY <3>1, <2>3, <1>4
    <2> HIDE DEF end, n
    <2>5. end = target \/ end \in SoundIds(objects)
      BY <1>0, <1>t, <2>2
    <2>6. Safe(end) /\ end \in Named(objects) \ Ambiguous(objects)
      BY <2>5 DEF SoundIds
    <2>7. Len(path) > 1 => NodeReason(Declared(objects, end)) = "none"
      BY <2>4, <2>5, <2>6, SoundAre
    <2>8. QED BY <2>2, <2>3, <2>6, <2>7 DEF PathReason
  <1>5. QED BY <1>3, <1>4 DEF DeepReasons

\* So no reference to a citable object that sound ones support is refused.
LEMMA SupportedIsReferable ==
    ASSUME NEW objects, objects \in Seq(Range(objects)), NEW target \in CitableIds(objects),
           NEW S, Supports(objects, target, S)
    PROVE  ReferenceReason(objects, target) = "none"
  <1> DEFINE obj == Declared(objects, target)
  <1>1. target \in Named(objects) \ Ambiguous(objects) /\ Safe(target)
        /\ obj.level \in SafeByValue /\ ProvenanceReason(obj.span) = "none"
        /\ obj.facts # <<>> /\ TargetFactReasons(obj) = {}
    BY DEF CitableIds, Sourced
  <1>2. ReferencesOf(obj) \subseteq SoundIds(objects)
    BY DEF Supports, Refs
  <1>3. \A next \in ReferencesOf(obj) : next \in Named(objects) /\ Declared(objects, next).level \in SafeByValue
    BY <1>2 DEF SoundIds, Sourced
  <1>4. DeepReasons(objects, target) = {}
    BY <1>1, SupportedIsWalked
  <1> HIDE DEF obj
  <1>5. QED BY <1>1, <1>3, <1>4 DEF ReferenceReason, obj

-----------------------------------------------------------------------------
(* What the gate lets through. *)

\* Every path of a walk begins where the walk does.
LEMMA WalkBegins ==
    ASSUME NEW objects, objects \in Seq(Range(objects)), NEW start, NEW path \in PathsFrom(objects, start)
    PROVE  path # <<>> /\ path[1] = start
  <1>u. PICK U : U = Met(objects, start)
    OBVIOUS
  <1> DEFINE P == {p \in Seq(U) : p # <<>> /\ p[1] = start}
  <1>1. <<start>> \in P
    BY <1>u DEF Met
  <1>2. ASSUME NEW p \in Seq(U) \cap P, NEW x \in U
        PROVE  Append(p, x) \in P
    <2>1. p \in Seq(U) /\ Len(p) \in Nat \ {0} /\ p[1] = start
      BY <1>2
    <2> DEFINE longer == Append(p, x)
    <2>2. longer \in Seq(U) /\ Len(longer) = Len(p) + 1 /\ longer[1] = p[1]
      BY <2>1
    <2> HIDE DEF longer
    <2>3. longer # <<>>
      BY <2>1, <2>2
    <2>4. longer \in P
      BY <2>1, <2>2, <2>3
    <2>5. QED BY <2>4 DEF longer
  <1>3. path \in P
    <2> HIDE DEF P
    <2>1. QED BY <1>1, <1>2, <1>u, WalkWithin
  <1>4. QED BY <1>3

\* If the gate refuses nothing of an object, the object is sound, what it refers
\* to may be named, and every walk from there ends without a reason.
LEMMA LoweredIsSafe ==
    ASSUME NEW objects, objects \in Seq(Range(objects)),
           NEW i \in Lowerable(objects), i \in DOMAIN objects
    PROVE  /\ objects[i].role # "untyped" /\ objects[i].level \in KnownLevels
           /\ objects[i].id \in SoundIds(objects) /\ Declared(objects, objects[i].id) = objects[i]
           /\ \A target \in ReferencesOf(objects[i]) :
                target \in CitableIds(objects) /\ DeepReasons(objects, target) = {}
  <1> DEFINE obj == objects[i]
  <1>1. /\ OwnReason(objects, obj) = "none"
        /\ \A f \in Range(obj.facts) : FactGateReasons(objects, obj, f) = {}
    BY LoweredObject
  <1>2. /\ obj.id \notin NotText /\ Safe(obj.id) /\ obj.id \notin Ambiguous(objects) /\ obj.facts # <<>>
        /\ obj.role # "untyped" /\ obj.level \in KnownLevels
        /\ obj.level \in SafeByValue /\ ProvenanceReason(obj.span) = "none"
    BY <1>1, OwnSafety, SafeLevels
  <1>3. obj \in Range(objects) /\ obj.id \in Named(objects)
    <2>1. obj \in Range(objects)
      BY DEF Range
    <2>2. QED BY <2>1, <1>2 DEF Named
  <1>4. Declared(objects, obj.id) = obj
    BY <1>2, <1>3, DeclaredIsFound
  <1>5. \A f \in Range(obj.facts) : ProfileFactReason(obj, f) = "none"
    BY <1>1, UnrefusedFact
  <1>6. FactReasons(obj) = {}
    BY <1>5 DEF FactReasons, Range
  <1>7. obj.id \in SoundIds(objects)
    BY <1>2, <1>3, <1>4, <1>6 DEF SoundIds, Sourced
  <1>8. ASSUME NEW target \in ReferencesOf(obj)
        PROVE  target \in CitableIds(objects) /\ DeepReasons(objects, target) = {}
    <2> DEFINE cited == Declared(objects, target)
    <2>1. PICK f \in Range(obj.facts) : target \in TargetsOf(f)
      BY <1>8 DEF ReferencesOf
    <2>2. ReferenceReason(objects, target) = "none"
      BY <2>1, <1>1, UnrefusedFact
    <2>3. /\ target \in Named(objects) \ Ambiguous(objects)
          /\ cited.level \in SafeByValue /\ ProvenanceReason(cited.span) = "none"
          /\ cited.facts # <<>> /\ TargetFactReasons(cited) = {}
          /\ DeepReasons(objects, target) = {}
      <3> HIDE DEF cited
      <3> QED BY <2>2 DEF ReferenceReason, cited
    <2>4. \A path \in PathsFrom(objects, target) : PathReason(objects, path) = "none"
      BY <2>3 DEF DeepReasons
    <2>5. <<target>> \in PathsFrom(objects, target) /\ Last(<<target>>) = target
      BY WalkIsComplete DEF Last
    <2>6. Safe(target)
      BY <2>4, <2>5, PassedEnd
    <2>7. QED BY <2>3, <2>6 DEF CitableIds, Sourced
  <1>9. QED BY <1>2, <1>4, <1>7, <1>8

\* A path of such a walk is not too long, goes on by everything its last object
\* refers to, and ends, if it has gone on, in a sound object that it did not
\* begin with.
LEMMA SoundWalk ==
    ASSUME NEW objects, objects \in Seq(Range(objects)), NEW start,
           DeepReasons(objects, start) = {}, NEW path \in PathsFrom(objects, start)
    PROVE  /\ Len(path) \in 1..(Len(objects) + 1)
           /\ Len(path) > 1 => Last(path) \in SoundIds(objects) \ {start}
           /\ \A x \in Refs(objects, Last(path)) :
                /\ Append(path, x) \in PathsFrom(objects, start)
                /\ Last(Append(path, x)) = x /\ Len(Append(path, x)) = Len(path) + 1
  <1>1. PathReason(objects, path) = "none"
    BY DEF DeepReasons
  <1>u. PICK U : U = Met(objects, start)
    OBVIOUS
  <1>2. path \in Seq(U) /\ path # <<>> /\ Len(path) <= Len(objects) + 1 /\ path[1] = start
    BY <1>u, PathsAreShort, WalkBegins
  <1>3. Len(path) \in 1..(Len(objects) + 1)
    BY <1>2
  <1>4. ASSUME Len(path) > 1
        PROVE  Last(path) \in SoundIds(objects) \ {start}
    <2>1. Last(path) \in SoundIds(objects)
      BY <1>1, <1>4, PassedEnd, SoundAre
    <2>2. path[1] \in Range(Front(path))
      BY <1>2, <1>4, FirstInFront
    <2>3. QED BY <1>1, <1>2, <2>1, <2>2, PassedEnd
  <1>5. ASSUME NEW x \in Refs(objects, Last(path))
        PROVE  /\ Append(path, x) \in PathsFrom(objects, start)
               /\ Last(Append(path, x)) = x /\ Len(Append(path, x)) = Len(path) + 1
    <2>1. Append(path, x) \in PathsFrom(objects, start)
      BY <1>1, <1>5, WalkIsComplete DEF Refs
    <2>2. x \in U
      <3>1. Declared(objects, Last(path)) \in Range(objects)
        BY <1>1, PassedEnd, DeclaredIsFound
      <3>2. QED BY <3>1, <1>5, <1>u DEF Met, Refs
    <2>3. QED BY <2>1, <2>2, <1>2, ExtendedPath
  <1>6. QED BY <1>3, <1>4, <1>5

\* What such a walk reaches supports the object it begins with.  It can be
\* ordered, since a part that always leads back into itself would let a walk go
\* on for ever.
LEMMA WalkedIsSupported ==
    ASSUME NEW objects, objects \in Seq(Range(objects)), NEW target, DeepReasons(objects, target) = {}
    PROVE  \E S : Supports(objects, target, S)
  <1>p. PICK paths : paths = PathsFrom(objects, target)
    OBVIOUS
  <1>1. \A path \in paths :
            /\ Len(path) \in 1..(Len(objects) + 1)
            /\ Len(path) > 1 => Last(path) \in SoundIds(objects) \ {target}
            /\ \A x \in Refs(objects, Last(path)) :
                 Append(path, x) \in paths /\ Last(Append(path, x)) = x /\ Len(Append(path, x)) = Len(path) + 1
    BY <1>p, SoundWalk
  <1>s. PICK S : S = {Last(path) : path \in {path \in paths : Len(path) > 1}}
    OBVIOUS
  <1>2. S \subseteq SoundIds(objects) \ {target}
    BY <1>1, <1>s
  <1>3. ASSUME NEW path \in paths, NEW x \in Refs(objects, Last(path))
        PROVE  /\ x \in S /\ Append(path, x) \in paths /\ Last(Append(path, x)) = x
               /\ Len(Append(path, x)) = Len(path) + 1 /\ Len(Append(path, x)) > 1
    <2>1. /\ Append(path, x) \in paths /\ Last(Append(path, x)) = x
          /\ Len(Append(path, x)) = Len(path) + 1 /\ Len(path) \in 1..(Len(objects) + 1)
      BY <1>1
    <2>2. Len(Append(path, x)) > 1
      BY <2>1
    <2>3. QED BY <2>1, <2>2, <1>s
  <1>4. Refs(objects, target) \subseteq S
    <2>1. <<target>> \in paths /\ Last(<<target>>) = target
      BY <1>p, WalkIsComplete DEF Last
    <2>2. QED BY <2>1, <1>3
  <1>5. ASSUME NEW id \in S PROVE Refs(objects, id) \subseteq S
    BY <1>3, <1>s
  <1>6. ASSUME NEW part \in (SUBSET S) \ {{}}, \A id \in part : Refs(objects, id) \cap part # {}
        PROVE  FALSE
    <2>n. PICK n : n = Len(objects) + 1
      OBVIOUS
    <2> DEFINE into == {path \in paths : Last(path) \in part}
               gaps == {n - Len(path) : path \in into}
    <2>1. into # {}
      BY <1>s
    <2>2. gaps # {} /\ gaps \subseteq Nat
      <3>1. \A path \in into : n - Len(path) \in Nat
        BY <1>1, <2>n
      <3> HIDE DEF into
      <3>2. QED BY <3>1, <2>1
    <2>3. PICK m \in gaps : \A k \in gaps : m <= k
      <3> HIDE DEF gaps
      <3> QED BY <2>2, LeastNumber
    <2>4. PICK path \in into : m = n - Len(path)
      BY <2>3
    <2>5. PICK x \in Refs(objects, Last(path)) : x \in part
      BY <2>4, <1>6
    <2>6. Append(path, x) \in into /\ Len(Append(path, x)) = Len(path) + 1
      BY <2>4, <2>5, <1>3
    <2>7. n - (Len(path) + 1) \in gaps
      BY <2>6
    <2>8. m <= n - (Len(path) + 1)
      <3> HIDE DEF gaps
      <3> QED BY <2>3, <2>7
    <2>9. n \in Nat /\ Len(path) \in Nat
      BY <2>4, <2>n, <1>1
    <2>10. QED BY <2>4, <2>8, <2>9
  <1>7. IsClosure(objects, S)
    BY <1>5, <1>6 DEF IsClosure
  <1>8. QED BY <1>2, <1>4, <1>7 DEF Supports

\* The gate refuses nothing of a sound object all of whose references lead to
\* citable objects with such a support.
LEMMA SupportedIsLowered ==
    ASSUME NEW objects, objects \in Seq(Range(objects)), NEW i \in DOMAIN objects,
           objects[i].role # "untyped", objects[i].level \in KnownLevels, objects[i].id \in SoundIds(objects),
           \A target \in Refs(objects, objects[i].id) :
               target \in CitableIds(objects) /\ \E S : Supports(objects, target, S)
    PROVE  i \in Lowerable(objects)
  <1>o. PICK obj : obj = objects[i]
    OBVIOUS
  <1>1. obj.id \in Named(objects) \ Ambiguous(objects) /\ Safe(obj.id)
    BY <1>o DEF SoundIds
  <1>2. Declared(objects, obj.id) = obj
    BY <1>1, <1>o, DeclaredIsFound
  <1>3. /\ obj.level \in ExecutableSafeLevels /\ ProvenanceReason(obj.span) = "none"
        /\ obj.facts # <<>> /\ FactReasons(obj) = {}
    BY <1>2, <1>o, SafeLevels DEF SoundIds, Sourced
  <1>4. OwnReason(objects, obj) = "none"
    <2>1. obj.id \notin NotText
      BY <1>1 DEF Safe
    <2>2. obj.level \in KnownLevels /\ obj.level # "RawTextOnly"
      BY <1>3, SafeLevels
    <2>3. QED BY <2>1, <2>2, <1>1, <1>3, <1>o, OwnSafety
  <1>5. ASSUME NEW f \in Range(obj.facts) PROVE FactGateReasons(objects, obj, f) = {}
    <2>1. ProfileFactReason(obj, f) = "none"
      BY <1>3 DEF FactReasons, Range
    <2>2. TargetsOf(f) \subseteq Refs(objects, obj.id)
      BY <1>2, TargetsAreReferences DEF Refs
    <2>3. \A target \in TargetsOf(f) : ReferenceReason(objects, target) = "none"
      BY <2>2, <1>o, SupportedIsReferable
    <2>4. QED BY <2>1, <2>3, UnrefusedFact
  <1>6. QED BY <1>4, <1>5, <1>o, LoweredObject

\* So the gate lets through exactly these.
LEMMA LoweredAreTheSupported ==
    ASSUME NEW objects, objects \in Seq(Range(objects)), NEW i \in DOMAIN objects
    PROVE  i \in Lowerable(objects) <=>
               /\ objects[i].role # "untyped" /\ objects[i].level \in KnownLevels
               /\ objects[i].id \in SoundIds(objects)
               /\ \A target \in Refs(objects, objects[i].id) :
                    target \in CitableIds(objects) /\ \E S : Supports(objects, target, S)
  <1>1. ASSUME i \in Lowerable(objects)
        PROVE  /\ objects[i].role # "untyped" /\ objects[i].level \in KnownLevels
               /\ objects[i].id \in SoundIds(objects)
               /\ \A target \in Refs(objects, objects[i].id) :
                    target \in CitableIds(objects) /\ DeepReasons(objects, target) = {}
    BY <1>1, LoweredIsSafe DEF Refs
  <1>2. QED BY <1>1, WalkedIsSupported, SupportedIsLowered

\* Which is what the property says of the objects of a document.
LEMMA LoweredAreTheClosed ==
    ASSUME NEW objects, objects \in Seq(Range(objects))
    PROVE  LET record == [id \in Named(objects) \ Ambiguous(objects) |-> Declared(objects, id)]
               SourcedId(id) == /\ Safe(id) /\ record[id].level \in SafeByValue
                                /\ ProvenanceReason(record[id].span) = "none" /\ record[id].facts # <<>>
               sound   == {id \in DOMAIN record : SourcedId(id) /\ FactReasons(record[id]) = {}}
               citable == {id \in DOMAIN record :
                             SourcedId(id) /\ FactReasons(record[id]) \subseteq {"empty-object-reference"}}
               refersTo == [id \in citable |-> ReferencesOf(record[id])]
               Closed(S) == \A id \in S : refersTo[id] \subseteq S
               Ordered(S) == \A part \in (SUBSET S) \ {{}} : \E id \in part : refersTo[id] \cap part = {} IN
           Lowerable(objects) =
               {i \in DOMAIN objects :
                   /\ objects[i].role # "untyped" /\ objects[i].level \in KnownLevels
                   /\ objects[i].id \in sound
                   /\ \A target \in refersTo[objects[i].id] :
                        /\ target \in citable
                        /\ \E S \in SUBSET (sound \ {target}) :
                             refersTo[target] \subseteq S /\ Closed(S) /\ Ordered(S)}
  <1> DEFINE record == [id \in Named(objects) \ Ambiguous(objects) |-> Declared(objects, id)]
             SourcedId(id) == /\ Safe(id) /\ record[id].level \in SafeByValue
                              /\ ProvenanceReason(record[id].span) = "none" /\ record[id].facts # <<>>
             sound   == {id \in DOMAIN record : SourcedId(id) /\ FactReasons(record[id]) = {}}
             citable == {id \in DOMAIN record :
                           SourcedId(id) /\ FactReasons(record[id]) \subseteq {"empty-object-reference"}}
             refersTo == [id \in citable |-> ReferencesOf(record[id])]
             Closed(S) == \A id \in S : refersTo[id] \subseteq S
             Ordered(S) == \A part \in (SUBSET S) \ {{}} : \E id \in part : refersTo[id] \cap part = {}
             Fits(i) == /\ objects[i].role # "untyped" /\ objects[i].level \in KnownLevels
                        /\ objects[i].id \in sound
                        /\ \A target \in refersTo[objects[i].id] :
                             /\ target \in citable
                             /\ \E S \in SUBSET (sound \ {target}) :
                                  refersTo[target] \subseteq S /\ Closed(S) /\ Ordered(S)
  <1>1. sound = SoundIds(objects) /\ citable = CitableIds(objects)
    <2>1. \A id \in DOMAIN record : record[id] = Declared(objects, id)
      OBVIOUS
    <2>2. DOMAIN record = Named(objects) \ Ambiguous(objects)
      OBVIOUS
    <2> HIDE DEF record
    <2>3. QED BY <2>1, <2>2 DEF SoundIds, CitableIds, Sourced, TargetFactReasons
  <1>2. sound \subseteq citable /\ \A id \in citable : refersTo[id] = Refs(objects, id)
    BY DEF Refs
  <1> HIDE DEF sound, citable, refersTo
  <1>3. ASSUME NEW target \in citable
        PROVE  (\E S : Supports(objects, target, S)) <=>
                  \E S \in SUBSET (sound \ {target}) : refersTo[target] \subseteq S /\ Closed(S) /\ Ordered(S)
    <2>1. ASSUME NEW S \in SUBSET (sound \ {target})
          PROVE  Supports(objects, target, S) <=> refersTo[target] \subseteq S /\ Closed(S) /\ Ordered(S)
      <3>1. \A id \in S : refersTo[id] = Refs(objects, id)
        BY <1>2
      <3>2. (Closed(S) /\ Ordered(S)) <=> IsClosure(objects, S)
        BY <3>1 DEF IsClosure
      <3> HIDE DEF Closed, Ordered
      <3>3. QED BY <3>2, <1>1, <1>2 DEF Supports
    <2>2. \A S : Supports(objects, target, S) => S \in SUBSET (sound \ {target})
      BY <1>1 DEF Supports
    <2> HIDE DEF Closed, Ordered
    <2>3. QED BY <2>1, <2>2
  <1>4. ASSUME NEW i \in DOMAIN objects
        PROVE  i \in Lowerable(objects) <=> Fits(i)
    <2>1. objects[i].id \in sound => refersTo[objects[i].id] = Refs(objects, objects[i].id)
      BY <1>2
    <2> DEFINE Reaches(target) ==
                 \E S \in SUBSET (sound \ {target}) : refersTo[target] \subseteq S /\ Closed(S) /\ Ordered(S)
               Goes(target) == target \in CitableIds(objects) /\ \E S : Supports(objects, target, S)
    <2>2. \A target : Goes(target) <=> target \in citable /\ Reaches(target)
      <3> HIDE DEF Closed, Ordered
      <3>1. QED BY <1>1, <1>3
    <2> HIDE DEF Reaches
    <2>3. i \in Lowerable(objects) <=>
             /\ objects[i].role # "untyped" /\ objects[i].level \in KnownLevels
             /\ objects[i].id \in sound
             /\ \A target \in Refs(objects, objects[i].id) : Goes(target)
      BY <1>1, LoweredAreTheSupported
    <2> HIDE DEF Goes
    <2>4. i \in Lowerable(objects) <=>
             /\ objects[i].role # "untyped" /\ objects[i].level \in KnownLevels
             /\ objects[i].id \in sound
             /\ \A target \in refersTo[objects[i].id] : target \in citable /\ Reaches(target)
      BY <2>1, <2>2, <2>3
    <2>5. QED BY <2>4 DEF Reaches
  <1>5. Lowerable(objects) \subseteq DOMAIN objects
    BY DEF Lowerable
  <1> HIDE DEF Closed, Ordered, Fits
  <1>6. Lowerable(objects) = {i \in DOMAIN objects : Fits(i)}
    BY <1>4, <1>5
  <1>7. QED BY <1>6 DEF Fits, Closed, Ordered, refersTo, citable, sound, SourcedId, record

-----------------------------------------------------------------------------
\* An object may be lowered exactly when it is sound and each object it refers
\* to is citable, and leads into a set of sound objects without itself that
\* refers to nothing outside and can be ordered: the gate of
\* refuse_executable_skeleton lets nothing else through and holds nothing else
\* back, whatever the document it receives.  Citable and sound leave open the
\* role and the type of the level of what is referred to.
THEOREM SafeClosures == Spec => []OnlySafeClosuresAreLowered
  <1> DEFINE Given == stage = "received" => doc \in Inputs
  <1>1. Init => Given
    BY DEF Init
  <1>2. Given /\ [Next]_vars => Given'
    <2> SUFFICES ASSUME Given, [Next]_vars, stage' = "received"
                 PROVE  doc' \in Inputs
      OBVIOUS
    <2>1. CASE UNCHANGED vars
      BY <2>1 DEF vars
    <2>2. CASE Next
      BY <2>2 DEF Next, BeginValidation, ValidateStep, Validate, Raise, BeginEmission, EmitStep, ParentRound,
                  Emit, Done, vars
    <2>3. QED BY <2>1, <2>2
  <1>3. Given => OnlySafeClosuresAreLowered
    <2> SUFFICES ASSUME doc \in Inputs PROVE OnlySafeClosuresAreLowered
      BY DEF OnlySafeClosuresAreLowered
    <2>1. doc.objects \in Seq(Range(doc.objects))
      <3>1. "objects" \in RecordLists
        BY DEF RecordLists
      <3>2. QED BY <3>1, InputsAssumption DEF IsList
    <2>2. QED BY <2>1, LoweredAreTheClosed, Zenon DEF OnlySafeClosuresAreLowered
  <1>4. QED BY <1>1, <1>2, <1>3, PTL DEF Spec

-----------------------------------------------------------------------------
(* Part 3.  Validation: sequences of judgements. *)

\* The sequences of a sequence, one after the other.
InTurn(f, ss, n) == f[1] = ss[1] /\ \A i \in 2..n : f[i] = f[i - 1] \o ss[i]

LEMMA FlattenedInTurn ==
    ASSUME NEW S, NEW n \in Nat, n # 0, NEW ss \in [1..n -> Seq(S)]
    PROVE  \E f \in [1..n -> Seq(S)] : InTurn(f, ss, n) /\ FlattenSeq(ss) = f[n]
  <1>x. PICK X : X = Seq(S)
    OBVIOUS
  <1>s. ss \in [1..n -> X] /\ \A a, b \in X : a \o b \in X
    BY <1>x
  <1> DEFINE Turns(m, f) == f[1] = ss[1] /\ \A i \in 2..m : f[i] = f[i - 1] \o ss[i]
             short == {m \in 1..n : ~\E f \in [1..m -> X] : Turns(m, f)}
  <1>0. short \subseteq Nat
    <2> HIDE DEF Turns
    <2>1. short \subseteq 1..n
      OBVIOUS
    <2> HIDE DEF short
    <2>2. QED BY <2>1
  <1>1. short = {}
    <2> SUFFICES ASSUME short # {} PROVE FALSE
      OBVIOUS
    <2>1. PICK m \in short : \A k \in short : m <= k
      <3> HIDE DEF short
      <3>2. QED BY <1>0, LeastNumber
    <2>2. CASE m = 1
      <3>1. Turns(1, [k \in 1..1 |-> ss[1]]) /\ [k \in 1..1 |-> ss[1]] \in [1..1 -> X]
        <4>1. 1 \in 1..n
          OBVIOUS
        <4>2. QED BY <4>1, <1>s
      <3> HIDE DEF Turns
      <3>2. QED BY <2>2, <3>1
    <2>3. CASE m # 1
      <3>1. m \in 1..n /\ m - 1 \in 1..n /\ m - 1 \notin short
        <4>1. m \in 1..n
          OBVIOUS
        <4> HIDE DEF short
        <4>2. m - 1 \in 1..n /\ ~(m <= m - 1)
          BY <2>3, <4>1
        <4>3. QED BY <4>1, <4>2, <2>1
      <3>2. PICK f \in [1..(m - 1) -> X] : Turns(m - 1, f)
        BY <3>1
      <3> DEFINE g == [k \in 1..m |-> IF k = m THEN f[m - 1] \o ss[m] ELSE f[k]]
      <3> HIDE DEF short
      <3>3. f[m - 1] \o ss[m] \in X
        BY <3>1, <1>s
      <3>4. g \in [1..m -> X]
        BY <3>1, <3>3
      <3>5. Turns(m, g)
        <4>1. g[1] = ss[1]
          BY <3>1, <3>2, <2>3
        <4>2. \A i \in 2..m : g[i] = g[i - 1] \o ss[i]
          <5> SUFFICES ASSUME NEW i \in 2..m PROVE g[i] = g[i - 1] \o ss[i]
            OBVIOUS
          <5>1. i \in 1..m /\ i - 1 \in 1..m /\ i - 1 # m /\ m \in Nat
            BY <3>1
          <5>2. CASE i = m
            BY <5>1, <5>2
          <5>3. CASE i # m
            <6>1. i \in 2..(m - 1)
              BY <3>1, <5>3
            <6>2. QED BY <5>1, <5>3, <6>1, <3>2
          <5>4. QED BY <5>2, <5>3
        <4> HIDE DEF g
        <4>3. QED BY <4>1, <4>2
      <3> HIDE DEF g, Turns
      <3>6. \E h \in [1..m -> X] : Turns(m, h)
        BY <3>4, <3>5
      <3>7. QED BY <3>6, <2>1 DEF short
    <2>4. QED BY <2>2, <2>3
  <1>2. PICK f \in [1..n -> X] : Turns(n, f)
    <2>1. n \in 1..n
      OBVIOUS
    <2> HIDE DEF Turns
    <2>2. QED BY <2>1, <1>1
  <1> HIDE DEF short
  <1> DEFINE flatten == CHOOSE g : g = [i \in 1..Len(ss) |-> IF i = 1 THEN ss[i] ELSE g[i - 1] \o ss[i]]
  <1>3. Len(ss) = n /\ DOMAIN ss = 1..n
    BY <1>x
  <1>4. f = [i \in 1..Len(ss) |-> IF i = 1 THEN ss[i] ELSE f[i - 1] \o ss[i]]
    <2>1. \A i \in 1..n : f[i] = IF i = 1 THEN ss[i] ELSE f[i - 1] \o ss[i]
      <3>1. \A i \in 1..n : i # 1 => i \in 2..n
        OBVIOUS
      <3>2. QED BY <1>2, <3>1
    <2>2. QED BY <1>3, <2>1
  <1>5. flatten = [i \in 1..Len(ss) |-> IF i = 1 THEN ss[i] ELSE flatten[i - 1] \o ss[i]]
    BY <1>4
  <1>6. FlattenSeq(ss) = flatten[n]
    <2>1. FlattenSeq(ss) = flatten[Len(ss)]
      BY <1>3 DEF FlattenSeq
    <2>2. QED BY <2>1, <1>3
  <1> HIDE DEF flatten
  <1>7. flatten[1] = ss[1] /\ \A i \in 2..n : flatten[i] = flatten[i - 1] \o ss[i]
    <2>1. flatten = [i \in 1..n |-> IF i = 1 THEN ss[i] ELSE flatten[i - 1] \o ss[i]]
      BY <1>5, <1>3
    <2>2. \A i \in 1..n : flatten[i] = IF i = 1 THEN ss[i] ELSE flatten[i - 1] \o ss[i]
      BY <2>1
    <2>3. 1 \in 1..n /\ \A i \in 2..n : i \in 1..n /\ i # 1
      OBVIOUS
    <2> HIDE DEF flatten
    <2>4. QED BY <2>2, <2>3
  <1> DEFINE apart == {i \in 1..n : flatten[i] # f[i]}
  <1>8. apart = {}
    <2> SUFFICES ASSUME apart # {} PROVE FALSE
      OBVIOUS
    <2>1. PICK i \in apart : \A k \in apart : i <= k
      <3>1. apart \subseteq Nat
        OBVIOUS
      <3> HIDE DEF apart
      <3>2. QED BY <3>1, LeastNumber
    <2>2. i # 1
      BY <1>2, <1>7
    <2>3. i - 1 \in 1..n /\ i - 1 \notin apart /\ i \in 2..n
      <3>1. i - 1 \in 1..n /\ ~(i <= i - 1) /\ i \in 2..n
        BY <2>2
      <3>2. QED BY <3>1, <2>1
    <2>4. QED BY <2>3, <1>2, <1>7
  <1>9. flatten[n] = f[n]
    <2>1. n \in 1..n
      OBVIOUS
    <2>2. QED BY <1>8, <2>1
  <1>10. QED BY <1>2, <1>6, <1>9, <1>x DEF InTurn

\* What is in the sequences, and no more.
LEMMA Flattened ==
    ASSUME NEW S, NEW n \in Nat, NEW ss \in [1..n -> Seq(S)]
    PROVE  /\ FlattenSeq(ss) \in Seq(S)
           /\ \A x : x \in Range(FlattenSeq(ss)) <=> \E i \in 1..n : x \in Range(ss[i])
  <1>1. CASE n = 0
    <2>1. ss = <<>> /\ Len(ss) = 0
      BY <1>1
    <2>2. FlattenSeq(ss) = <<>>
      BY <2>1 DEF FlattenSeq
    <2>3. QED BY <1>1, <2>2 DEF Range
  <1>2. CASE n # 0
    <2>0. PICK f \in [1..n -> Seq(S)] : InTurn(f, ss, n) /\ FlattenSeq(ss) = f[n]
      BY <1>2, FlattenedInTurn
    <2>1. /\ f[1] = ss[1]
          /\ \A i \in 2..n : f[i] = f[i - 1] \o ss[i]
          /\ FlattenSeq(ss) = f[n]
      BY <2>0 DEF InTurn
    <2> DEFINE Held(m) == \A x : x \in Range(f[m]) <=> \E i \in 1..m : x \in Range(ss[i])
               wrong == {m \in 1..n : ~Held(m)}
    <2>2. wrong = {}
      <3> SUFFICES ASSUME wrong # {} PROVE FALSE
        OBVIOUS
      <3>1. PICK m \in wrong : \A k \in wrong : m <= k
        <4>1. wrong \subseteq Nat
          OBVIOUS
        <4> HIDE DEF wrong
        <4>2. QED BY <4>1, LeastNumber
      <3>2. CASE m = 1
        <4>1. \A x : x \in Range(ss[1]) <=> \E i \in 1..1 : x \in Range(ss[i])
          OBVIOUS
        <4>2. QED BY <3>1, <3>2, <2>1, <4>1
      <3>3. CASE m # 1
        <4>1. m - 1 \in 1..n /\ m - 1 \notin wrong /\ m \in 2..n
          <5>1. m - 1 \in 1..n /\ ~(m <= m - 1) /\ m \in 2..n
            BY <3>3
          <5>2. QED BY <5>1, <3>1
        <4>2. Held(m - 1) /\ f[m] = f[m - 1] \o ss[m]
          BY <4>1, <2>1
        <4>3. Range(f[m]) = Range(f[m - 1]) \cup Range(ss[m])
          <5>1. f[m - 1] \in Seq(S) /\ ss[m] \in Seq(S)
            BY <4>1
          <5>2. QED BY <5>1, <4>2, RangeConcatenation
        <4>4. \A x : x \in Range(f[m]) <=> \E i \in 1..m : x \in Range(ss[i])
          <5>1. 1..m = 1..(m - 1) \cup {m}
            BY <4>1
          <5> HIDE DEF wrong
          <5>2. QED BY <5>1, <4>2, <4>3, Zenon
        <4>5. QED BY <4>4, <3>1
      <3>4. QED BY <3>2, <3>3
    <2>3. Held(n) /\ f[n] \in Seq(S)
      <3>1. n \in 1..n
        BY <1>2
      <3> HIDE DEF Held
      <3>2. QED BY <2>2, <3>1
    <2>4. QED BY <2>1, <2>3
  <1>3. QED BY <1>1, <1>2

-----------------------------------------------------------------------------
(* Adding judgements. *)

CheckOf(j) ==
    LET oid == ObligationId(j.property, j.target) IN
    Check(CheckId(oid, j.status), oid, j.property, j.target, j.status)
ObligationOf(j) == Obligation(ObligationId(j.property, j.target), j.property, j.target, j.span)

IsDocument(d) ==
    d = [files |-> d.files, spans |-> d.spans, sections |-> d.sections, items |-> d.items,
         objects |-> d.objects, obligations |-> d.obligations, checks |-> d.checks,
         obligationIds |-> d.obligationIds, checkIds |-> d.checkIds]

\* A sequence of records with identities of their own, none of them known
\* before and all of them after.
Once(s, before, after) ==
    /\ after = before \cup {s[i].id : i \in DOMAIN s}
    /\ \A i, k \in DOMAIN s : s[i].id = s[k].id => i = k
    /\ \A i \in DOMAIN s : s[i].id \notin before

\* r is d with the obligations and the checks of the judgements J added.
Extended(d, r, J) ==
    /\ IsDocument(r)
    /\ <<r.files, r.spans, r.sections, r.items, r.objects>> = <<d.files, d.spans, d.sections, d.items, d.objects>>
    /\ \E cs \in Seq({CheckOf(j) : j \in J}) : r.checks = d.checks \o cs /\ Once(cs, d.checkIds, r.checkIds)
    /\ \E os \in Seq({ObligationOf(j) : j \in J}) :
          r.obligations = d.obligations \o os /\ Once(os, d.obligationIds, r.obligationIds)
    /\ \A j \in J : CheckOf(j).id \in r.checkIds /\ ObligationOf(j).id \in r.obligationIds

\* One record more, unless its identity is known.
OneMore(S, base, cs, before, ids, c) ==
    \E more \in Seq(S \cup {c}) :
        /\ (IF c.id \in ids THEN base \o cs ELSE Append(base \o cs, c)) = base \o more
        /\ Once(more, before, ids \cup {c.id})

LEMMA OnceMore ==
    ASSUME NEW S, NEW base, IsList(base), NEW cs \in Seq(S), NEW before, NEW ids, Once(cs, before, ids), NEW c
    PROVE  OneMore(S, base, cs, before, ids, c)
  <1>1. cs \in Seq(S \cup {c})
    OBVIOUS
  <1>2. CASE c.id \in ids
    <2>1. ids \cup {c.id} = ids
      BY <1>2
    <2>2. QED BY <1>1, <1>2, <2>1 DEF OneMore
  <1>3. CASE c.id \notin ids
    <2> DEFINE more == Append(cs, c)
    <2>1. more \in Seq(S \cup {c}) /\ Append(base \o cs, c) = base \o more
      <3>1. PICK B : base \in Seq(B)
        BY DEF IsList
      <3>2. more \in Seq(S \cup {c}) /\ base \in Seq(B \cup S \cup {c}) /\ cs \in Seq(B \cup S \cup {c})
        BY <3>1
      <3>3. QED BY <3>2
    <2>2. DOMAIN more = DOMAIN cs \cup {Len(cs) + 1} /\ more[Len(cs) + 1] = c
          /\ (\A i \in DOMAIN cs : more[i] = cs[i]) /\ Len(cs) + 1 \notin DOMAIN cs
      OBVIOUS
    <2> HIDE DEF more
    <2>3. Once(more, before, ids \cup {c.id})
      <3>1. ids = before \cup {cs[i].id : i \in DOMAIN cs}
        BY DEF Once
      <3>2. {more[i].id : i \in DOMAIN more} = {cs[i].id : i \in DOMAIN cs} \cup {c.id}
        BY <2>2
      <3>3. \A i \in DOMAIN cs : cs[i].id # c.id
        BY <1>3, <3>1
      <3>4. \A i, k \in DOMAIN more : more[i].id = more[k].id => i = k
        BY <2>2, <3>3 DEF Once
      <3>5. \A i \in DOMAIN more : more[i].id \notin before
        BY <2>2, <1>3, <3>1 DEF Once
      <3>6. QED BY <3>1, <3>2, <3>4, <3>5 DEF Once
    <2>4. QED BY <1>3, <2>1, <2>3 DEF OneMore
  <1>4. QED BY <1>2, <1>3

\* One judgement more.
LEMMA JudgementExtends ==
    ASSUME NEW d, IsDocument(d), IsList(d.checks), IsList(d.obligations),
           NEW e, NEW J, Extended(d, e, J), NEW j
    PROVE  Extended(d, AddJudgement(e, j), J \cup {j})
  <1> DEFINE r == AddJudgement(e, j)
             o == ObligationOf(j)
             c == CheckOf(j)
  <1>1. PICK cs \in Seq({CheckOf(x) : x \in J}) : e.checks = d.checks \o cs /\ Once(cs, d.checkIds, e.checkIds)
    BY DEF Extended
  <1>2. PICK os \in Seq({ObligationOf(x) : x \in J}) :
            e.obligations = d.obligations \o os /\ Once(os, d.obligationIds, e.obligationIds)
    BY DEF Extended
  <1> DEFINE m == IF o.id \in e.obligationIds THEN e
                  ELSE [e EXCEPT !.obligationIds = @ \cup {o.id}, !.obligations = Append(@, o)]
  <1>3. r = IF c.id \in m.checkIds THEN m
            ELSE [m EXCEPT !.checkIds = @ \cup {c.id}, !.checks = Append(@, c)]
    BY DEF AddJudgement, AddValidationObligation, AddCheck, ObligationOf, CheckOf, Obligation, Check
  <1>4. /\ IsDocument(m)
        /\ <<m.files, m.spans, m.sections, m.items, m.objects>> = <<e.files, e.spans, e.sections, e.items, e.objects>>
        /\ m.checks = e.checks /\ m.checkIds = e.checkIds
        /\ m.obligationIds = e.obligationIds \cup {o.id}
        /\ m.obligations = IF o.id \in e.obligationIds THEN e.obligations ELSE Append(e.obligations, o)
    <2>1. IsDocument(e)
      BY DEF Extended
    <2> HIDE DEF o
    <2>2. QED BY <2>1 DEF IsDocument
  <1> HIDE DEF m
  <1>5. /\ IsDocument(r)
        /\ <<r.files, r.spans, r.sections, r.items, r.objects>> = <<e.files, e.spans, e.sections, e.items, e.objects>>
        /\ r.obligations = m.obligations /\ r.obligationIds = m.obligationIds
        /\ r.checkIds = e.checkIds \cup {c.id}
        /\ r.checks = IF c.id \in e.checkIds THEN e.checks ELSE Append(e.checks, c)
    <2> HIDE DEF c, r
    <2>2. QED BY <1>3, <1>4 DEF IsDocument
  <1> HIDE DEF r
  <1>6. \E more \in Seq({CheckOf(x) : x \in J} \cup {c}) :
            r.checks = d.checks \o more /\ Once(more, d.checkIds, r.checkIds)
    <2> HIDE DEF c
    <2>1. PICK S : S = {CheckOf(x) : x \in J}
      OBVIOUS
    <2>2. OneMore(S, d.checks, cs, d.checkIds, e.checkIds, c)
      <3>1. cs \in Seq(S) /\ IsList(d.checks) /\ Once(cs, d.checkIds, e.checkIds)
        BY <1>1, <2>1
      <3>2. QED BY <3>1, OnceMore
    <2>3. QED BY <2>1, <2>2, <1>1, <1>5 DEF OneMore
  <1>7. \E more \in Seq({ObligationOf(x) : x \in J} \cup {o}) :
            r.obligations = d.obligations \o more /\ Once(more, d.obligationIds, r.obligationIds)
    <2> HIDE DEF o
    <2>1. PICK S : S = {ObligationOf(x) : x \in J}
      OBVIOUS
    <2>2. OneMore(S, d.obligations, os, d.obligationIds, e.obligationIds, o)
      <3>1. os \in Seq(S) /\ IsList(d.obligations) /\ Once(os, d.obligationIds, e.obligationIds)
        BY <1>2, <2>1
      <3>2. QED BY <3>1, OnceMore
    <2>3. QED BY <2>1, <2>2, <1>2, <1>4, <1>5 DEF OneMore
  <1>8. {CheckOf(x) : x \in J \cup {j}} = {CheckOf(x) : x \in J} \cup {c}
        /\ {ObligationOf(x) : x \in J \cup {j}} = {ObligationOf(x) : x \in J} \cup {o}
    OBVIOUS
  <1>9. \A x \in J \cup {j} : CheckOf(x).id \in r.checkIds /\ ObligationOf(x).id \in r.obligationIds
    BY <1>4, <1>5 DEF Extended
  <1>10. <<r.files, r.spans, r.sections, r.items, r.objects>> = <<d.files, d.spans, d.sections, d.items, d.objects>>
    BY <1>5 DEF Extended
  <1> HIDE DEF c, o
  <1>11. QED BY <1>5, <1>6, <1>7, <1>8, <1>9, <1>10 DEF Extended, r

\* No judgement yet.
LEMMA NothingExtends ==
    ASSUME NEW d, IsDocument(d), IsList(d.checks), IsList(d.obligations)
    PROVE  Extended(d, d, {})
  <1>1. ASSUME NEW s, IsList(s)
        PROVE  s \o <<>> = s
    BY <1>1 DEF IsList
  <1>2. \A ids : Once(<<>>, ids, ids)
    BY DEF Once
  <1>3. <<>> \in Seq({CheckOf(j) : j \in {}}) /\ <<>> \in Seq({ObligationOf(j) : j \in {}})
    OBVIOUS
  <1>4. QED BY <1>1, <1>2, <1>3 DEF Extended

\* The judgements of a sequence are added one by one.
AddedInTurn(f, d, js, n) == f[0] = d /\ \A k \in 1..n : f[k] = AddJudgement(f[k - 1], js[k])

LEMMA JudgementsInTurn ==
    ASSUME NEW d, NEW js, NEW n \in Nat, Len(js) = n
    PROVE  \E f : AddedInTurn(f, d, js, n) /\ AddJudgements(d, js) = f[n]
  <1> DEFINE Made(f, m) == f = [k \in 0..m |-> f[k]] /\ AddedInTurn(f, d, js, m)
             short == {m \in 0..n : ~\E f : Made(f, m)}
  <1>1. short = {}
    <2> SUFFICES ASSUME short # {} PROVE FALSE
      OBVIOUS
    <2>1. PICK m \in short : \A k \in short : m <= k
      <3>1. short \subseteq Nat
        <4>1. short \subseteq 0..n
          OBVIOUS
        <4> HIDE DEF short
        <4>2. QED BY <4>1
      <3> HIDE DEF short
      <3>2. QED BY <3>1, LeastNumber
    <2>m. m \in 0..n
      OBVIOUS
    <2>2. CASE m = 0
      <3> DEFINE g == [k \in 0..0 |-> d]
      <3>1. Made(g, 0)
        BY DEF AddedInTurn
      <3> HIDE DEF g, Made
      <3>2. \E f : Made(f, m)
        BY <2>2, <3>1
      <3>3. QED BY <3>2
    <2>3. CASE m # 0
      <3>1. m - 1 \in 0..n /\ m - 1 \notin short
        <4> HIDE DEF short
        <4>1. m - 1 \in 0..n /\ ~(m <= m - 1)
          BY <2>3, <2>m
        <4>2. QED BY <4>1, <2>1
      <3>2. PICK f : Made(f, m - 1)
        BY <3>1
      <3> DEFINE g == [k \in 0..m |-> IF k = m THEN AddJudgement(f[m - 1], js[m]) ELSE f[k]]
      <3> HIDE DEF short
      <3>3. g[0] = d
        BY <3>2, <2>3, <2>m DEF AddedInTurn
      <3>4. ASSUME NEW k \in 1..m
            PROVE  g[k] = AddJudgement(g[k - 1], js[k])
        <4>1. k \in 0..m /\ k - 1 \in 0..m /\ k - 1 # m
          BY <2>m
        <4>2. CASE k = m
          BY <4>1, <4>2
        <4>3. CASE k # m
          <5>1. k \in 1..(m - 1)
            BY <2>m, <4>3
          <5>2. QED BY <4>1, <4>3, <5>1, <3>2 DEF AddedInTurn
        <4>4. QED BY <4>2, <4>3
      <3>5. g = [k \in 0..m |-> g[k]]
        OBVIOUS
      <3> HIDE DEF g
      <3>6. Made(g, m)
        BY <3>3, <3>4, <3>5 DEF AddedInTurn
      <3> HIDE DEF Made
      <3>7. QED BY <3>6, <2>1 DEF short
    <2>4. QED BY <2>2, <2>3
  <1>2. PICK f : Made(f, n)
    <2>1. n \in 0..n
      OBVIOUS
    <2> HIDE DEF Made
    <2>2. QED BY <1>1, <2>1
  <1> HIDE DEF short
  <1> DEFINE after == CHOOSE g : g = [k \in 0..Len(js) |->
                          IF k = 0 THEN d ELSE AddJudgement(g[k - 1], js[k])]
  <1>3. f = [k \in 0..Len(js) |-> IF k = 0 THEN d ELSE AddJudgement(f[k - 1], js[k])]
    <2>1. \A k \in 0..n : f[k] = IF k = 0 THEN d ELSE AddJudgement(f[k - 1], js[k])
      <3>1. \A k \in 0..n : k # 0 => k \in 1..n
        OBVIOUS
      <3>2. QED BY <1>2, <3>1 DEF AddedInTurn
    <2>2. QED BY <1>2, <2>1
  <1>4. after = [k \in 0..Len(js) |-> IF k = 0 THEN d ELSE AddJudgement(after[k - 1], js[k])]
    BY <1>3
  <1>5. AddJudgements(d, js) = after[n]
    <2>1. AddJudgements(d, js) = after[Len(js)]
      BY DEF AddJudgements
    <2>2. QED BY <2>1
  <1> HIDE DEF after
  <1>6. \A k \in 0..n : after[k] = IF k = 0 THEN d ELSE AddJudgement(after[k - 1], js[k])
    <2>1. after = [k \in 0..n |-> IF k = 0 THEN d ELSE AddJudgement(after[k - 1], js[k])]
      BY <1>4
    <2>2. QED BY <2>1
  <1>7. AddedInTurn(after, d, js, n)
    <2>1. 0 \in 0..n /\ \A k \in 1..n : k \in 0..n /\ k # 0
      OBVIOUS
    <2>2. QED BY <1>6, <2>1 DEF AddedInTurn
  <1>8. QED BY <1>5, <1>7

\* What the whole sequence adds.
LEMMA JudgementsExtend ==
    ASSUME NEW d, IsDocument(d), IsList(d.checks), IsList(d.obligations), NEW S, NEW js \in Seq(S)
    PROVE  Extended(d, AddJudgements(d, js), Range(js))
  <1> DEFINE n == Len(js)
  <1>1. n \in Nat /\ DOMAIN js = 1..n
    OBVIOUS
  <1>2. PICK f : AddedInTurn(f, d, js, n) /\ AddJudgements(d, js) = f[n]
    BY <1>1, JudgementsInTurn
  <1> HIDE DEF n
  <1> DEFINE Holds(k) == Extended(d, f[k], {js[i] : i \in 1..k})
             wrong == {k \in 0..n : ~Holds(k)}
  <1>3. Holds(0)
    <2>1. {js[i] : i \in 1..0} = {}
      OBVIOUS
    <2>2. QED BY <2>1, <1>2, NothingExtends DEF AddedInTurn
  <1>4. ASSUME NEW k \in 1..n, Holds(k - 1)
        PROVE  Holds(k)
    <2>1. {js[i] : i \in 1..k} = {js[i] : i \in 1..(k - 1)} \cup {js[k]}
      <3>1. 1..k = 1..(k - 1) \cup {k}
        BY <1>1
      <3>2. QED BY <3>1
    <2>2. f[k] = AddJudgement(f[k - 1], js[k])
      BY <1>2 DEF AddedInTurn
    <2>3. QED BY <1>4, <2>1, <2>2, JudgementExtends
  <1>5. wrong = {}
    <2> SUFFICES ASSUME wrong # {} PROVE FALSE
      OBVIOUS
    <2> HIDE DEF Holds
    <2>1. PICK k \in wrong : \A i \in wrong : k <= i
      <3>1. wrong \subseteq Nat
        <4>1. wrong \subseteq 0..n
          OBVIOUS
        <4> HIDE DEF wrong
        <4>2. QED BY <4>1, <1>1
      <3> HIDE DEF wrong
      <3>2. QED BY <3>1, LeastNumber
    <2>2. k # 0
      BY <1>3
    <2>3. k \in 1..n /\ k - 1 \in 0..n /\ k - 1 \notin wrong
      <3>1. k \in 0..n
        OBVIOUS
      <3> HIDE DEF wrong
      <3>2. k \in 1..n /\ k - 1 \in 0..n /\ ~(k <= k - 1)
        BY <3>1, <2>2, <1>1
      <3>3. QED BY <3>2, <2>1
    <2>4. QED BY <2>3, <1>4
  <1>6. Holds(n)
    <2>1. n \in 0..n
      BY <1>1
    <2> HIDE DEF Holds
    <2>2. QED BY <2>1, <1>5
  <1>7. Range(js) = {js[i] : i \in 1..n}
    BY <1>1 DEF Range
  <1>8. QED BY <1>2, <1>6, <1>7

-----------------------------------------------------------------------------
(* The judgements of a list. *)

LEMMA SequenceIsList ==
    ASSUME NEW S, NEW s \in Seq(S)
    PROVE  IsList(s)
  <1>1. Len(s) \in Nat /\ DOMAIN s = 1..Len(s) /\ s = [i \in 1..Len(s) |-> s[i]]
    OBVIOUS
  <1>2. \A i \in 1..Len(s) : s[i] \in Range(s)
    BY <1>1 DEF Range
  <1>3. s \in [1..Len(s) -> Range(s)]
    BY <1>1, <1>2
  <1>4. QED BY <1>1, <1>3 DEF IsList

\* A list and what is in it.
Told(s, S) == IsList(s) /\ Range(s) = S
Under(condition, S) == IF condition THEN S ELSE {}

LEMMA Joined ==
    ASSUME NEW s, NEW S, Told(s, S), NEW t, NEW U, Told(t, U)
    PROVE  Told(s \o t, S \cup U)
  <1>1. s \in Seq(S \cup U) /\ t \in Seq(S \cup U)
    BY DEF Told, IsList
  <1>2. Range(s \o t) = S \cup U
    BY <1>1, RangeConcatenation DEF Told
  <1>3. QED BY <1>1, <1>2 DEF Told, IsList

LEMMA Conditional ==
    ASSUME NEW s, NEW S, Told(s, S), NEW condition
    PROVE  Told(When(condition, s), Under(condition, S))
  <1>1. IsList(<<>>) /\ Range(<<>>) = {}
    BY DEF IsList, Range
  <1>2. QED BY <1>1 DEF When, Told, Under

LEMMA Continued ==
    ASSUME NEW s, NEW S, Told(s, S), NEW t, NEW U, Told(t, U), NEW condition
    PROVE  Told(s \o When(condition, t), S \cup Under(condition, U))
  BY Conditional, Joined

LEMMA Written ==
    ASSUME NEW a, NEW b, NEW c, NEW d, NEW e, NEW f, NEW g
    PROVE  /\ Told(<<a>>, {a})
           /\ Told(<<a, b>>, {a, b})
           /\ Told(<<a, b, c>>, {a, b, c})
           /\ Told(<<a, b, c, d>>, {a, b, c, d})
           /\ Told(<<a, b, c, d, e>>, {a, b, c, d, e})
           /\ Told(<<a, b, c, d, e, f>>, {a, b, c, d, e, f})
           /\ Told(<<a, b, c, d, e, f, g>>, {a, b, c, d, e, f, g})
  <1>1. Range(<<a>>) = {a}
    BY DEF Range
  <1>2. Range(<<a, b>>) = {a, b}
    BY DEF Range
  <1>3. Range(<<a, b, c>>) = {a, b, c}
    BY DEF Range
  <1>4. Range(<<a, b, c, d>>) = {a, b, c, d}
    BY DEF Range
  <1>5. Range(<<a, b, c, d, e>>) = {a, b, c, d, e}
    BY DEF Range
  <1>6. Range(<<a, b, c, d, e, f>>) = {a, b, c, d, e, f}
    BY DEF Range
  <1>7. Range(<<a, b, c, d, e, f, g>>) = {a, b, c, d, e, f, g}
    BY DEF Range
  <1>8. QED BY <1>1, <1>2, <1>3, <1>4, <1>5, <1>6, <1>7 DEF IsList, Told

\* The lists of a list.
AllOf(ss) == UNION {Range(ss[i]) : i \in DOMAIN ss}

LEMMA FlattenedLists ==
    ASSUME NEW n \in Nat, NEW ss, ss = [i \in 1..n |-> ss[i]], \A i \in 1..n : IsList(ss[i])
    PROVE  Told(FlattenSeq(ss), AllOf(ss))
  <1> DEFINE S == UNION {Range(ss[i]) : i \in 1..n}
  <1>1. \A i \in 1..n : ss[i] \in Seq(S)
    <2> SUFFICES ASSUME NEW i \in 1..n PROVE ss[i] \in Seq(S)
      OBVIOUS
    <2>1. Range(ss[i]) \subseteq S
      OBVIOUS
    <2> HIDE DEF S
    <2>2. QED BY <2>1 DEF IsList
  <1>2. S = AllOf(ss)
    BY DEF AllOf
  <1> HIDE DEF S
  <1>3. ss \in [1..n -> Seq(S)]
    BY <1>1
  <1>4. FlattenSeq(ss) \in Seq(S) /\ \A x : x \in Range(FlattenSeq(ss)) <=> \E i \in 1..n : x \in Range(ss[i])
    BY <1>3, Flattened
  <1>5. IsList(FlattenSeq(ss))
    BY <1>4, SequenceIsList
  <1>6. Range(FlattenSeq(ss)) = AllOf(ss)
    <2>1. DOMAIN ss = 1..n
      OBVIOUS
    <2>2. \A x : x \in AllOf(ss) <=> \E i \in 1..n : x \in Range(ss[i])
      BY <2>1 DEF AllOf
    <2>3. QED BY <2>2, <1>4
  <1>7. QED BY <1>5, <1>6 DEF Told

-----------------------------------------------------------------------------
(* Which group of judgements a property belongs to, in the order of validation. *)

Group(property) ==
    IF property \in {"plain-file-has-valid-record-type", "plain-file-has-safe-fields",
                     "plain-file-digest-matches-content"} THEN 1
    ELSE IF property \in {"source-span-has-valid-record-type", "source-span-has-safe-file-identity",
                          "source-span-has-safe-bounds", "source-span-within-file-bounds",
                          "source-span-lines-match-byte-offsets"} THEN 2
    ELSE IF property \in {"plain-file-identity-is-unique", "plain-file-has-safe-identity"} THEN 3
    ELSE IF property \in {"source-span-identity-is-unique", "source-span-has-safe-identity"} THEN 4
    ELSE IF property \in {"section-has-valid-record-type", "section-has-safe-source-span",
                          "section-identity-is-unique", "section-has-safe-identity", "section-has-safe-fields",
                          "section-has-safe-file-identity", "section-file-is-indexed",
                          "section-has-source-span", "section-span-file-matches-section-file"} THEN 5
    ELSE IF property \in {"item-has-valid-record-type", "item-has-safe-source-span", "item-identity-is-unique",
                          "item-has-safe-identity", "item-has-safe-fields", "item-has-safe-link-identities",
                          "item-file-is-indexed", "item-has-section", "item-file-matches-section-file",
                          "item-has-source-span", "item-span-file-matches-item-file", "item-parent-is-indexed",
                          "item-parent-is-not-self", "item-parent-context-matches"} THEN 6
    ELSE IF property \in {"object-has-valid-record-type", "object-identity-is-unique",
                          "object-has-safe-identity", "object-has-known-role",
                          "object-has-known-semantic-level", "object-has-valid-facts-container",
                          "object-has-safe-source-span-id", "object-has-source-or-generated-provenance"} THEN 7
    ELSE IF property \in {"validation-obligation-has-valid-record-type",
                          "validation-obligation-identity-is-unique",
                          "validation-obligation-has-safe-identity"} THEN 8
    ELSE IF property \in {"check-has-valid-record-type", "check-identity-is-unique",
                          "check-has-safe-identity"} THEN 9
    ELSE IF property \in {"object-supported-by-petta-reified-profile"} THEN 10
    ELSE IF property \in {"fact-has-supported-arity", "fact-arguments-are-backend-safe",
                          "fact-subject-matches-object", "fact-references-known-targets"} THEN 11
    ELSE IF property \in {"question-has-review-text", "question-blocks-validation-obligation"} THEN 12
    ELSE IF property \in {"validation-obligation-has-safe-property",
                          "validation-obligation-has-reviewable-rationale",
                          "validation-obligation-has-safe-target",
                          "validation-obligation-has-safe-source-span-id", "obligation-has-source-provenance",
                          "obligation-target-is-declared"} THEN 13
    ELSE IF property \in {"check-has-safe-property", "check-has-safe-target", "check-status-is-known",
                          "check-has-evidence", "check-has-safe-obligation-id", "check-links-known-obligation",
                          "check-target-matches-obligation"} THEN 14
    ELSE IF property \in {"edge-has-item-level-source-provenance"} THEN 15
    ELSE IF property \in {"semantic-objects-present"} THEN 16
    ELSE 0

\* A judgement, which has a status a check may have.
IsJudgement(j) == j = Judgement(j.property, j.target, j.span, j.status) /\ j.status # "untyped"

\* Judgements of the groups from first to last, of targets that are lists.
Judged(J, first, last) ==
    \A j \in J : IsJudgement(j) /\ IsList(j.target) /\ Group(j.property) \in first..last

OneEach(J) ==
    \A j, k \in J : j.property = k.property /\ j.target = k.target => j.status = k.status

\* The judgements s of a record r belong to one group: one of them at most is of
\* the record's type, told of the target t, and no two are of one property.
JudgesRecord(s, group, r, type, t) ==
    /\ IsList(s)
    /\ \A j \in Range(s) :
          /\ IsJudgement(j)
          /\ Group(j.property) = group
          /\ IF j.property = type THEN j.target = t ELSE r.typed /\ j.target = r.id
    /\ \A j, k \in Range(s) : j.property = k.property => j = k

HaveIds(records) == \A i \in DOMAIN records : records[i].typed => IsList(records[i].id)

\* r is d with judgements J added, all of them of the groups from a to b; no two
\* of them tell of one thing when the document is proper.
Adds(d, r, J, a, b, proper) ==
    /\ Extended(d, r, J)
    /\ Judged(J, a, b)
    /\ proper => OneEach(J)

Distinct(targets) == \A i, k \in DOMAIN targets : targets[i] = targets[k] => i = k

LEMMA RecordsJudged ==
    ASSUME NEW group \in Nat, NEW records, HaveIds(records),
           NEW type, NEW targets, DOMAIN targets = DOMAIN records,
           NEW ss, DOMAIN ss = DOMAIN records,
           \A i \in DOMAIN records : JudgesRecord(ss[i], group, records[i], type, targets[i]) /\ IsList(targets[i])
    PROVE  /\ Judged(AllOf(ss), group, group)
           /\ CarriedOnce(records) /\ Distinct(targets) => OneEach(AllOf(ss))
  <1>1. ASSUME NEW j \in AllOf(ss)
        PROVE  IsJudgement(j) /\ IsList(j.target) /\ Group(j.property) = group
    <2>1. PICK i \in DOMAIN records : j \in Range(ss[i])
      BY DEF AllOf
    <2>2. QED BY <2>1 DEF JudgesRecord, HaveIds
  <1>2. ASSUME CarriedOnce(records), Distinct(targets),
               NEW j \in AllOf(ss), NEW k \in AllOf(ss), j.property = k.property, j.target = k.target
        PROVE  j.status = k.status
    <2>1. PICK a \in DOMAIN records, b \in DOMAIN records : j \in Range(ss[a]) /\ k \in Range(ss[b])
      BY DEF AllOf
    <2>2. a = b
      <3>1. CASE j.property = type
        BY <3>1, <2>1, <1>2 DEF JudgesRecord, Distinct
      <3>2. CASE j.property # type
        <4>1. records[a].typed /\ records[b].typed /\ records[a].id = records[b].id
          BY <3>2, <2>1, <1>2 DEF JudgesRecord
        <4>2. QED BY <4>1, <1>2 DEF CarriedOnce
      <3>3. QED BY <3>1, <3>2
    <2>3. QED BY <2>1, <2>2, <1>2 DEF JudgesRecord
  <1>3. QED BY <1>1, <1>2 DEF Judged, OneEach

\* The sequence js holds the judgements J.
Tells(js, J, a, b, proper) ==
    /\ Told(js, J)
    /\ Judged(J, a, b)
    /\ proper => OneEach(J)

LEMMA RecordsTold ==
    ASSUME NEW group \in Nat, NEW records, IsList(records), HaveIds(records),
           NEW type, NEW targets, DOMAIN targets = DOMAIN records,
           NEW ss, ss = [i \in DOMAIN records |-> ss[i]],
           \A i \in DOMAIN records : JudgesRecord(ss[i], group, records[i], type, targets[i]) /\ IsList(targets[i])
    PROVE  Tells(FlattenSeq(ss), AllOf(ss), group, group, CarriedOnce(records) /\ Distinct(targets))
  <1>1. PICK n \in Nat : DOMAIN records = 1..n
    BY DEF IsList
  <1>2. ss = [i \in 1..n |-> ss[i]] /\ \A i \in 1..n : IsList(ss[i])
    BY <1>1 DEF JudgesRecord
  <1>3. Told(FlattenSeq(ss), AllOf(ss))
    BY <1>2, FlattenedLists
  <1>4. DOMAIN ss = DOMAIN records
    BY <1>1, <1>2
  <1>5. QED BY <1>3, <1>4, RecordsJudged DEF Tells

\* Judgements of different groups never tell of the same thing.
LEMMA GroupsApart ==
    ASSUME NEW J, NEW K, NEW a \in Nat, NEW b \in Nat, NEW c \in Nat, NEW d \in Nat, a <= b, b < c, c <= d,
           Judged(J, a, b), Judged(K, c, d)
    PROVE  /\ Judged(J \cup K, a, d)
           /\ OneEach(J) /\ OneEach(K) => OneEach(J \cup K)
  <1>1. \A j \in J, k \in K : j.property # k.property
    BY DEF Judged
  <1>2. QED BY <1>1 DEF Judged, OneEach

\* No two records of a list share the target of the judgement of their type.
Targets(records, malformed) == [i \in DOMAIN records |-> RecordTarget(records[i], malformed, i)]
NoneMadeUp(records) == \A i \in DOMAIN records : records[i].typed => ~IsMadeUp(records[i].id)

LEMMA TargetsApart ==
    ASSUME NEW records, IsList(records), HaveIds(records), NEW malformed, IsMadeUp(<<malformed>>)
    PROVE  /\ \A i \in DOMAIN records : IsList(RecordTarget(records[i], malformed, i))
           /\ CarriedOnce(records) /\ NoneMadeUp(records) => Distinct(Targets(records, malformed))
  <1>0. PICK n \in Nat : DOMAIN records = 1..n
    BY DEF IsList
  <1>1. ASSUME NEW i \in 1..n
        PROVE  Place(i) \in Seq({"|"}) /\ Len(Place(i)) = i
    BY DEF Place
  <1>2. ASSUME NEW i \in 1..n
        PROVE  LET t == <<malformed>> \o Place(i) IN
               t \in Seq({malformed, "|"}) /\ Len(t) = i + 1 /\ t # <<>> /\ IsMadeUp(t)
    <2>1. <<malformed>> \o Place(i) \in Seq({malformed, "|"}) /\ Len(<<malformed>> \o Place(i)) = i + 1
          /\ (<<malformed>> \o Place(i))[1] = malformed
      <3>1. Place(i) \in Seq({malformed, "|"}) /\ <<malformed>> \in Seq({malformed, "|"})
        BY <1>1
      <3>2. QED BY <3>1, <1>1
    <2>2. QED BY <2>1 DEF IsMadeUp
  <1>3. \A i \in 1..n : IsList(<<malformed>> \o Place(i))
    BY <1>2, SequenceIsList
  <1>4. ASSUME CarriedOnce(records), NoneMadeUp(records),
               NEW i \in 1..n, NEW k \in 1..n,
               RecordTarget(records[i], malformed, i) = RecordTarget(records[k], malformed, k)
        PROVE  i = k
    <2>1. CASE records[i].typed /\ Safe(records[i].id) /\ records[k].typed /\ Safe(records[k].id)
      BY <2>1, <1>0, <1>4 DEF RecordTarget, CarriedOnce
    <2>2. CASE records[i].typed /\ Safe(records[i].id) /\ ~(records[k].typed /\ Safe(records[k].id))
      BY <2>2, <1>0, <1>2, <1>4 DEF RecordTarget, NoneMadeUp
    <2>3. CASE ~(records[i].typed /\ Safe(records[i].id)) /\ records[k].typed /\ Safe(records[k].id)
      BY <2>3, <1>0, <1>2, <1>4 DEF RecordTarget, NoneMadeUp
    <2>4. CASE ~(records[i].typed /\ Safe(records[i].id)) /\ ~(records[k].typed /\ Safe(records[k].id))
      <3>1. <<malformed>> \o Place(i) = <<malformed>> \o Place(k)
        BY <2>4, <1>4 DEF RecordTarget
      <3>2. i + 1 = k + 1
        BY <3>1, <1>2
      <3>3. QED BY <3>2
    <2>5. QED BY <2>1, <2>2, <2>3, <2>4
  <1>5. QED BY <1>0, <1>3, <1>4 DEF RecordTarget, HaveIds, Targets, Distinct

\* The judgements of a list, one of which may be of its records' type.
Proper(records) == CarriedOnce(records) /\ NoneMadeUp(records)

LEMMA TypesTold ==
    ASSUME NEW group \in Nat, NEW records, IsList(records), HaveIds(records),
           NEW type, NEW malformed, IsMadeUp(<<malformed>>),
           NEW ss, ss = [i \in DOMAIN records |-> ss[i]],
           \A i \in DOMAIN records :
               JudgesRecord(ss[i], group, records[i], type, RecordTarget(records[i], malformed, i))
    PROVE  Tells(FlattenSeq(ss), AllOf(ss), group, group, Proper(records))
  <1> DEFINE targets == Targets(records, malformed)
  <1>1. DOMAIN targets = DOMAIN records
        /\ \A i \in DOMAIN records : targets[i] = RecordTarget(records[i], malformed, i)
    BY DEF Targets
  <1>2. (\A i \in DOMAIN records : IsList(targets[i])) /\ (Proper(records) => Distinct(targets))
    BY <1>1, TargetsApart DEF Proper
  <1> HIDE DEF targets
  <1>3. Tells(FlattenSeq(ss), AllOf(ss), group, group, CarriedOnce(records) /\ Distinct(targets))
    <2>1. \A i \in DOMAIN records : JudgesRecord(ss[i], group, records[i], type, targets[i]) /\ IsList(targets[i])
      BY <1>1, <1>2
    <2>2. QED BY <1>1, <2>1, RecordsTold
  <1>4. QED BY <1>2, <1>3 DEF Tells, Proper

LEMMA OthersTold ==
    ASSUME NEW group \in Nat, NEW records, IsList(records), HaveIds(records),
           NEW ss, ss = [i \in DOMAIN records |-> ss[i]],
           \A i \in DOMAIN records : JudgesRecord(ss[i], group, records[i], "none", Place(i))
    PROVE  Tells(FlattenSeq(ss), AllOf(ss), group, group, CarriedOnce(records))
  <1> DEFINE targets == [i \in DOMAIN records |-> Place(i)]
  <1>1. DOMAIN targets = DOMAIN records /\ \A i \in DOMAIN records : targets[i] = Place(i)
    OBVIOUS
  <1>2. \A i \in DOMAIN records : i \in Nat /\ IsList(Place(i)) /\ Len(Place(i)) = i
    <2> SUFFICES ASSUME NEW i \in DOMAIN records PROVE i \in Nat /\ IsList(Place(i)) /\ Len(Place(i)) = i
      OBVIOUS
    <2>1. i \in Nat
      BY DEF IsList
    <2>2. Place(i) \in Seq({"|"}) /\ Len(Place(i)) = i
      BY <2>1 DEF Place
    <2>3. QED BY <2>1, <2>2, SequenceIsList
  <1> HIDE DEF targets
  <1>3. Distinct(targets)
    BY <1>1, <1>2 DEF Distinct
  <1>4. Tells(FlattenSeq(ss), AllOf(ss), group, group, CarriedOnce(records) /\ Distinct(targets))
    <2>1. \A i \in DOMAIN records : JudgesRecord(ss[i], group, records[i], "none", targets[i]) /\ IsList(targets[i])
      BY <1>1, <1>2
    <2>2. QED BY <1>1, <2>1, RecordsTold
  <1>5. QED BY <1>3, <1>4 DEF Tells

\* Two such sequences, one after the other.
LEMMA BothTold ==
    ASSUME NEW js, NEW J, NEW a \in Nat, NEW b \in Nat, NEW p, Tells(js, J, a, b, p),
           NEW ks, NEW K, NEW c \in Nat, NEW d \in Nat, NEW q, Tells(ks, K, c, d, q), a <= b, b < c, c <= d,
           NEW proper, proper => p /\ q
    PROVE  Tells(js \o ks, J \cup K, a, d, proper)
  BY Joined, GroupsApart DEF Tells

\* Lists of records that may be judged, and lists that may be added to.
Fit(d) ==
    /\ IsDocument(d)
    /\ \A list \in RecordLists : IsList(d[list])
    /\ \A list \in {"files", "spans", "sections", "items", "objects"} : HaveIds(d[list])

LEMMA ToldAreAdded ==
    ASSUME NEW d, Fit(d), NEW js, NEW J, NEW a, NEW b, NEW proper, Tells(js, J, a, b, proper)
    PROVE  Adds(d, AddJudgements(d, js), J, a, b, proper)
  <1>1. js \in Seq(J) /\ Range(js) = J
    BY DEF Tells, Told, IsList
  <1>2. IsDocument(d) /\ IsList(d.checks) /\ IsList(d.obligations)
    BY DEF Fit, RecordLists
  <1>3. Extended(d, AddJudgements(d, js), J)
    BY <1>1, <1>2, JudgementsExtend
  <1>4. QED BY <1>3 DEF Adds, Tells

\* A check cites a known obligation, and the span its judgements carry then.
Linked(d, c) == Safe(c.obligation) /\ c.obligation \in SafeIds(d.obligations)
CitedSpan(d, c) == IF Linked(d, c) THEN ByLastId(d.obligations, c.obligation).span ELSE None

LEMMA FileTold ==
    ASSUME NEW r, NEW i
    PROVE  Told(FileJudgements(r, i),
           {Test("plain-file-has-valid-record-type", RecordTarget(r, "malformed-plain-file", i), None, r.typed)}
           \cup Under(r.typed,
             {Test("plain-file-has-safe-fields", r.id, None, SafeFileFields(r))})
           \cup Under(r.typed /\ SafeFileFields(r),
             {Test("plain-file-digest-matches-content", r.id, None, r.digest = "matches")}))
  <1> DEFINE a == Test("plain-file-has-valid-record-type", RecordTarget(r, "malformed-plain-file", i), None, r.typed)
             b == Test("plain-file-has-safe-fields", r.id, None, SafeFileFields(r))
             c == Test("plain-file-digest-matches-content", r.id, None, r.digest = "matches")
  <1>1. FileJudgements(r, i) = <<a>>
          \o When(r.typed, <<b>>)
          \o When(r.typed /\ SafeFileFields(r), <<c>>)
    BY DEF FileJudgements
  <1> HIDE DEF a, b, c
  <1>2. /\ Told(<<a>>, {a})
        /\ Told(<<b>>, {b})
        /\ Told(<<c>>, {c})
    BY Written
  <1>4. Told(<<a>> \o When(r.typed, <<b>>),
             {a} \cup Under(r.typed, {b}))
    BY <1>2, Continued
  <1>5. Told(<<a>> \o When(r.typed, <<b>>) \o When(r.typed /\ SafeFileFields(r), <<c>>),
             {a} \cup Under(r.typed, {b}) \cup Under(r.typed /\ SafeFileFields(r), {c}))
    BY <1>2, <1>4, Continued
  <1>6. QED BY <1>1, <1>5 DEF a, b, c

LEMMA FileGroup ==
    ASSUME NEW r, NEW i
    PROVE  JudgesRecord(FileJudgements(r, i), 1, r, "plain-file-has-valid-record-type", RecordTarget(r, "malformed-plain-file", i))
  <1> DEFINE a == Test("plain-file-has-valid-record-type", RecordTarget(r, "malformed-plain-file", i), None, r.typed)
             b == Test("plain-file-has-safe-fields", r.id, None, SafeFileFields(r))
             c == Test("plain-file-digest-matches-content", r.id, None, r.digest = "matches")
  <1>1. Told(FileJudgements(r, i), {a}
               \cup Under(r.typed, {b})
               \cup Under(r.typed /\ SafeFileFields(r), {c}))
    BY FileTold
  <1>2. IsJudgement(a) /\ a.property = "plain-file-has-valid-record-type" /\ a.target = RecordTarget(r, "malformed-plain-file", i) /\ Group(a.property) = 1
    BY DEF IsJudgement, Test, Judgement, Group, LevelProperty
  <1>3. IsJudgement(b) /\ b.property = "plain-file-has-safe-fields" /\ b.target = r.id /\ Group(b.property) = 1
    BY DEF IsJudgement, Test, Judgement, Group, LevelProperty
  <1>4. IsJudgement(c) /\ c.property = "plain-file-digest-matches-content" /\ c.target = r.id /\ Group(c.property) = 1
    BY DEF IsJudgement, Test, Judgement, Group, LevelProperty
  <1> HIDE DEF a, b, c
  <1>5. QED BY <1>1, <1>2, <1>3, <1>4 DEF Told, Under, JudgesRecord

LEMMA SpanTold ==
    ASSUME NEW d, NEW r, NEW i
    PROVE  Told(SpanJudgements(d, r, i),
           {Test("source-span-has-valid-record-type", RecordTarget(r, "malformed-source-span", i), None, r.typed)}
           \cup Under(r.typed,
             {Test("source-span-has-safe-file-identity", r.id, r.id, Safe(r.file))})
           \cup Under(r.typed /\ Safe(r.file),
             {Test("source-span-has-safe-bounds", r.id, r.id, BoundsAreOrdered(r))})
           \cup Under(r.typed /\ Safe(r.file) /\ BoundsAreOrdered(r),
             IF ~IsUnique(r.file, d.files) THEN {Test("source-span-within-file-bounds", r.id, r.id, FALSE)}
             ELSE {Test("source-span-within-file-bounds", r.id, r.id, InBounds(ByLastId(d.files, r.file), r)),
                   Test("source-span-lines-match-byte-offsets", r.id, r.id, InBounds(ByLastId(d.files, r.file), r) /\ LinesMatch(ByLastId(d.files, r.file), r))}))
  <1> DEFINE a == Test("source-span-has-valid-record-type", RecordTarget(r, "malformed-source-span", i), None, r.typed)
             b == Test("source-span-has-safe-file-identity", r.id, r.id, Safe(r.file))
             c == Test("source-span-has-safe-bounds", r.id, r.id, BoundsAreOrdered(r))
             e == Test("source-span-within-file-bounds", r.id, r.id, FALSE)
             f == Test("source-span-within-file-bounds", r.id, r.id, InBounds(ByLastId(d.files, r.file), r))
             g == Test("source-span-lines-match-byte-offsets", r.id, r.id, InBounds(ByLastId(d.files, r.file), r) /\ LinesMatch(ByLastId(d.files, r.file), r))
  <1>1. SpanJudgements(d, r, i) = <<a>>
          \o When(r.typed, <<b>>)
          \o When(r.typed /\ Safe(r.file), <<c>>)
          \o When(r.typed /\ Safe(r.file) /\ BoundsAreOrdered(r), IF ~IsUnique(r.file, d.files) THEN <<e>> ELSE <<f, g>>)
    BY DEF SpanJudgements
  <1> HIDE DEF a, b, c, e, f, g
  <1>2. /\ Told(<<a>>, {a})
        /\ Told(<<b>>, {b})
        /\ Told(<<c>>, {c})
        /\ Told(IF ~IsUnique(r.file, d.files) THEN <<e>> ELSE <<f, g>>, IF ~IsUnique(r.file, d.files) THEN {e} ELSE {f, g})
    BY Written
  <1>4. Told(<<a>> \o When(r.typed, <<b>>),
             {a} \cup Under(r.typed, {b}))
    BY <1>2, Continued
  <1>5. Told(<<a>> \o When(r.typed, <<b>>) \o When(r.typed /\ Safe(r.file), <<c>>),
             {a} \cup Under(r.typed, {b}) \cup Under(r.typed /\ Safe(r.file), {c}))
    BY <1>2, <1>4, Continued
  <1>6. Told(<<a>> \o When(r.typed, <<b>>) \o When(r.typed /\ Safe(r.file), <<c>>) \o When(r.typed /\ Safe(r.file) /\ BoundsAreOrdered(r), IF ~IsUnique(r.file, d.files) THEN <<e>> ELSE <<f, g>>),
             {a} \cup Under(r.typed, {b}) \cup Under(r.typed /\ Safe(r.file), {c}) \cup Under(r.typed /\ Safe(r.file) /\ BoundsAreOrdered(r), IF ~IsUnique(r.file, d.files) THEN {e} ELSE {f, g}))
    BY <1>2, <1>5, Continued
  <1>7. QED BY <1>1, <1>6 DEF a, b, c, e, f, g

LEMMA SpanGroup ==
    ASSUME NEW d, NEW r, NEW i
    PROVE  JudgesRecord(SpanJudgements(d, r, i), 2, r, "source-span-has-valid-record-type", RecordTarget(r, "malformed-source-span", i))
  <1> DEFINE a == Test("source-span-has-valid-record-type", RecordTarget(r, "malformed-source-span", i), None, r.typed)
             b == Test("source-span-has-safe-file-identity", r.id, r.id, Safe(r.file))
             c == Test("source-span-has-safe-bounds", r.id, r.id, BoundsAreOrdered(r))
             e == Test("source-span-within-file-bounds", r.id, r.id, FALSE)
             f == Test("source-span-within-file-bounds", r.id, r.id, InBounds(ByLastId(d.files, r.file), r))
             g == Test("source-span-lines-match-byte-offsets", r.id, r.id, InBounds(ByLastId(d.files, r.file), r) /\ LinesMatch(ByLastId(d.files, r.file), r))
  <1>1. Told(SpanJudgements(d, r, i), {a}
               \cup Under(r.typed, {b})
               \cup Under(r.typed /\ Safe(r.file), {c})
               \cup Under(r.typed /\ Safe(r.file) /\ BoundsAreOrdered(r), IF ~IsUnique(r.file, d.files) THEN {e} ELSE {f, g}))
    BY SpanTold
  <1>2. IsJudgement(a) /\ a.property = "source-span-has-valid-record-type" /\ a.target = RecordTarget(r, "malformed-source-span", i) /\ Group(a.property) = 2
    BY DEF IsJudgement, Test, Judgement, Group, LevelProperty
  <1>3. IsJudgement(b) /\ b.property = "source-span-has-safe-file-identity" /\ b.target = r.id /\ Group(b.property) = 2
    BY DEF IsJudgement, Test, Judgement, Group, LevelProperty
  <1>4. IsJudgement(c) /\ c.property = "source-span-has-safe-bounds" /\ c.target = r.id /\ Group(c.property) = 2
    BY DEF IsJudgement, Test, Judgement, Group, LevelProperty
  <1>5. IsJudgement(e) /\ e.property = "source-span-within-file-bounds" /\ e.target = r.id /\ Group(e.property) = 2
    BY DEF IsJudgement, Test, Judgement, Group, LevelProperty
  <1>6. IsJudgement(f) /\ f.property = "source-span-within-file-bounds" /\ f.target = r.id /\ Group(f.property) = 2
    BY DEF IsJudgement, Test, Judgement, Group, LevelProperty
  <1>7. IsJudgement(g) /\ g.property = "source-span-lines-match-byte-offsets" /\ g.target = r.id /\ Group(g.property) = 2
    BY DEF IsJudgement, Test, Judgement, Group, LevelProperty
  <1> HIDE DEF a, b, c, e, f, g
  <1>8. QED BY <1>1, <1>2, <1>3, <1>4, <1>5, <1>6, <1>7 DEF Told, Under, JudgesRecord

LEMMA FileIdentityTold ==
    ASSUME NEW d, NEW r, NEW t
    PROVE  Told(FileIdentityJudgements(d, r),
           Under(r.typed,
             {Test("plain-file-identity-is-unique", r.id, None, IsUnique(r.id, d.files)),
               Test("plain-file-has-safe-identity", r.id, None, Safe(r.id))}))
  <1> DEFINE a == Test("plain-file-identity-is-unique", r.id, None, IsUnique(r.id, d.files))
             b == Test("plain-file-has-safe-identity", r.id, None, Safe(r.id))
  <1>1. FileIdentityJudgements(d, r) = When(r.typed, <<a, b>>)
    BY DEF FileIdentityJudgements
  <1> HIDE DEF a, b
  <1>2. /\ Told(<<a, b>>, {a, b})
    BY Written
  <1>3. Told(When(r.typed, <<a, b>>), Under(r.typed, {a, b}))
    BY <1>2, Conditional
  <1>4. QED BY <1>1, <1>3 DEF a, b

LEMMA FileIdentityGroup ==
    ASSUME NEW d, NEW r, NEW t
    PROVE  JudgesRecord(FileIdentityJudgements(d, r), 3, r, "none", t)
  <1> DEFINE a == Test("plain-file-identity-is-unique", r.id, None, IsUnique(r.id, d.files))
             b == Test("plain-file-has-safe-identity", r.id, None, Safe(r.id))
  <1>1. Told(FileIdentityJudgements(d, r), Under(r.typed, {a, b}))
    BY FileIdentityTold
  <1>2. IsJudgement(a) /\ a.property = "plain-file-identity-is-unique" /\ a.target = r.id /\ Group(a.property) = 3
    BY DEF IsJudgement, Test, Judgement, Group, LevelProperty
  <1>3. IsJudgement(b) /\ b.property = "plain-file-has-safe-identity" /\ b.target = r.id /\ Group(b.property) = 3
    BY DEF IsJudgement, Test, Judgement, Group, LevelProperty
  <1> HIDE DEF a, b
  <1>4. QED BY <1>1, <1>2, <1>3 DEF Told, Under, JudgesRecord

LEMMA SpanIdentityTold ==
    ASSUME NEW d, NEW r, NEW t
    PROVE  Told(SpanIdentityJudgements(d, r),
           Under(r.typed,
             {Test("source-span-identity-is-unique", r.id, r.id, IsUnique(r.id, d.spans)),
               Test("source-span-has-safe-identity", r.id, r.id, Safe(r.id))}))
  <1> DEFINE a == Test("source-span-identity-is-unique", r.id, r.id, IsUnique(r.id, d.spans))
             b == Test("source-span-has-safe-identity", r.id, r.id, Safe(r.id))
  <1>1. SpanIdentityJudgements(d, r) = When(r.typed, <<a, b>>)
    BY DEF SpanIdentityJudgements
  <1> HIDE DEF a, b
  <1>2. /\ Told(<<a, b>>, {a, b})
    BY Written
  <1>3. Told(When(r.typed, <<a, b>>), Under(r.typed, {a, b}))
    BY <1>2, Conditional
  <1>4. QED BY <1>1, <1>3 DEF a, b

LEMMA SpanIdentityGroup ==
    ASSUME NEW d, NEW r, NEW t
    PROVE  JudgesRecord(SpanIdentityJudgements(d, r), 4, r, "none", t)
  <1> DEFINE a == Test("source-span-identity-is-unique", r.id, r.id, IsUnique(r.id, d.spans))
             b == Test("source-span-has-safe-identity", r.id, r.id, Safe(r.id))
  <1>1. Told(SpanIdentityJudgements(d, r), Under(r.typed, {a, b}))
    BY SpanIdentityTold
  <1>2. IsJudgement(a) /\ a.property = "source-span-identity-is-unique" /\ a.target = r.id /\ Group(a.property) = 4
    BY DEF IsJudgement, Test, Judgement, Group, LevelProperty
  <1>3. IsJudgement(b) /\ b.property = "source-span-has-safe-identity" /\ b.target = r.id /\ Group(b.property) = 4
    BY DEF IsJudgement, Test, Judgement, Group, LevelProperty
  <1> HIDE DEF a, b
  <1>4. QED BY <1>1, <1>2, <1>3 DEF Told, Under, JudgesRecord

LEMMA SectionTold ==
    ASSUME NEW d, NEW r, NEW i
    PROVE  Told(SectionJudgements(d, r, i),
           {Test("section-has-valid-record-type", RecordTarget(r, "malformed-section", i), None, r.typed)}
           \cup Under(r.typed,
             {Test("section-has-safe-source-span", r.id, IF Safe(r.span) THEN r.span ELSE None, Safe(r.span))})
           \cup Under(r.typed /\ Safe(r.span),
             {Test("section-identity-is-unique", r.id, r.span, IsUnique(r.id, d.sections)),
               Test("section-has-safe-identity", r.id, r.span, Safe(r.id)),
               Test("section-has-safe-fields", r.id, r.span, r.kind = "text" /\ r.ordinal = "number"),
               Test("section-has-safe-file-identity", r.id, r.span, Safe(r.file))})
           \cup Under(r.typed /\ Safe(r.span) /\ Safe(r.file),
             {Test("section-file-is-indexed", r.id, r.span, IsUnique(r.file, d.files)),
               Test("section-has-source-span", r.id, r.span, IsUnique(r.span, d.spans)),
               Test("section-span-file-matches-section-file", r.id, r.span, SpanIsIn(d, r.span, r.file))}))
  <1> DEFINE a == Test("section-has-valid-record-type", RecordTarget(r, "malformed-section", i), None, r.typed)
             b == Test("section-has-safe-source-span", r.id, IF Safe(r.span) THEN r.span ELSE None, Safe(r.span))
             c == Test("section-identity-is-unique", r.id, r.span, IsUnique(r.id, d.sections))
             e == Test("section-has-safe-identity", r.id, r.span, Safe(r.id))
             f == Test("section-has-safe-fields", r.id, r.span, r.kind = "text" /\ r.ordinal = "number")
             g == Test("section-has-safe-file-identity", r.id, r.span, Safe(r.file))
             h == Test("section-file-is-indexed", r.id, r.span, IsUnique(r.file, d.files))
             j == Test("section-has-source-span", r.id, r.span, IsUnique(r.span, d.spans))
             k == Test("section-span-file-matches-section-file", r.id, r.span, SpanIsIn(d, r.span, r.file))
  <1>1. SectionJudgements(d, r, i) = <<a>>
          \o When(r.typed, <<b>>)
          \o When(r.typed /\ Safe(r.span), <<c, e, f, g>>)
          \o When(r.typed /\ Safe(r.span) /\ Safe(r.file), <<h, j, k>>)
    BY DEF SectionJudgements
  <1> HIDE DEF a, b, c, e, f, g, h, j, k
  <1>2. /\ Told(<<a>>, {a})
        /\ Told(<<b>>, {b})
        /\ Told(<<c, e, f, g>>, {c, e, f, g})
        /\ Told(<<h, j, k>>, {h, j, k})
    BY Written
  <1>4. Told(<<a>> \o When(r.typed, <<b>>),
             {a} \cup Under(r.typed, {b}))
    BY <1>2, Continued
  <1>5. Told(<<a>> \o When(r.typed, <<b>>) \o When(r.typed /\ Safe(r.span), <<c, e, f, g>>),
             {a} \cup Under(r.typed, {b}) \cup Under(r.typed /\ Safe(r.span), {c, e, f, g}))
    BY <1>2, <1>4, Continued
  <1>6. Told(<<a>> \o When(r.typed, <<b>>) \o When(r.typed /\ Safe(r.span), <<c, e, f, g>>) \o When(r.typed /\ Safe(r.span) /\ Safe(r.file), <<h, j, k>>),
             {a} \cup Under(r.typed, {b}) \cup Under(r.typed /\ Safe(r.span), {c, e, f, g}) \cup Under(r.typed /\ Safe(r.span) /\ Safe(r.file), {h, j, k}))
    BY <1>2, <1>5, Continued
  <1>7. QED BY <1>1, <1>6 DEF a, b, c, e, f, g, h, j, k

LEMMA SectionGroup ==
    ASSUME NEW d, NEW r, NEW i
    PROVE  JudgesRecord(SectionJudgements(d, r, i), 5, r, "section-has-valid-record-type", RecordTarget(r, "malformed-section", i))
  <1> DEFINE a == Test("section-has-valid-record-type", RecordTarget(r, "malformed-section", i), None, r.typed)
             b == Test("section-has-safe-source-span", r.id, IF Safe(r.span) THEN r.span ELSE None, Safe(r.span))
             c == Test("section-identity-is-unique", r.id, r.span, IsUnique(r.id, d.sections))
             e == Test("section-has-safe-identity", r.id, r.span, Safe(r.id))
             f == Test("section-has-safe-fields", r.id, r.span, r.kind = "text" /\ r.ordinal = "number")
             g == Test("section-has-safe-file-identity", r.id, r.span, Safe(r.file))
             h == Test("section-file-is-indexed", r.id, r.span, IsUnique(r.file, d.files))
             j == Test("section-has-source-span", r.id, r.span, IsUnique(r.span, d.spans))
             k == Test("section-span-file-matches-section-file", r.id, r.span, SpanIsIn(d, r.span, r.file))
  <1>1. Told(SectionJudgements(d, r, i), {a}
               \cup Under(r.typed, {b})
               \cup Under(r.typed /\ Safe(r.span), {c, e, f, g})
               \cup Under(r.typed /\ Safe(r.span) /\ Safe(r.file), {h, j, k}))
    BY SectionTold
  <1>2. IsJudgement(a) /\ a.property = "section-has-valid-record-type" /\ a.target = RecordTarget(r, "malformed-section", i) /\ Group(a.property) = 5
    BY DEF IsJudgement, Test, Judgement, Group, LevelProperty
  <1>3. IsJudgement(b) /\ b.property = "section-has-safe-source-span" /\ b.target = r.id /\ Group(b.property) = 5
    BY DEF IsJudgement, Test, Judgement, Group, LevelProperty
  <1>4. IsJudgement(c) /\ c.property = "section-identity-is-unique" /\ c.target = r.id /\ Group(c.property) = 5
    BY DEF IsJudgement, Test, Judgement, Group, LevelProperty
  <1>5. IsJudgement(e) /\ e.property = "section-has-safe-identity" /\ e.target = r.id /\ Group(e.property) = 5
    BY DEF IsJudgement, Test, Judgement, Group, LevelProperty
  <1>6. IsJudgement(f) /\ f.property = "section-has-safe-fields" /\ f.target = r.id /\ Group(f.property) = 5
    BY DEF IsJudgement, Test, Judgement, Group, LevelProperty
  <1>7. IsJudgement(g) /\ g.property = "section-has-safe-file-identity" /\ g.target = r.id /\ Group(g.property) = 5
    BY DEF IsJudgement, Test, Judgement, Group, LevelProperty
  <1>8. IsJudgement(h) /\ h.property = "section-file-is-indexed" /\ h.target = r.id /\ Group(h.property) = 5
    BY DEF IsJudgement, Test, Judgement, Group, LevelProperty
  <1>9. IsJudgement(j) /\ j.property = "section-has-source-span" /\ j.target = r.id /\ Group(j.property) = 5
    BY DEF IsJudgement, Test, Judgement, Group, LevelProperty
  <1>10. IsJudgement(k) /\ k.property = "section-span-file-matches-section-file" /\ k.target = r.id /\ Group(k.property) = 5
    BY DEF IsJudgement, Test, Judgement, Group, LevelProperty
  <1> HIDE DEF a, b, c, e, f, g, h, j, k
  <1>11. QED BY <1>1, <1>2, <1>3, <1>4, <1>5, <1>6, <1>7, <1>8, <1>9, <1>10 DEF Told, Under, JudgesRecord

LEMMA ItemTold ==
    ASSUME NEW d, NEW r, NEW i
    PROVE  Told(ItemJudgements(d, r, i),
           {Test("item-has-valid-record-type", RecordTarget(r, "malformed-item", i), None, r.typed)}
           \cup Under(r.typed,
             {Test("item-has-safe-source-span", r.id, IF Safe(r.span) THEN r.span ELSE None, Safe(r.span))})
           \cup Under(r.typed /\ Safe(r.span),
             {Test("item-identity-is-unique", r.id, r.span, IsUnique(r.id, d.items)),
               Test("item-has-safe-identity", r.id, r.span, Safe(r.id)),
               Test("item-has-safe-fields", r.id, r.span, r.ordinal = "number" /\ r.level = "number" /\ r.raw = "text"),
               Test("item-has-safe-link-identities", r.id, r.span, SafeLinks(r))})
           \cup Under(r.typed /\ Safe(r.span) /\ SafeLinks(r),
             {Test("item-file-is-indexed", r.id, r.span, IsUnique(r.file, d.files)),
               Test("item-has-section", r.id, r.span, IsUnique(r.section, d.sections)),
               Test("item-file-matches-section-file", r.id, r.span, IsUnique(r.section, d.sections) /\ ByLastId(d.sections, r.section).file = r.file),
               Test("item-has-source-span", r.id, r.span, IsUnique(r.span, d.spans)),
               Test("item-span-file-matches-item-file", r.id, r.span, SpanIsIn(d, r.span, r.file))})
           \cup Under(r.typed /\ Safe(r.span) /\ SafeLinks(r) /\ r.parent # None,
             {Test("item-parent-is-indexed", r.id, r.span, IsUnique(r.parent, d.items)),
               Test("item-parent-is-not-self", r.id, r.span, r.parent # r.id),
               Test("item-parent-context-matches", r.id, r.span, IsUnique(r.parent, d.items) /\ ByLastId(d.items, r.parent).file = r.file
               /\ ByLastId(d.items, r.parent).section = r.section)}))
  <1> DEFINE a == Test("item-has-valid-record-type", RecordTarget(r, "malformed-item", i), None, r.typed)
             b == Test("item-has-safe-source-span", r.id, IF Safe(r.span) THEN r.span ELSE None, Safe(r.span))
             c == Test("item-identity-is-unique", r.id, r.span, IsUnique(r.id, d.items))
             e == Test("item-has-safe-identity", r.id, r.span, Safe(r.id))
             f == Test("item-has-safe-fields", r.id, r.span, r.ordinal = "number" /\ r.level = "number" /\ r.raw = "text")
             g == Test("item-has-safe-link-identities", r.id, r.span, SafeLinks(r))
             h == Test("item-file-is-indexed", r.id, r.span, IsUnique(r.file, d.files))
             j == Test("item-has-section", r.id, r.span, IsUnique(r.section, d.sections))
             k == Test("item-file-matches-section-file", r.id, r.span, IsUnique(r.section, d.sections) /\ ByLastId(d.sections, r.section).file = r.file)
             l == Test("item-has-source-span", r.id, r.span, IsUnique(r.span, d.spans))
             m == Test("item-span-file-matches-item-file", r.id, r.span, SpanIsIn(d, r.span, r.file))
             n == Test("item-parent-is-indexed", r.id, r.span, IsUnique(r.parent, d.items))
             o == Test("item-parent-is-not-self", r.id, r.span, r.parent # r.id)
             p == Test("item-parent-context-matches", r.id, r.span, IsUnique(r.parent, d.items) /\ ByLastId(d.items, r.parent).file = r.file
               /\ ByLastId(d.items, r.parent).section = r.section)
  <1>1. ItemJudgements(d, r, i) = <<a>>
          \o When(r.typed, <<b>>)
          \o When(r.typed /\ Safe(r.span), <<c, e, f, g>>)
          \o When(r.typed /\ Safe(r.span) /\ SafeLinks(r), <<h, j, k, l, m>>)
          \o When(r.typed /\ Safe(r.span) /\ SafeLinks(r) /\ r.parent # None, <<n, o, p>>)
    BY DEF ItemJudgements, ItemLinkJudgements, ItemParentJudgements
  <1> HIDE DEF a, b, c, e, f, g, h, j, k, l, m, n, o, p
  <1>2. /\ Told(<<a>>, {a})
        /\ Told(<<b>>, {b})
        /\ Told(<<c, e, f, g>>, {c, e, f, g})
        /\ Told(<<h, j, k, l, m>>, {h, j, k, l, m})
        /\ Told(<<n, o, p>>, {n, o, p})
    BY Written
  <1>4. Told(<<a>> \o When(r.typed, <<b>>),
             {a} \cup Under(r.typed, {b}))
    BY <1>2, Continued
  <1>5. Told(<<a>> \o When(r.typed, <<b>>) \o When(r.typed /\ Safe(r.span), <<c, e, f, g>>),
             {a} \cup Under(r.typed, {b}) \cup Under(r.typed /\ Safe(r.span), {c, e, f, g}))
    BY <1>2, <1>4, Continued
  <1>6. Told(<<a>> \o When(r.typed, <<b>>) \o When(r.typed /\ Safe(r.span), <<c, e, f, g>>) \o When(r.typed /\ Safe(r.span) /\ SafeLinks(r), <<h, j, k, l, m>>),
             {a} \cup Under(r.typed, {b}) \cup Under(r.typed /\ Safe(r.span), {c, e, f, g}) \cup Under(r.typed /\ Safe(r.span) /\ SafeLinks(r), {h, j, k, l, m}))
    BY <1>2, <1>5, Continued
  <1>7. Told(<<a>> \o When(r.typed, <<b>>) \o When(r.typed /\ Safe(r.span), <<c, e, f, g>>) \o When(r.typed /\ Safe(r.span) /\ SafeLinks(r), <<h, j, k, l, m>>) \o When(r.typed /\ Safe(r.span) /\ SafeLinks(r) /\ r.parent # None, <<n, o, p>>),
             {a} \cup Under(r.typed, {b}) \cup Under(r.typed /\ Safe(r.span), {c, e, f, g}) \cup Under(r.typed /\ Safe(r.span) /\ SafeLinks(r), {h, j, k, l, m}) \cup Under(r.typed /\ Safe(r.span) /\ SafeLinks(r) /\ r.parent # None, {n, o, p}))
    BY <1>2, <1>6, Continued
  <1>8. QED BY <1>1, <1>7 DEF a, b, c, e, f, g, h, j, k, l, m, n, o, p

LEMMA ItemGroup ==
    ASSUME NEW d, NEW r, NEW i
    PROVE  JudgesRecord(ItemJudgements(d, r, i), 6, r, "item-has-valid-record-type", RecordTarget(r, "malformed-item", i))
  <1> DEFINE a == Test("item-has-valid-record-type", RecordTarget(r, "malformed-item", i), None, r.typed)
             b == Test("item-has-safe-source-span", r.id, IF Safe(r.span) THEN r.span ELSE None, Safe(r.span))
             c == Test("item-identity-is-unique", r.id, r.span, IsUnique(r.id, d.items))
             e == Test("item-has-safe-identity", r.id, r.span, Safe(r.id))
             f == Test("item-has-safe-fields", r.id, r.span, r.ordinal = "number" /\ r.level = "number" /\ r.raw = "text")
             g == Test("item-has-safe-link-identities", r.id, r.span, SafeLinks(r))
             h == Test("item-file-is-indexed", r.id, r.span, IsUnique(r.file, d.files))
             j == Test("item-has-section", r.id, r.span, IsUnique(r.section, d.sections))
             k == Test("item-file-matches-section-file", r.id, r.span, IsUnique(r.section, d.sections) /\ ByLastId(d.sections, r.section).file = r.file)
             l == Test("item-has-source-span", r.id, r.span, IsUnique(r.span, d.spans))
             m == Test("item-span-file-matches-item-file", r.id, r.span, SpanIsIn(d, r.span, r.file))
             n == Test("item-parent-is-indexed", r.id, r.span, IsUnique(r.parent, d.items))
             o == Test("item-parent-is-not-self", r.id, r.span, r.parent # r.id)
             p == Test("item-parent-context-matches", r.id, r.span, IsUnique(r.parent, d.items) /\ ByLastId(d.items, r.parent).file = r.file
               /\ ByLastId(d.items, r.parent).section = r.section)
  <1>1. Told(ItemJudgements(d, r, i), {a}
               \cup Under(r.typed, {b})
               \cup Under(r.typed /\ Safe(r.span), {c, e, f, g})
               \cup Under(r.typed /\ Safe(r.span) /\ SafeLinks(r), {h, j, k, l, m})
               \cup Under(r.typed /\ Safe(r.span) /\ SafeLinks(r) /\ r.parent # None, {n, o, p}))
    BY ItemTold
  <1>2. IsJudgement(a) /\ a.property = "item-has-valid-record-type" /\ a.target = RecordTarget(r, "malformed-item", i) /\ Group(a.property) = 6
    BY DEF IsJudgement, Test, Judgement, Group, LevelProperty
  <1>3. IsJudgement(b) /\ b.property = "item-has-safe-source-span" /\ b.target = r.id /\ Group(b.property) = 6
    BY DEF IsJudgement, Test, Judgement, Group, LevelProperty
  <1>4. IsJudgement(c) /\ c.property = "item-identity-is-unique" /\ c.target = r.id /\ Group(c.property) = 6
    BY DEF IsJudgement, Test, Judgement, Group, LevelProperty
  <1>5. IsJudgement(e) /\ e.property = "item-has-safe-identity" /\ e.target = r.id /\ Group(e.property) = 6
    BY DEF IsJudgement, Test, Judgement, Group, LevelProperty
  <1>6. IsJudgement(f) /\ f.property = "item-has-safe-fields" /\ f.target = r.id /\ Group(f.property) = 6
    BY DEF IsJudgement, Test, Judgement, Group, LevelProperty
  <1>7. IsJudgement(g) /\ g.property = "item-has-safe-link-identities" /\ g.target = r.id /\ Group(g.property) = 6
    BY DEF IsJudgement, Test, Judgement, Group, LevelProperty
  <1>8. IsJudgement(h) /\ h.property = "item-file-is-indexed" /\ h.target = r.id /\ Group(h.property) = 6
    BY DEF IsJudgement, Test, Judgement, Group, LevelProperty
  <1>9. IsJudgement(j) /\ j.property = "item-has-section" /\ j.target = r.id /\ Group(j.property) = 6
    BY DEF IsJudgement, Test, Judgement, Group, LevelProperty
  <1>10. IsJudgement(k) /\ k.property = "item-file-matches-section-file" /\ k.target = r.id /\ Group(k.property) = 6
    BY DEF IsJudgement, Test, Judgement, Group, LevelProperty
  <1>11. IsJudgement(l) /\ l.property = "item-has-source-span" /\ l.target = r.id /\ Group(l.property) = 6
    BY DEF IsJudgement, Test, Judgement, Group, LevelProperty
  <1>12. IsJudgement(m) /\ m.property = "item-span-file-matches-item-file" /\ m.target = r.id /\ Group(m.property) = 6
    BY DEF IsJudgement, Test, Judgement, Group, LevelProperty
  <1>13. IsJudgement(n) /\ n.property = "item-parent-is-indexed" /\ n.target = r.id /\ Group(n.property) = 6
    BY DEF IsJudgement, Test, Judgement, Group, LevelProperty
  <1>14. IsJudgement(o) /\ o.property = "item-parent-is-not-self" /\ o.target = r.id /\ Group(o.property) = 6
    BY DEF IsJudgement, Test, Judgement, Group, LevelProperty
  <1>15. IsJudgement(p) /\ p.property = "item-parent-context-matches" /\ p.target = r.id /\ Group(p.property) = 6
    BY DEF IsJudgement, Test, Judgement, Group, LevelProperty
  <1> HIDE DEF a, b, c, e, f, g, h, j, k, l, m, n, o, p
  <1>16. QED BY <1>1, <1>2, <1>3, <1>4, <1>5, <1>6, <1>7, <1>8, <1>9, <1>10, <1>11, <1>12, <1>13, <1>14, <1>15 DEF Told, Under, JudgesRecord

LEMMA ObjectTold ==
    ASSUME NEW d, NEW r, NEW i
    PROVE  Told(ObjectJudgements(d, r, i),
           {Test("object-has-valid-record-type", RecordTarget(r, "malformed-object", i), None, r.typed)}
           \cup Under(r.typed,
             {Test("object-identity-is-unique", r.id, r.span, IsUnique(r.id, d.objects)),
               Test("object-has-safe-identity", r.id, r.span, Safe(r.id)),
               Test("object-has-known-role", r.id, r.span, r.role # "untyped"),
               Test("object-has-known-semantic-level", r.id, r.span, r.level \in KnownLevels),
               Test("object-has-valid-facts-container", r.id, r.span, r.listed),
               Test("object-has-safe-source-span-id", r.id, IF r.span \in NotText THEN None ELSE r.span, SafeOptional(r.span)),
               Test("object-has-source-or-generated-provenance", r.id, r.span, HasProvenance(d, r))}))
  <1> DEFINE a == Test("object-has-valid-record-type", RecordTarget(r, "malformed-object", i), None, r.typed)
             b == Test("object-identity-is-unique", r.id, r.span, IsUnique(r.id, d.objects))
             c == Test("object-has-safe-identity", r.id, r.span, Safe(r.id))
             e == Test("object-has-known-role", r.id, r.span, r.role # "untyped")
             f == Test("object-has-known-semantic-level", r.id, r.span, r.level \in KnownLevels)
             g == Test("object-has-valid-facts-container", r.id, r.span, r.listed)
             h == Test("object-has-safe-source-span-id", r.id, IF r.span \in NotText THEN None ELSE r.span, SafeOptional(r.span))
             j == Test("object-has-source-or-generated-provenance", r.id, r.span, HasProvenance(d, r))
  <1>1. ObjectJudgements(d, r, i) = <<a>>
          \o When(r.typed, <<b, c, e, f, g, h, j>>)
    BY DEF ObjectJudgements
  <1> HIDE DEF a, b, c, e, f, g, h, j
  <1>2. /\ Told(<<a>>, {a})
        /\ Told(<<b, c, e, f, g, h, j>>, {b, c, e, f, g, h, j})
    BY Written
  <1>4. Told(<<a>> \o When(r.typed, <<b, c, e, f, g, h, j>>),
             {a} \cup Under(r.typed, {b, c, e, f, g, h, j}))
    BY <1>2, Continued
  <1>5. QED BY <1>1, <1>4 DEF a, b, c, e, f, g, h, j

LEMMA ObjectGroup ==
    ASSUME NEW d, NEW r, NEW i
    PROVE  JudgesRecord(ObjectJudgements(d, r, i), 7, r, "object-has-valid-record-type", RecordTarget(r, "malformed-object", i))
  <1> DEFINE a == Test("object-has-valid-record-type", RecordTarget(r, "malformed-object", i), None, r.typed)
             b == Test("object-identity-is-unique", r.id, r.span, IsUnique(r.id, d.objects))
             c == Test("object-has-safe-identity", r.id, r.span, Safe(r.id))
             e == Test("object-has-known-role", r.id, r.span, r.role # "untyped")
             f == Test("object-has-known-semantic-level", r.id, r.span, r.level \in KnownLevels)
             g == Test("object-has-valid-facts-container", r.id, r.span, r.listed)
             h == Test("object-has-safe-source-span-id", r.id, IF r.span \in NotText THEN None ELSE r.span, SafeOptional(r.span))
             j == Test("object-has-source-or-generated-provenance", r.id, r.span, HasProvenance(d, r))
  <1>1. Told(ObjectJudgements(d, r, i), {a}
               \cup Under(r.typed, {b, c, e, f, g, h, j}))
    BY ObjectTold
  <1>2. IsJudgement(a) /\ a.property = "object-has-valid-record-type" /\ a.target = RecordTarget(r, "malformed-object", i) /\ Group(a.property) = 7
    BY DEF IsJudgement, Test, Judgement, Group, LevelProperty
  <1>3. IsJudgement(b) /\ b.property = "object-identity-is-unique" /\ b.target = r.id /\ Group(b.property) = 7
    BY DEF IsJudgement, Test, Judgement, Group, LevelProperty
  <1>4. IsJudgement(c) /\ c.property = "object-has-safe-identity" /\ c.target = r.id /\ Group(c.property) = 7
    BY DEF IsJudgement, Test, Judgement, Group, LevelProperty
  <1>5. IsJudgement(e) /\ e.property = "object-has-known-role" /\ e.target = r.id /\ Group(e.property) = 7
    BY DEF IsJudgement, Test, Judgement, Group, LevelProperty
  <1>6. IsJudgement(f) /\ f.property = "object-has-known-semantic-level" /\ f.target = r.id /\ Group(f.property) = 7
    BY DEF IsJudgement, Test, Judgement, Group, LevelProperty
  <1>7. IsJudgement(g) /\ g.property = "object-has-valid-facts-container" /\ g.target = r.id /\ Group(g.property) = 7
    BY DEF IsJudgement, Test, Judgement, Group, LevelProperty
  <1>8. IsJudgement(h) /\ h.property = "object-has-safe-source-span-id" /\ h.target = r.id /\ Group(h.property) = 7
    BY DEF IsJudgement, Test, Judgement, Group, LevelProperty
  <1>9. IsJudgement(j) /\ j.property = "object-has-source-or-generated-provenance" /\ j.target = r.id /\ Group(j.property) = 7
    BY DEF IsJudgement, Test, Judgement, Group, LevelProperty
  <1> HIDE DEF a, b, c, e, f, g, h, j
  <1>10. QED BY <1>1, <1>2, <1>3, <1>4, <1>5, <1>6, <1>7, <1>8, <1>9 DEF Told, Under, JudgesRecord

LEMMA ObligationIdentityTold ==
    ASSUME NEW original, NEW r, NEW i
    PROVE  Told(ObligationIdentityJudgements(original, r, i),
           {Test("validation-obligation-has-valid-record-type", RecordTarget(r, "malformed-validation-obligation", i), None, r.typed)}
           \cup Under(r.typed,
             {Test("validation-obligation-identity-is-unique", r.id, r.span, IsUnique(r.id, original)),
               Test("validation-obligation-has-safe-identity", r.id, r.span, Safe(r.id))}))
  <1> DEFINE a == Test("validation-obligation-has-valid-record-type", RecordTarget(r, "malformed-validation-obligation", i), None, r.typed)
             b == Test("validation-obligation-identity-is-unique", r.id, r.span, IsUnique(r.id, original))
             c == Test("validation-obligation-has-safe-identity", r.id, r.span, Safe(r.id))
  <1>1. ObligationIdentityJudgements(original, r, i) = <<a>>
          \o When(r.typed, <<b, c>>)
    BY DEF ObligationIdentityJudgements
  <1> HIDE DEF a, b, c
  <1>2. /\ Told(<<a>>, {a})
        /\ Told(<<b, c>>, {b, c})
    BY Written
  <1>4. Told(<<a>> \o When(r.typed, <<b, c>>),
             {a} \cup Under(r.typed, {b, c}))
    BY <1>2, Continued
  <1>5. QED BY <1>1, <1>4 DEF a, b, c

LEMMA ObligationIdentityGroup ==
    ASSUME NEW original, NEW r, NEW i
    PROVE  JudgesRecord(ObligationIdentityJudgements(original, r, i), 8, r, "validation-obligation-has-valid-record-type", RecordTarget(r, "malformed-validation-obligation", i))
  <1> DEFINE a == Test("validation-obligation-has-valid-record-type", RecordTarget(r, "malformed-validation-obligation", i), None, r.typed)
             b == Test("validation-obligation-identity-is-unique", r.id, r.span, IsUnique(r.id, original))
             c == Test("validation-obligation-has-safe-identity", r.id, r.span, Safe(r.id))
  <1>1. Told(ObligationIdentityJudgements(original, r, i), {a}
               \cup Under(r.typed, {b, c}))
    BY ObligationIdentityTold
  <1>2. IsJudgement(a) /\ a.property = "validation-obligation-has-valid-record-type" /\ a.target = RecordTarget(r, "malformed-validation-obligation", i) /\ Group(a.property) = 8
    BY DEF IsJudgement, Test, Judgement, Group, LevelProperty
  <1>3. IsJudgement(b) /\ b.property = "validation-obligation-identity-is-unique" /\ b.target = r.id /\ Group(b.property) = 8
    BY DEF IsJudgement, Test, Judgement, Group, LevelProperty
  <1>4. IsJudgement(c) /\ c.property = "validation-obligation-has-safe-identity" /\ c.target = r.id /\ Group(c.property) = 8
    BY DEF IsJudgement, Test, Judgement, Group, LevelProperty
  <1> HIDE DEF a, b, c
  <1>5. QED BY <1>1, <1>2, <1>3, <1>4 DEF Told, Under, JudgesRecord

LEMMA CheckIdentityTold ==
    ASSUME NEW original, NEW r, NEW i
    PROVE  Told(CheckIdentityJudgements(original, r, i),
           {Test("check-has-valid-record-type", RecordTarget(r, "malformed-check-record", i), None, r.typed)}
           \cup Under(r.typed,
             {Test("check-identity-is-unique", r.id, None, IsUnique(r.id, original)),
               Test("check-has-safe-identity", r.id, None, Safe(r.id))}))
  <1> DEFINE a == Test("check-has-valid-record-type", RecordTarget(r, "malformed-check-record", i), None, r.typed)
             b == Test("check-identity-is-unique", r.id, None, IsUnique(r.id, original))
             c == Test("check-has-safe-identity", r.id, None, Safe(r.id))
  <1>1. CheckIdentityJudgements(original, r, i) = <<a>>
          \o When(r.typed, <<b, c>>)
    BY DEF CheckIdentityJudgements
  <1> HIDE DEF a, b, c
  <1>2. /\ Told(<<a>>, {a})
        /\ Told(<<b, c>>, {b, c})
    BY Written
  <1>4. Told(<<a>> \o When(r.typed, <<b, c>>),
             {a} \cup Under(r.typed, {b, c}))
    BY <1>2, Continued
  <1>5. QED BY <1>1, <1>4 DEF a, b, c

LEMMA CheckIdentityGroup ==
    ASSUME NEW original, NEW r, NEW i
    PROVE  JudgesRecord(CheckIdentityJudgements(original, r, i), 9, r, "check-has-valid-record-type", RecordTarget(r, "malformed-check-record", i))
  <1> DEFINE a == Test("check-has-valid-record-type", RecordTarget(r, "malformed-check-record", i), None, r.typed)
             b == Test("check-identity-is-unique", r.id, None, IsUnique(r.id, original))
             c == Test("check-has-safe-identity", r.id, None, Safe(r.id))
  <1>1. Told(CheckIdentityJudgements(original, r, i), {a}
               \cup Under(r.typed, {b, c}))
    BY CheckIdentityTold
  <1>2. IsJudgement(a) /\ a.property = "check-has-valid-record-type" /\ a.target = RecordTarget(r, "malformed-check-record", i) /\ Group(a.property) = 9
    BY DEF IsJudgement, Test, Judgement, Group, LevelProperty
  <1>3. IsJudgement(b) /\ b.property = "check-identity-is-unique" /\ b.target = r.id /\ Group(b.property) = 9
    BY DEF IsJudgement, Test, Judgement, Group, LevelProperty
  <1>4. IsJudgement(c) /\ c.property = "check-has-safe-identity" /\ c.target = r.id /\ Group(c.property) = 9
    BY DEF IsJudgement, Test, Judgement, Group, LevelProperty
  <1> HIDE DEF a, b, c
  <1>5. QED BY <1>1, <1>2, <1>3, <1>4 DEF Told, Under, JudgesRecord

LEMMA QuestionTold ==
    ASSUME NEW d, NEW r, NEW t
    PROVE  Told(QuestionJudgements(d, r),
           Under(r.typed /\ r.role = "QuestionObject" /\ r.listed,
             {Test("question-has-review-text", r.id, r.span, \E text \in ThirdOf(r, "QuestionText") : Safe(text)),
               Test("question-blocks-validation-obligation", r.id, r.span, {id \in ThirdOf(r, "Blocks") : Safe(id)} \cap SafeIds(d.obligations) # {})}))
  <1> DEFINE a == Test("question-has-review-text", r.id, r.span, \E text \in ThirdOf(r, "QuestionText") : Safe(text))
             b == Test("question-blocks-validation-obligation", r.id, r.span, {id \in ThirdOf(r, "Blocks") : Safe(id)} \cap SafeIds(d.obligations) # {})
  <1>1. QuestionJudgements(d, r) = When(r.typed /\ r.role = "QuestionObject" /\ r.listed, <<a, b>>)
    BY DEF QuestionJudgements
  <1> HIDE DEF a, b
  <1>2. /\ Told(<<a, b>>, {a, b})
    BY Written
  <1>3. Told(When(r.typed /\ r.role = "QuestionObject" /\ r.listed, <<a, b>>), Under(r.typed /\ r.role = "QuestionObject" /\ r.listed, {a, b}))
    BY <1>2, Conditional
  <1>4. QED BY <1>1, <1>3 DEF a, b

LEMMA QuestionGroup ==
    ASSUME NEW d, NEW r, NEW t
    PROVE  JudgesRecord(QuestionJudgements(d, r), 12, r, "none", t)
  <1> DEFINE a == Test("question-has-review-text", r.id, r.span, \E text \in ThirdOf(r, "QuestionText") : Safe(text))
             b == Test("question-blocks-validation-obligation", r.id, r.span, {id \in ThirdOf(r, "Blocks") : Safe(id)} \cap SafeIds(d.obligations) # {})
  <1>1. Told(QuestionJudgements(d, r), Under(r.typed /\ r.role = "QuestionObject" /\ r.listed, {a, b}))
    BY QuestionTold
  <1>2. IsJudgement(a) /\ a.property = "question-has-review-text" /\ a.target = r.id /\ Group(a.property) = 12
    BY DEF IsJudgement, Test, Judgement, Group, LevelProperty
  <1>3. IsJudgement(b) /\ b.property = "question-blocks-validation-obligation" /\ b.target = r.id /\ Group(b.property) = 12
    BY DEF IsJudgement, Test, Judgement, Group, LevelProperty
  <1> HIDE DEF a, b
  <1>4. QED BY <1>1, <1>2, <1>3 DEF Told, Under, JudgesRecord

LEMMA ObligationTold ==
    ASSUME NEW d, NEW obligations, NEW r, NEW t
    PROVE  Told(ObligationJudgements(d, obligations, r),
           Under(r.typed,
             {Test("validation-obligation-has-safe-property", r.id, r.span, SafeText(r.property)),
               Test("validation-obligation-has-reviewable-rationale", r.id, r.span, SafeText(r.rationale)),
               Test("validation-obligation-has-safe-target", r.id, r.span, Safe(r.target)),
               Test("validation-obligation-has-safe-source-span-id", r.id, IF r.span \in NotText THEN None ELSE r.span, SafeOptional(r.span)),
               Judgement("obligation-has-source-provenance", r.id, r.span, IF r.span = None THEN "Unknown" ELSE IF r.span \in SafeIds(d.spans) THEN "Pass" ELSE "Fail"),
               Test("obligation-target-is-declared", r.id, r.span, TargetIsDeclared(d, obligations, r.target))}))
  <1> DEFINE a == Test("validation-obligation-has-safe-property", r.id, r.span, SafeText(r.property))
             b == Test("validation-obligation-has-reviewable-rationale", r.id, r.span, SafeText(r.rationale))
             c == Test("validation-obligation-has-safe-target", r.id, r.span, Safe(r.target))
             e == Test("validation-obligation-has-safe-source-span-id", r.id, IF r.span \in NotText THEN None ELSE r.span, SafeOptional(r.span))
             f == Judgement("obligation-has-source-provenance", r.id, r.span, IF r.span = None THEN "Unknown" ELSE IF r.span \in SafeIds(d.spans) THEN "Pass" ELSE "Fail")
             g == Test("obligation-target-is-declared", r.id, r.span, TargetIsDeclared(d, obligations, r.target))
  <1>1. ObligationJudgements(d, obligations, r) = When(r.typed, <<a, b, c, e, f, g>>)
    BY DEF ObligationJudgements
  <1> HIDE DEF a, b, c, e, f, g
  <1>2. /\ Told(<<a, b, c, e, f, g>>, {a, b, c, e, f, g})
    BY Written
  <1>3. Told(When(r.typed, <<a, b, c, e, f, g>>), Under(r.typed, {a, b, c, e, f, g}))
    BY <1>2, Conditional
  <1>4. QED BY <1>1, <1>3 DEF a, b, c, e, f, g

LEMMA ObligationGroup ==
    ASSUME NEW d, NEW obligations, NEW r, NEW t
    PROVE  JudgesRecord(ObligationJudgements(d, obligations, r), 13, r, "none", t)
  <1> DEFINE a == Test("validation-obligation-has-safe-property", r.id, r.span, SafeText(r.property))
             b == Test("validation-obligation-has-reviewable-rationale", r.id, r.span, SafeText(r.rationale))
             c == Test("validation-obligation-has-safe-target", r.id, r.span, Safe(r.target))
             e == Test("validation-obligation-has-safe-source-span-id", r.id, IF r.span \in NotText THEN None ELSE r.span, SafeOptional(r.span))
             f == Judgement("obligation-has-source-provenance", r.id, r.span, IF r.span = None THEN "Unknown" ELSE IF r.span \in SafeIds(d.spans) THEN "Pass" ELSE "Fail")
             g == Test("obligation-target-is-declared", r.id, r.span, TargetIsDeclared(d, obligations, r.target))
  <1>1. Told(ObligationJudgements(d, obligations, r), Under(r.typed, {a, b, c, e, f, g}))
    BY ObligationTold
  <1>2. IsJudgement(a) /\ a.property = "validation-obligation-has-safe-property" /\ a.target = r.id /\ Group(a.property) = 13
    BY DEF IsJudgement, Test, Judgement, Group, LevelProperty
  <1>3. IsJudgement(b) /\ b.property = "validation-obligation-has-reviewable-rationale" /\ b.target = r.id /\ Group(b.property) = 13
    BY DEF IsJudgement, Test, Judgement, Group, LevelProperty
  <1>4. IsJudgement(c) /\ c.property = "validation-obligation-has-safe-target" /\ c.target = r.id /\ Group(c.property) = 13
    BY DEF IsJudgement, Test, Judgement, Group, LevelProperty
  <1>5. IsJudgement(e) /\ e.property = "validation-obligation-has-safe-source-span-id" /\ e.target = r.id /\ Group(e.property) = 13
    BY DEF IsJudgement, Test, Judgement, Group, LevelProperty
  <1>6. IsJudgement(f) /\ f.property = "obligation-has-source-provenance" /\ f.target = r.id /\ Group(f.property) = 13
    BY DEF IsJudgement, Test, Judgement, Group, LevelProperty
  <1>7. IsJudgement(g) /\ g.property = "obligation-target-is-declared" /\ g.target = r.id /\ Group(g.property) = 13
    BY DEF IsJudgement, Test, Judgement, Group, LevelProperty
  <1> HIDE DEF a, b, c, e, f, g
  <1>8. QED BY <1>1, <1>2, <1>3, <1>4, <1>5, <1>6, <1>7 DEF Told, Under, JudgesRecord

LEMMA CheckTold ==
    ASSUME NEW d, NEW r, NEW t
    PROVE  Told(CheckJudgements(d, r),
           Under(r.typed,
             {Test("check-has-safe-property", r.id, CitedSpan(d, r), SafeText(r.property)),
               Test("check-has-safe-target", r.id, CitedSpan(d, r), Safe(r.target)),
               Test("check-status-is-known", r.id, CitedSpan(d, r), r.status # "untyped"),
               Test("check-has-evidence", r.id, CitedSpan(d, r), SafeText(r.evidence)),
               Test("check-has-safe-obligation-id", r.id, CitedSpan(d, r), Safe(r.obligation)),
               Test("check-links-known-obligation", r.id, CitedSpan(d, r), Linked(d, r))})
           \cup Under(r.typed /\ Linked(d, r),
             {Test("check-target-matches-obligation", r.id, CitedSpan(d, r), r.property = ByLastId(d.obligations, r.obligation).property
               /\ r.target = ByLastId(d.obligations, r.obligation).target)}))
  <1> DEFINE a == Test("check-has-safe-property", r.id, CitedSpan(d, r), SafeText(r.property))
             b == Test("check-has-safe-target", r.id, CitedSpan(d, r), Safe(r.target))
             c == Test("check-status-is-known", r.id, CitedSpan(d, r), r.status # "untyped")
             e == Test("check-has-evidence", r.id, CitedSpan(d, r), SafeText(r.evidence))
             f == Test("check-has-safe-obligation-id", r.id, CitedSpan(d, r), Safe(r.obligation))
             g == Test("check-links-known-obligation", r.id, CitedSpan(d, r), Linked(d, r))
             h == Test("check-target-matches-obligation", r.id, CitedSpan(d, r), r.property = ByLastId(d.obligations, r.obligation).property
               /\ r.target = ByLastId(d.obligations, r.obligation).target)
  <1>1. CheckJudgements(d, r) = When(r.typed, <<a, b, c, e, f, g>>)
          \o When(r.typed /\ Linked(d, r), <<h>>)
    BY DEF CheckJudgements, CitedSpan, Linked
  <1> HIDE DEF a, b, c, e, f, g, h
  <1>2. /\ Told(<<a, b, c, e, f, g>>, {a, b, c, e, f, g})
        /\ Told(<<h>>, {h})
    BY Written
  <1>3. Told(When(r.typed, <<a, b, c, e, f, g>>), Under(r.typed, {a, b, c, e, f, g}))
    BY <1>2, Conditional
  <1>4. Told(When(r.typed, <<a, b, c, e, f, g>>) \o When(r.typed /\ Linked(d, r), <<h>>),
             Under(r.typed, {a, b, c, e, f, g}) \cup Under(r.typed /\ Linked(d, r), {h}))
    BY <1>2, <1>3, Continued
  <1>5. QED BY <1>1, <1>4 DEF a, b, c, e, f, g, h

LEMMA CheckGroup ==
    ASSUME NEW d, NEW r, NEW t
    PROVE  JudgesRecord(CheckJudgements(d, r), 14, r, "none", t)
  <1> DEFINE a == Test("check-has-safe-property", r.id, CitedSpan(d, r), SafeText(r.property))
             b == Test("check-has-safe-target", r.id, CitedSpan(d, r), Safe(r.target))
             c == Test("check-status-is-known", r.id, CitedSpan(d, r), r.status # "untyped")
             e == Test("check-has-evidence", r.id, CitedSpan(d, r), SafeText(r.evidence))
             f == Test("check-has-safe-obligation-id", r.id, CitedSpan(d, r), Safe(r.obligation))
             g == Test("check-links-known-obligation", r.id, CitedSpan(d, r), Linked(d, r))
             h == Test("check-target-matches-obligation", r.id, CitedSpan(d, r), r.property = ByLastId(d.obligations, r.obligation).property
               /\ r.target = ByLastId(d.obligations, r.obligation).target)
  <1>1. Told(CheckJudgements(d, r), Under(r.typed, {a, b, c, e, f, g})
               \cup Under(r.typed /\ Linked(d, r), {h}))
    BY CheckTold
  <1>2. IsJudgement(a) /\ a.property = "check-has-safe-property" /\ a.target = r.id /\ Group(a.property) = 14
    BY DEF IsJudgement, Test, Judgement, Group, LevelProperty
  <1>3. IsJudgement(b) /\ b.property = "check-has-safe-target" /\ b.target = r.id /\ Group(b.property) = 14
    BY DEF IsJudgement, Test, Judgement, Group, LevelProperty
  <1>4. IsJudgement(c) /\ c.property = "check-status-is-known" /\ c.target = r.id /\ Group(c.property) = 14
    BY DEF IsJudgement, Test, Judgement, Group, LevelProperty
  <1>5. IsJudgement(e) /\ e.property = "check-has-evidence" /\ e.target = r.id /\ Group(e.property) = 14
    BY DEF IsJudgement, Test, Judgement, Group, LevelProperty
  <1>6. IsJudgement(f) /\ f.property = "check-has-safe-obligation-id" /\ f.target = r.id /\ Group(f.property) = 14
    BY DEF IsJudgement, Test, Judgement, Group, LevelProperty
  <1>7. IsJudgement(g) /\ g.property = "check-links-known-obligation" /\ g.target = r.id /\ Group(g.property) = 14
    BY DEF IsJudgement, Test, Judgement, Group, LevelProperty
  <1>8. IsJudgement(h) /\ h.property = "check-target-matches-obligation" /\ h.target = r.id /\ Group(h.property) = 14
    BY DEF IsJudgement, Test, Judgement, Group, LevelProperty
  <1> HIDE DEF a, b, c, e, f, g, h
  <1>9. QED BY <1>1, <1>2, <1>3, <1>4, <1>5, <1>6, <1>7, <1>8 DEF Told, Under, JudgesRecord

LEMMA LevelGroup ==
    ASSUME NEW r, NEW t
    PROVE  LET j == Judgement(LevelProperty, r.id, r.span, IF r.level \in SupportedLevels THEN "Pass" ELSE "Unknown") IN
           /\ Told(When(r.typed, <<j>>), Under(r.typed, {j}))
           /\ JudgesRecord(When(r.typed, <<j>>), 10, r, "none", t)
  <1> DEFINE j == Judgement(LevelProperty, r.id, r.span, IF r.level \in SupportedLevels THEN "Pass" ELSE "Unknown")
  <1>1. IsJudgement(j) /\ j.property = LevelProperty /\ j.target = r.id /\ Group(j.property) = 10
    BY DEF IsJudgement, Judgement, Group, LevelProperty
  <1>2. LevelProperty # "none"
    BY DEF LevelProperty
  <1> HIDE DEF j
  <1>3. Told(When(r.typed, <<j>>), Under(r.typed, {j}))
    BY Written, Conditional
  <1>4. JudgesRecord(When(r.typed, <<j>>), 10, r, "none", t)
    BY <1>1, <1>2, <1>3 DEF Told, Under, JudgesRecord
  <1>5. QED BY <1>3, <1>4 DEF j

LEMMA EdgeGroup ==
    ASSUME NEW d, NEW r, NEW t
    PROVE  LET j == Judgement("edge-has-item-level-source-provenance", r.id, r.span, EdgeStatus(d, r)) IN
           /\ Told(When(IsEdge(r), <<j>>), Under(IsEdge(r), {j}))
           /\ JudgesRecord(When(IsEdge(r), <<j>>), 15, r, "none", t)
  <1> DEFINE j == Judgement("edge-has-item-level-source-provenance", r.id, r.span, EdgeStatus(d, r))
  <1>1. IsJudgement(j) /\ j.property = "edge-has-item-level-source-provenance" /\ j.target = r.id
        /\ Group(j.property) = 15
    BY DEF IsJudgement, Judgement, EdgeStatus, Group, LevelProperty
  <1>2. IsEdge(r) => r.typed
    BY DEF IsEdge
  <1> HIDE DEF j
  <1>3. Told(When(IsEdge(r), <<j>>), Under(IsEdge(r), {j}))
    BY Written, Conditional
  <1>4. JudgesRecord(When(IsEdge(r), <<j>>), 15, r, "none", t)
    BY <1>1, <1>2, <1>3 DEF Told, Under, JudgesRecord
  <1>5. QED BY <1>3, <1>4 DEF j

-----------------------------------------------------------------------------
(* What each step of validation adds. *)

\* The judgements of the records of a list.
FileSet(d) == AllOf([i \in DOMAIN d.files |-> FileJudgements(d.files[i], i)])
SpanSet(d) == AllOf([i \in DOMAIN d.spans |-> SpanJudgements(d, d.spans[i], i)])
IdentitySet(d) ==
    AllOf([i \in DOMAIN d.files |-> FileIdentityJudgements(d, d.files[i])])
    \cup AllOf([i \in DOMAIN d.spans |-> SpanIdentityJudgements(d, d.spans[i])])
SectionSet(d) == AllOf([i \in DOMAIN d.sections |-> SectionJudgements(d, d.sections[i], i)])
ItemSet(d) == AllOf([i \in DOMAIN d.items |-> ItemJudgements(d, d.items[i], i)])
ObjectSet(d) == AllOf([i \in DOMAIN d.objects |-> ObjectJudgements(d, d.objects[i], i)])
LayerSet(obligations, checks) ==
    AllOf([i \in DOMAIN obligations |-> ObligationIdentityJudgements(obligations, obligations[i], i)])
    \cup AllOf([i \in DOMAIN checks |-> CheckIdentityJudgements(checks, checks[i], i)])
LevelSet(d) ==
    AllOf([i \in DOMAIN d.objects |-> LET obj == d.objects[i] IN
        When(obj.typed, <<Judgement(LevelProperty, obj.id, obj.span,
                                    IF obj.level \in SupportedLevels THEN "Pass" ELSE "Unknown")>>)])
QuestionSet(d) == AllOf([i \in DOMAIN d.objects |-> QuestionJudgements(d, d.objects[i])])
ObligationSet(d, obligations) ==
    AllOf([i \in DOMAIN obligations |-> ObligationJudgements(d, obligations, obligations[i])])
CheckSet(d, checks) == AllOf([i \in DOMAIN checks |-> CheckJudgements(d, checks[i])])
EdgeSet(d) ==
    AllOf([i \in DOMAIN d.objects |-> LET obj == d.objects[i] IN
        When(IsEdge(obj), <<Judgement("edge-has-item-level-source-provenance", obj.id, obj.span,
                                      EdgeStatus(d, obj))>>)])

LEMMA FilesAdded ==
    ASSUME NEW d, Fit(d)
    PROVE  Adds(d, ValidatePlainFiles(d), FileSet(d), 1, 1, Proper(d.files))
  <1> DEFINE records == d.files
             malformed == "malformed-plain-file"
             type == "plain-file-has-valid-record-type"
             ss == [i \in DOMAIN records |-> FileJudgements(records[i], i)]
  <1>1. IsList(records) /\ HaveIds(records) /\ IsMadeUp(<<malformed>>)
    BY DEF Fit, RecordLists, IsMadeUp
  <1>2. ValidatePlainFiles(d) = AddJudgements(d, FlattenSeq(ss)) /\ FileSet(d) = AllOf(ss)
    BY DEF ValidatePlainFiles, JudgeEach, OfEach, FileSet
  <1>3. ss = [i \in DOMAIN records |-> ss[i]]
        /\ \A i \in DOMAIN records : JudgesRecord(ss[i], 1, records[i], type, RecordTarget(records[i], malformed, i))
    BY FileGroup
  <1> HIDE DEF records, ss, type, malformed
  <1>4. Tells(FlattenSeq(ss), AllOf(ss), 1, 1, Proper(records))
    BY <1>1, <1>3, TypesTold
  <1>5. QED BY <1>2, <1>4, ToldAreAdded DEF records

LEMMA SpansAdded ==
    ASSUME NEW d, Fit(d)
    PROVE  Adds(d, ValidateSourceSpans(d), SpanSet(d), 2, 2, Proper(d.spans))
  <1> DEFINE records == d.spans
             malformed == "malformed-source-span"
             type == "source-span-has-valid-record-type"
             ss == [i \in DOMAIN records |-> SpanJudgements(d, records[i], i)]
  <1>1. IsList(records) /\ HaveIds(records) /\ IsMadeUp(<<malformed>>)
    BY DEF Fit, RecordLists, IsMadeUp
  <1>2. ValidateSourceSpans(d) = AddJudgements(d, FlattenSeq(ss)) /\ SpanSet(d) = AllOf(ss)
    BY DEF ValidateSourceSpans, JudgeEach, OfEach, SpanSet
  <1>3. ss = [i \in DOMAIN records |-> ss[i]]
        /\ \A i \in DOMAIN records : JudgesRecord(ss[i], 2, records[i], type, RecordTarget(records[i], malformed, i))
    BY SpanGroup
  <1> HIDE DEF records, ss, type, malformed
  <1>4. Tells(FlattenSeq(ss), AllOf(ss), 2, 2, Proper(records))
    BY <1>1, <1>3, TypesTold
  <1>5. QED BY <1>2, <1>4, ToldAreAdded DEF records

LEMMA SectionsAdded ==
    ASSUME NEW d, Fit(d)
    PROVE  Adds(d, ValidateSections(d), SectionSet(d), 5, 5, Proper(d.sections))
  <1> DEFINE records == d.sections
             malformed == "malformed-section"
             type == "section-has-valid-record-type"
             ss == [i \in DOMAIN records |-> SectionJudgements(d, records[i], i)]
  <1>1. IsList(records) /\ HaveIds(records) /\ IsMadeUp(<<malformed>>)
    BY DEF Fit, RecordLists, IsMadeUp
  <1>2. ValidateSections(d) = AddJudgements(d, FlattenSeq(ss)) /\ SectionSet(d) = AllOf(ss)
    BY DEF ValidateSections, JudgeEach, OfEach, SectionSet
  <1>3. ss = [i \in DOMAIN records |-> ss[i]]
        /\ \A i \in DOMAIN records : JudgesRecord(ss[i], 5, records[i], type, RecordTarget(records[i], malformed, i))
    BY SectionGroup
  <1> HIDE DEF records, ss, type, malformed
  <1>4. Tells(FlattenSeq(ss), AllOf(ss), 5, 5, Proper(records))
    BY <1>1, <1>3, TypesTold
  <1>5. QED BY <1>2, <1>4, ToldAreAdded DEF records

LEMMA ItemsAdded ==
    ASSUME NEW d, Fit(d)
    PROVE  Adds(d, ValidateItems(d), ItemSet(d), 6, 6, Proper(d.items))
  <1> DEFINE records == d.items
             malformed == "malformed-item"
             type == "item-has-valid-record-type"
             ss == [i \in DOMAIN records |-> ItemJudgements(d, records[i], i)]
  <1>1. IsList(records) /\ HaveIds(records) /\ IsMadeUp(<<malformed>>)
    BY DEF Fit, RecordLists, IsMadeUp
  <1>2. ValidateItems(d) = AddJudgements(d, FlattenSeq(ss)) /\ ItemSet(d) = AllOf(ss)
    BY DEF ValidateItems, JudgeEach, OfEach, ItemSet
  <1>3. ss = [i \in DOMAIN records |-> ss[i]]
        /\ \A i \in DOMAIN records : JudgesRecord(ss[i], 6, records[i], type, RecordTarget(records[i], malformed, i))
    BY ItemGroup
  <1> HIDE DEF records, ss, type, malformed
  <1>4. Tells(FlattenSeq(ss), AllOf(ss), 6, 6, Proper(records))
    BY <1>1, <1>3, TypesTold
  <1>5. QED BY <1>2, <1>4, ToldAreAdded DEF records

LEMMA ObjectsAdded ==
    ASSUME NEW d, Fit(d)
    PROVE  Adds(d, ValidateObjects(d), ObjectSet(d), 7, 7, Proper(d.objects))
  <1> DEFINE records == d.objects
             malformed == "malformed-object"
             type == "object-has-valid-record-type"
             ss == [i \in DOMAIN records |-> ObjectJudgements(d, records[i], i)]
  <1>1. IsList(records) /\ HaveIds(records) /\ IsMadeUp(<<malformed>>)
    BY DEF Fit, RecordLists, IsMadeUp
  <1>2. ValidateObjects(d) = AddJudgements(d, FlattenSeq(ss)) /\ ObjectSet(d) = AllOf(ss)
    BY DEF ValidateObjects, JudgeEach, OfEach, ObjectSet
  <1>3. ss = [i \in DOMAIN records |-> ss[i]]
        /\ \A i \in DOMAIN records : JudgesRecord(ss[i], 7, records[i], type, RecordTarget(records[i], malformed, i))
    BY ObjectGroup
  <1> HIDE DEF records, ss, type, malformed
  <1>4. Tells(FlattenSeq(ss), AllOf(ss), 7, 7, Proper(records))
    BY <1>1, <1>3, TypesTold
  <1>5. QED BY <1>2, <1>4, ToldAreAdded DEF records

LEMMA QuestionsAdded ==
    ASSUME NEW d, Fit(d)
    PROVE  Adds(d, ValidateQuestionObjects(d), QuestionSet(d), 12, 12, CarriedOnce(d.objects))
  <1> DEFINE records == d.objects
             ss == [i \in DOMAIN records |-> QuestionJudgements(d, records[i])]
  <1>1. IsList(records) /\ HaveIds(records)
    BY DEF Fit, RecordLists
  <1>2. ValidateQuestionObjects(d) = AddJudgements(d, FlattenSeq(ss)) /\ QuestionSet(d) = AllOf(ss)
    BY DEF ValidateQuestionObjects, JudgeEach, OfEach, QuestionSet
  <1>3. ss = [i \in DOMAIN records |-> ss[i]]
        /\ \A i \in DOMAIN records : JudgesRecord(ss[i], 12, records[i], "none", Place(i))
    BY QuestionGroup
  <1> HIDE DEF records, ss
  <1>4. Tells(FlattenSeq(ss), AllOf(ss), 12, 12, CarriedOnce(records))
    BY <1>1, <1>3, OthersTold
  <1>5. QED BY <1>2, <1>4, ToldAreAdded DEF records

LEMMA ObligationsAdded ==
    ASSUME NEW d, Fit(d), NEW obligations, IsList(obligations), HaveIds(obligations)
    PROVE  Adds(d, ValidateObligationRecords(d, obligations), ObligationSet(d, obligations), 13, 13, CarriedOnce(obligations))
  <1> DEFINE records == obligations
             ss == [i \in DOMAIN records |-> ObligationJudgements(d, obligations, records[i])]
  <1>1. IsList(records) /\ HaveIds(records)
    BY DEF Fit, RecordLists
  <1>2. ValidateObligationRecords(d, obligations) = AddJudgements(d, FlattenSeq(ss)) /\ ObligationSet(d, obligations) = AllOf(ss)
    BY DEF ValidateObligationRecords, JudgeEach, OfEach, ObligationSet
  <1>3. ss = [i \in DOMAIN records |-> ss[i]]
        /\ \A i \in DOMAIN records : JudgesRecord(ss[i], 13, records[i], "none", Place(i))
    BY ObligationGroup
  <1> HIDE DEF records, ss
  <1>4. Tells(FlattenSeq(ss), AllOf(ss), 13, 13, CarriedOnce(records))
    BY <1>1, <1>3, OthersTold
  <1>5. QED BY <1>2, <1>4, ToldAreAdded DEF records

LEMMA ChecksAdded ==
    ASSUME NEW d, Fit(d), NEW checks, IsList(checks), HaveIds(checks)
    PROVE  Adds(d, ValidateCheckRecords(d, checks), CheckSet(d, checks), 14, 14, CarriedOnce(checks))
  <1> DEFINE records == checks
             ss == [i \in DOMAIN records |-> CheckJudgements(d, records[i])]
  <1>1. IsList(records) /\ HaveIds(records)
    BY DEF Fit, RecordLists
  <1>2. ValidateCheckRecords(d, checks) = AddJudgements(d, FlattenSeq(ss)) /\ CheckSet(d, checks) = AllOf(ss)
    BY DEF ValidateCheckRecords, JudgeEach, OfEach, CheckSet
  <1>3. ss = [i \in DOMAIN records |-> ss[i]]
        /\ \A i \in DOMAIN records : JudgesRecord(ss[i], 14, records[i], "none", Place(i))
    BY CheckGroup
  <1> HIDE DEF records, ss
  <1>4. Tells(FlattenSeq(ss), AllOf(ss), 14, 14, CarriedOnce(records))
    BY <1>1, <1>3, OthersTold
  <1>5. QED BY <1>2, <1>4, ToldAreAdded DEF records

LEMMA EdgesAdded ==
    ASSUME NEW d, Fit(d)
    PROVE  Adds(d, ValidateEdgeProvenance(d), EdgeSet(d), 15, 15, CarriedOnce(d.objects))
  <1> DEFINE records == d.objects
             ss == [i \in DOMAIN records |-> LET obj == records[i] IN
        When(IsEdge(obj), <<Judgement("edge-has-item-level-source-provenance", obj.id, obj.span,
                                      EdgeStatus(d, obj))>>)]
  <1>1. IsList(records) /\ HaveIds(records)
    BY DEF Fit, RecordLists
  <1>2. ValidateEdgeProvenance(d) = AddJudgements(d, FlattenSeq(ss)) /\ EdgeSet(d) = AllOf(ss)
    BY DEF ValidateEdgeProvenance, JudgeEach, OfEach, EdgeSet
  <1>3. ss = [i \in DOMAIN records |-> ss[i]]
        /\ \A i \in DOMAIN records : JudgesRecord(ss[i], 15, records[i], "none", Place(i))
    BY EdgeGroup
  <1> HIDE DEF records, ss
  <1>4. Tells(FlattenSeq(ss), AllOf(ss), 15, 15, CarriedOnce(records))
    BY <1>1, <1>3, OthersTold
  <1>5. QED BY <1>2, <1>4, ToldAreAdded DEF records

LEMMA LevelsAdded ==
    ASSUME NEW d, Fit(d)
    PROVE  Adds(d, JudgeEach(d, d.objects, LAMBDA i : LET obj == d.objects[i] IN When(obj.typed, <<Judgement(LevelProperty, obj.id, obj.span,
        IF obj.level \in SupportedLevels THEN "Pass" ELSE "Unknown")>>)), LevelSet(d), 10, 10, CarriedOnce(d.objects))
  <1> DEFINE records == d.objects
             ss == [i \in DOMAIN records |-> LET obj == records[i] IN
        When(obj.typed, <<Judgement(LevelProperty, obj.id, obj.span,
                                    IF obj.level \in SupportedLevels THEN "Pass" ELSE "Unknown")>>)]
  <1>1. IsList(records) /\ HaveIds(records)
    BY DEF Fit, RecordLists
  <1>2. JudgeEach(d, d.objects, LAMBDA i : LET obj == d.objects[i] IN When(obj.typed, <<Judgement(LevelProperty, obj.id, obj.span,
        IF obj.level \in SupportedLevels THEN "Pass" ELSE "Unknown")>>)) = AddJudgements(d, FlattenSeq(ss)) /\ LevelSet(d) = AllOf(ss)
    BY DEF JudgeEach, JudgeEach, OfEach, LevelSet
  <1>3. ss = [i \in DOMAIN records |-> ss[i]]
        /\ \A i \in DOMAIN records : JudgesRecord(ss[i], 10, records[i], "none", Place(i))
    BY LevelGroup
  <1> HIDE DEF records, ss
  <1>4. Tells(FlattenSeq(ss), AllOf(ss), 10, 10, CarriedOnce(records))
    BY <1>1, <1>3, OthersTold
  <1>5. QED BY <1>2, <1>4, ToldAreAdded DEF records

IdentitiesProper(d) == CarriedOnce(d.files) /\ CarriedOnce(d.spans)

LEMMA IdentitiesAdded ==
    ASSUME NEW d, Fit(d)
    PROVE  Adds(d, ValidateIdentities(d), IdentitySet(d), 3, 4, IdentitiesProper(d))
  <1> DEFINE ss == [i \in DOMAIN d.files |-> FileIdentityJudgements(d, d.files[i])]
             ts == [i \in DOMAIN d.spans |-> SpanIdentityJudgements(d, d.spans[i])]
  <1>1. IsList(d.files) /\ HaveIds(d.files) /\ IsList(d.spans) /\ HaveIds(d.spans)
    BY DEF Fit, RecordLists
  <1>2. ValidateIdentities(d) = AddJudgements(d, FlattenSeq(ss) \o FlattenSeq(ts))
        /\ IdentitySet(d) = AllOf(ss) \cup AllOf(ts)
    BY DEF ValidateIdentities, OfEach, IdentitySet
  <1>3. ss = [i \in DOMAIN d.files |-> ss[i]]
        /\ \A i \in DOMAIN d.files : JudgesRecord(ss[i], 3, d.files[i], "none", Place(i))
    BY FileIdentityGroup
  <1>4. ts = [i \in DOMAIN d.spans |-> ts[i]]
        /\ \A i \in DOMAIN d.spans : JudgesRecord(ts[i], 4, d.spans[i], "none", Place(i))
    BY SpanIdentityGroup
  <1> HIDE DEF ss, ts
  <1>5. Tells(FlattenSeq(ss), AllOf(ss), 3, 3, CarriedOnce(d.files))
    BY <1>1, <1>3, OthersTold
  <1>6. Tells(FlattenSeq(ts), AllOf(ts), 4, 4, CarriedOnce(d.spans))
    BY <1>1, <1>4, OthersTold
  <1>7. Tells(FlattenSeq(ss) \o FlattenSeq(ts), AllOf(ss) \cup AllOf(ts), 3, 4,
              IdentitiesProper(d))
    <2>0. IdentitiesProper(d) => CarriedOnce(d.files) /\ CarriedOnce(d.spans)
      BY DEF IdentitiesProper
    <2>1. 3 \in Nat /\ 4 \in Nat /\ 3 <= 3 /\ 3 < 4 /\ 4 <= 4
      OBVIOUS
    <2>2. QED BY <1>5, <1>6, <2>0, <2>1, BothTold
  <1>8. QED BY <1>2, <1>7, ToldAreAdded

LayerProper(obligations, checks) == Proper(obligations) /\ Proper(checks)

LEMMA LayerAdded ==
    ASSUME NEW d, Fit(d), NEW obligations, IsList(obligations), HaveIds(obligations),
           NEW checks, IsList(checks), HaveIds(checks)
    PROVE  Adds(d, ValidateLayerIdentities(d, obligations, checks), LayerSet(obligations, checks), 8, 9,
                LayerProper(obligations, checks))
  <1> DEFINE ss == [i \in DOMAIN obligations |-> ObligationIdentityJudgements(obligations, obligations[i], i)]
             ts == [i \in DOMAIN checks |-> CheckIdentityJudgements(checks, checks[i], i)]
             a == "malformed-validation-obligation"
             b == "malformed-check-record"
             p == "validation-obligation-has-valid-record-type"
             q == "check-has-valid-record-type"
  <1>1. IsMadeUp(<<a>>) /\ IsMadeUp(<<b>>)
    BY DEF IsMadeUp
  <1>2. ValidateLayerIdentities(d, obligations, checks) = AddJudgements(d, FlattenSeq(ss) \o FlattenSeq(ts))
        /\ LayerSet(obligations, checks) = AllOf(ss) \cup AllOf(ts)
    BY DEF ValidateLayerIdentities, OfEach, LayerSet
  <1>3. ss = [i \in DOMAIN obligations |-> ss[i]]
        /\ \A i \in DOMAIN obligations : JudgesRecord(ss[i], 8, obligations[i], p, RecordTarget(obligations[i], a, i))
    BY ObligationIdentityGroup
  <1>4. ts = [i \in DOMAIN checks |-> ts[i]]
        /\ \A i \in DOMAIN checks : JudgesRecord(ts[i], 9, checks[i], q, RecordTarget(checks[i], b, i))
    BY CheckIdentityGroup
  <1> HIDE DEF ss, ts, a, b, p, q
  <1>5. Tells(FlattenSeq(ss), AllOf(ss), 8, 8, Proper(obligations))
    BY <1>1, <1>3, TypesTold
  <1>6. Tells(FlattenSeq(ts), AllOf(ts), 9, 9, Proper(checks))
    BY <1>1, <1>4, TypesTold
  <1>7. Tells(FlattenSeq(ss) \o FlattenSeq(ts), AllOf(ss) \cup AllOf(ts), 8, 9,
              LayerProper(obligations, checks))
    <2>0. LayerProper(obligations, checks) => Proper(obligations) /\ Proper(checks)
      BY DEF LayerProper
    <2>1. 8 \in Nat /\ 9 \in Nat /\ 8 <= 8 /\ 8 < 9 /\ 9 <= 9
      OBVIOUS
    <2>2. QED BY <1>5, <1>6, <2>0, <2>1, BothTold
  <1>8. QED BY <1>2, <1>7, ToldAreAdded

-----------------------------------------------------------------------------
(* Facts. *)

\* A fact's target tells the object and the place.
FactPath(id, i, name) == id \o <<"fact">> \o Place(i) \o <<name>>

LEMMA FactTargetsApart ==
    ASSUME NEW a, IsList(a), NEW b, IsList(b), NEW i \in Nat, NEW k \in Nat, NEW x, NEW y,
           FactPath(a, i, x) = FactPath(b, k, y)
    PROVE  a = b /\ i = k
  <1> DEFINE P(t, n, z) == t \o <<"fact">> \o Place(n) \o <<z>>
  <1>1. ASSUME NEW t, IsList(t), NEW n \in Nat, NEW z
        PROVE  LET p == P(t, n, z) IN
               /\ Len(t) \in Nat
               /\ Len(p) = Len(t) + n + 2
               /\ p[Len(t) + 1] = "fact"
               /\ \A m \in (Len(t) + 2)..(Len(t) + n + 1) : p[m] = "|"
               /\ \A m \in 1..Len(t) : p[m] = t[m]
    <2>1. Place(n) \in Seq({"|"}) /\ Len(Place(n)) = n /\ \A m \in 1..n : Place(n)[m] = "|"
      BY DEF Place
    <2>2. PICK S : S = Range(t) \cup {"fact", "|", z}
      OBVIOUS
    <2>3. t \in Seq(S) /\ <<"fact">> \in Seq(S) /\ Place(n) \in Seq(S) /\ <<z>> \in Seq(S)
      <3>1. t \in Seq(S)
        BY <1>1, <2>2 DEF IsList
      <3>2. Place(n) \in Seq(S)
        BY <2>1, <2>2
      <3>3. <<"fact">> \in Seq(S) /\ <<z>> \in Seq(S)
        BY <2>2
      <3>4. QED BY <3>1, <3>2, <3>3
    <2>4. PICK q : q = t \o <<"fact">>
      OBVIOUS
    <2>5. q \in Seq(S) /\ Len(q) = Len(t) + 1 /\ q[Len(t) + 1] = "fact" /\ \A m \in 1..Len(t) : q[m] = t[m]
      BY <2>3, <2>4
    <2>6. PICK r : r = q \o Place(n)
      OBVIOUS
    <2>7. r \in Seq(S) /\ Len(r) = Len(t) + n + 1 /\ (\A m \in 1..(Len(t) + 1) : r[m] = q[m])
          /\ \A m \in (Len(t) + 2)..(Len(t) + n + 1) : r[m] = "|"
      <3>1. Len(t) \in Nat /\ r \in Seq(S) /\ Len(r) = Len(t) + n + 1
        <4>1. Len(t) \in Nat
          BY <2>3
        <4>2. r \in Seq(S) /\ Len(r) = Len(q) + Len(Place(n))
          BY <2>3, <2>5, <2>6, ConcatProperties
        <4>3. QED BY <4>1, <4>2, <2>1, <2>5
      <3>0. \A m \in 1..(Len(q) + Len(Place(n))) :
               r[m] = IF m <= Len(q) THEN q[m] ELSE Place(n)[m - Len(q)]
        BY <2>3, <2>5, <2>6, ConcatProperties
      <3>2. \A m \in 1..(Len(t) + 1) : r[m] = q[m]
        BY <2>1, <2>5, <3>0, <3>1
      <3>3. ASSUME NEW m \in (Len(t) + 2)..(Len(t) + n + 1)
            PROVE  r[m] = "|"
        <4>1. m - Len(q) \in 1..n /\ m \in 1..Len(r) /\ m > Len(q)
          BY <2>5, <3>1
        <4>2. r[m] = Place(n)[m - Len(q)]
          BY <2>5, <3>0, <4>1, <2>1
        <4>3. QED BY <4>1, <4>2, <2>1
      <3>4. QED BY <3>1, <3>2, <3>3
    <2>8. P(t, n, z) = r \o <<z>>
      BY <2>4, <2>6
    <2>9. PICK p : p = r \o <<z>>
      OBVIOUS
    <2>10. Len(p) = Len(t) + n + 2 /\ \A m \in 1..Len(r) : p[m] = r[m]
      <3>1. <<z>> \in Seq(S) /\ r \in Seq(S) /\ Len(<<z>>) = 1 /\ Len(r) \in Nat
        BY <2>3, <2>7
      <3>2. /\ Len(p) = Len(r) + 1
            /\ \A m \in 1..(Len(r) + 1) : p[m] = IF m <= Len(r) THEN r[m] ELSE <<z>>[m - Len(r)]
        BY <3>1, <2>9, ConcatProperties
      <3>3. Len(r) + 1 = Len(t) + n + 2
        BY <2>7, <2>3
      <3>4. QED BY <3>1, <3>2, <3>3
    <2>11. Len(t) \in Nat
      BY <2>3
    <2> HIDE DEF P
    <2>12. QED BY <2>5, <2>7, <2>8, <2>9, <2>10, <2>11
  <1>2. P(a, i, x) = P(b, k, y)
    BY DEF FactPath
  <1> HIDE DEF P
  <1> DEFINE p == P(a, i, x)
  <1>3. /\ Len(a) \in Nat /\ Len(b) \in Nat
        /\ Len(p) = Len(a) + i + 2 /\ Len(p) = Len(b) + k + 2
        /\ p[Len(a) + 1] = "fact" /\ p[Len(b) + 1] = "fact"
        /\ \A m \in (Len(a) + 2)..(Len(a) + i + 1) : p[m] = "|"
        /\ \A m \in (Len(b) + 2)..(Len(b) + k + 1) : p[m] = "|"
        /\ \A m \in 1..Len(a) : p[m] = a[m]
        /\ \A m \in 1..Len(b) : p[m] = b[m]
    BY <1>1, <1>2
  <1> HIDE DEF p
  <1>4. Len(a) = Len(b)
    <2>1. ASSUME Len(a) < Len(b) PROVE FALSE
      <3>1. Len(b) + 1 \in (Len(a) + 2)..(Len(a) + i + 1)
        BY <1>3, <2>1
      <3>2. QED BY <1>3, <3>1
    <2>2. ASSUME Len(b) < Len(a) PROVE FALSE
      <3>1. Len(a) + 1 \in (Len(b) + 2)..(Len(b) + k + 1)
        BY <1>3, <2>2
      <3>2. QED BY <1>3, <3>1
    <2>3. QED BY <2>1, <2>2, <1>3
  <1>5. i = k
    BY <1>3, <1>4
  <1>6. a = b
    BY <1>3, <1>4 DEF IsList
  <1>7. QED BY <1>5, <1>6

LEMMA SameFact ==
    ASSUME NEW o, NEW p, IsList(o.id), IsList(p.id), NEW i \in Nat, NEW k \in Nat,
           FactTarget(o, i) = FactTarget(p, k)
    PROVE  o.id = p.id /\ i = k
  <1>1. PICK x, y : FactTarget(o, i) = FactPath(o.id, i, x) /\ FactTarget(p, k) = FactPath(p.id, k, y)
    BY DEF FactTarget, FactPath
  <1>2. FactPath(o.id, i, x) = FactPath(p.id, k, y)
    BY <1>1
  <1>3. QED BY <1>2, FactTargetsApart

LEMMA FactTold ==
    ASSUME NEW d, NEW r, NEW i
    PROVE  LET f == r.facts[i]
               J(property, status) == Judgement(property, FactTarget(r, i), r.span, status)
               T(property, holds) == Test(property, FactTarget(r, i), r.span, holds) IN
           Told(FactJudgements(d, r, i),
                IF ~PlainFact(f) THEN {J("fact-has-supported-arity", "Fail")}
                ELSE IF ~HasSchema(f) THEN {J("fact-has-supported-arity", "Unknown")}
                ELSE IF ~RightArity(f) THEN {J("fact-has-supported-arity", "Fail")}
                ELSE {J("fact-has-supported-arity", "Pass"),
                      T("fact-arguments-are-backend-safe", \A p \in DOMAIN f.args : SafeArgument(f, p)),
                      T("fact-subject-matches-object", SubjectIsOwner(r, f)),
                      T("fact-references-known-targets",
                        ReferencesResolve(f, SafeIds(d.objects), SafeIds(d.items), SafeIds(d.obligations)))})
  BY Written DEF FactJudgements

FactTells(s, t) ==
    /\ IsList(s)
    /\ \A j \in Range(s) : IsJudgement(j) /\ Group(j.property) = 11 /\ j.target = t
    /\ \A j, k \in Range(s) : j.property = k.property => j = k

LEMMA FactGroup ==
    ASSUME NEW d, NEW r, NEW i
    PROVE  FactTells(FactJudgements(d, r, i), FactTarget(r, i))
  <1> DEFINE J(property, status) == Judgement(property, FactTarget(r, i), r.span, status)
             T(property, holds) == Test(property, FactTarget(r, i), r.span, holds)
             a == J("fact-has-supported-arity", "Fail")
             b == J("fact-has-supported-arity", "Unknown")
             c == J("fact-has-supported-arity", "Pass")
             e == T("fact-arguments-are-backend-safe", \A p \in DOMAIN r.facts[i].args : SafeArgument(r.facts[i], p))
             f == T("fact-subject-matches-object", SubjectIsOwner(r, r.facts[i]))
             g == T("fact-references-known-targets",
                    ReferencesResolve(r.facts[i], SafeIds(d.objects), SafeIds(d.items), SafeIds(d.obligations)))
  <1>1. \E S \in {{a}, {b}, {c, e, f, g}} : Told(FactJudgements(d, r, i), S)
    BY FactTold
  <1>2. \A j \in {a, b, c} : IsJudgement(j) /\ Group(j.property) = 11 /\ j.target = FactTarget(r, i)
                             /\ j.property = "fact-has-supported-arity"
    BY DEF IsJudgement, Judgement, Group, LevelProperty
  <1>3. IsJudgement(e) /\ Group(e.property) = 11 /\ e.target = FactTarget(r, i)
        /\ e.property = "fact-arguments-are-backend-safe"
    BY DEF IsJudgement, Judgement, Test, Group, LevelProperty
  <1>4. IsJudgement(f) /\ Group(f.property) = 11 /\ f.target = FactTarget(r, i)
        /\ f.property = "fact-subject-matches-object"
    BY DEF IsJudgement, Judgement, Test, Group, LevelProperty
  <1>5. IsJudgement(g) /\ Group(g.property) = 11 /\ g.target = FactTarget(r, i)
        /\ g.property = "fact-references-known-targets"
    BY DEF IsJudgement, Judgement, Test, Group, LevelProperty
  <1> HIDE DEF a, b, c, e, f, g
  <1>6. QED BY <1>1, <1>2, <1>3, <1>4, <1>5 DEF FactTells, Told

\* Where the objects of a list carry facts.
Carrying(objects) == {k \in DOMAIN objects : objects[k].typed /\ objects[k].listed}

FactLists(objects) == \A obj \in Range(objects) : IsList(obj.facts)

\* What the facts give rise to, whatever it is.
InOrder(objects, sss) ==
    FlattenSeq([k \in DOMAIN objects |-> When(objects[k].typed /\ objects[k].listed, FlattenSeq(sss[k]))])
OfTheFacts(objects, sss) == UNION {AllOf(sss[k]) : k \in Carrying(objects)}

LEMMA EachFactTold ==
    ASSUME NEW objects, IsList(objects), FactLists(objects),
           NEW sss, \A k \in DOMAIN objects : sss[k] = [i \in DOMAIN objects[k].facts |-> sss[k][i]],
           \A k \in DOMAIN objects : \A i \in DOMAIN objects[k].facts : IsList(sss[k][i])
    PROVE  Told(InOrder(objects, sss), OfTheFacts(objects, sss))
  <1> DEFINE ss == [k \in DOMAIN objects |-> When(objects[k].typed /\ objects[k].listed, FlattenSeq(sss[k]))]
  <1>1. PICK n \in Nat : DOMAIN objects = 1..n
    BY DEF IsList
  <1>2. ASSUME NEW k \in DOMAIN objects
        PROVE  Told(FlattenSeq(sss[k]), AllOf(sss[k]))
    <2>1. IsList(objects[k].facts)
      BY DEF FactLists, Range
    <2>2. PICK m \in Nat : DOMAIN objects[k].facts = 1..m
      BY <2>1 DEF IsList
    <2>3. QED BY <2>2, FlattenedLists
  <1>3. ASSUME NEW k \in DOMAIN objects
        PROVE  Told(ss[k], Under(objects[k].typed /\ objects[k].listed, AllOf(sss[k])))
    BY <1>2, Conditional
  <1>4. ss = [k \in 1..n |-> ss[k]] /\ \A k \in 1..n : IsList(ss[k])
    BY <1>1, <1>3 DEF Told
  <1>5. Told(FlattenSeq(ss), AllOf(ss))
    <2> HIDE DEF ss
    <2>1. QED BY <1>4, FlattenedLists
  <1>6. AllOf(ss) = UNION {AllOf(sss[k]) : k \in Carrying(objects)}
    <2>1. DOMAIN ss = DOMAIN objects
      OBVIOUS
    <2> HIDE DEF ss
    <2>2. \A k \in DOMAIN objects : Range(ss[k]) = IF k \in Carrying(objects) THEN AllOf(sss[k]) ELSE {}
      BY <1>3 DEF Told, Under, Carrying
    <2>3. \A k \in Carrying(objects) : k \in DOMAIN objects
      BY DEF Carrying
    <2>4. \A x : x \in AllOf(ss) <=> \E k \in DOMAIN objects : x \in Range(ss[k])
      BY <2>1 DEF AllOf
    <2>5. QED BY <2>2, <2>3, <2>4
  <1>7. QED BY <1>5, <1>6 DEF InOrder, OfTheFacts

FactSet(d) ==
    UNION {AllOf([i \in DOMAIN d.objects[k].facts |-> FactJudgements(d, d.objects[k], i)]) :
             k \in Carrying(d.objects)}

LEMMA FactsAdded ==
    ASSUME NEW d, Fit(d), FactLists(d.objects)
    PROVE  Adds(d, AddJudgements(d, OfEachFact(d, LAMBDA obj, i : FactJudgements(d, obj, i))), FactSet(d), 11, 11,
                CarriedOnce(d.objects))
  <1> DEFINE sss == [k \in DOMAIN d.objects |->
                       [i \in DOMAIN d.objects[k].facts |-> FactJudgements(d, d.objects[k], i)]]
             js == InOrder(d.objects, sss)
  <1>1. OfEachFact(d, LAMBDA obj, i : FactJudgements(d, obj, i)) = js
    BY DEF OfEachFact, OfEach, InOrder
  <1>2. FactSet(d) = OfTheFacts(d.objects, sss)
        /\ \A j : j \in FactSet(d) <=> \E k \in Carrying(d.objects) : j \in AllOf(sss[k])
    BY DEF FactSet, Carrying, OfTheFacts
  <1>3. \A k \in DOMAIN d.objects : \A i \in DOMAIN d.objects[k].facts :
            FactTells(sss[k][i], FactTarget(d.objects[k], i))
    BY FactGroup
  <1>4. \A k \in DOMAIN d.objects : sss[k] = [i \in DOMAIN d.objects[k].facts |-> sss[k][i]]
    OBVIOUS
  <1>5. IsList(d.objects) /\ HaveIds(d.objects)
    BY DEF Fit, RecordLists
  <1> HIDE DEF sss
  <1>6. Told(js, FactSet(d))
    <2>1. \A k \in DOMAIN d.objects : \A i \in DOMAIN d.objects[k].facts : IsList(sss[k][i])
      BY <1>3 DEF FactTells
    <2>2. IsList(d.objects) /\ FactLists(d.objects)
      BY <1>5
    <2>3. QED BY <1>2, <1>4, <2>1, <2>2, EachFactTold
  <1> HIDE DEF js
  <1>7. ASSUME NEW j \in FactSet(d)
        PROVE  \E k \in Carrying(d.objects) : \E i \in DOMAIN d.objects[k].facts : j \in Range(sss[k][i])
    <2>1. PICK k \in Carrying(d.objects) : j \in AllOf(sss[k])
      BY <1>2
    <2>2. DOMAIN sss[k] = DOMAIN d.objects[k].facts
      BY <1>4, <2>1 DEF Carrying
    <2>3. QED BY <2>1, <2>2 DEF AllOf
  <1>8. ASSUME NEW k \in Carrying(d.objects), NEW i \in DOMAIN d.objects[k].facts
        PROVE  k \in DOMAIN d.objects /\ i \in Nat /\ IsList(d.objects[k].id) /\ d.objects[k].typed
               /\ IsList(FactTarget(d.objects[k], i))
    <2>1. k \in DOMAIN d.objects /\ IsList(d.objects[k].id) /\ d.objects[k].typed
      BY <1>5 DEF Carrying, HaveIds
    <2>2. i \in Nat
      <3>1. IsList(d.objects[k].facts)
        BY <2>1 DEF FactLists, Range
      <3>2. QED BY <3>1 DEF IsList
    <2>3. IsList(FactTarget(d.objects[k], i))
      <3>1. Place(i) \in Seq({"|"})
        BY <2>2 DEF Place
      <3>2. IsList(Place(i))
        BY <3>1, SequenceIsList
      <3>3. \A x : IsList(<<x>>)
        BY Written DEF Told
      <3>4. \A s, t : IsList(s) /\ IsList(t) => IsList(s \o t)
        BY Joined DEF Told
      <3>5. QED BY <2>1, <3>2, <3>3, <3>4 DEF FactTarget
    <2>4. QED BY <2>1, <2>2, <2>3
  <1>9. Judged(FactSet(d), 11, 11)
    <2> SUFFICES ASSUME NEW j \in FactSet(d)
                 PROVE  IsJudgement(j) /\ IsList(j.target) /\ Group(j.property) \in 11..11
      BY DEF Judged
    <2>1. PICK k \in Carrying(d.objects) : \E i \in DOMAIN d.objects[k].facts : j \in Range(sss[k][i])
      BY <1>7
    <2>1a. PICK i \in DOMAIN d.objects[k].facts : j \in Range(sss[k][i])
      BY <2>1
    <2>2. QED BY <2>1a, <1>3, <1>8 DEF FactTells
  <1>10. ASSUME CarriedOnce(d.objects)
         PROVE  OneEach(FactSet(d))
    <2> SUFFICES ASSUME NEW j \in FactSet(d), NEW l \in FactSet(d), j.property = l.property, j.target = l.target
                 PROVE  j.status = l.status
      BY DEF OneEach
    <2>1. PICK k \in Carrying(d.objects) : \E i \in DOMAIN d.objects[k].facts : j \in Range(sss[k][i])
      BY <1>7
    <2>1a. PICK i \in DOMAIN d.objects[k].facts : j \in Range(sss[k][i])
      BY <2>1
    <2>2. PICK m \in Carrying(d.objects) : \E n \in DOMAIN d.objects[m].facts : l \in Range(sss[m][n])
      BY <1>7
    <2>2a. PICK n \in DOMAIN d.objects[m].facts : l \in Range(sss[m][n])
      BY <2>2
    <2>3. FactTarget(d.objects[k], i) = FactTarget(d.objects[m], n)
      BY <2>1a, <2>2a, <1>3, <1>8 DEF FactTells
    <2>4. d.objects[k].id = d.objects[m].id /\ i = n
      <3>1. IsList(d.objects[k].id) /\ IsList(d.objects[m].id) /\ i \in Nat /\ n \in Nat
        BY <1>8
      <3>2. QED BY <2>3, <3>1, SameFact
    <2>5. k = m
      BY <2>4, <1>8, <1>10 DEF CarriedOnce
    <2>6. QED BY <2>1a, <2>2a, <2>4, <2>5, <1>3, <1>8 DEF FactTells
  <1>11. Tells(js, FactSet(d), 11, 11, CarriedOnce(d.objects))
    BY <1>6, <1>9, <1>10 DEF Tells
  <1>12. QED BY <1>1, <1>11, ToldAreAdded

-----------------------------------------------------------------------------
(* Questions. *)

Fresh(d, questions, n) ==
    /\ questions[n].id \notin SafeIds(d.objects)
    /\ \A j \in 1..(n - 1) : questions[j].id # questions[n].id

AskedInTurn(f, d, questions, n) ==
    /\ f[0] = <<>>
    /\ \A k \in 1..n : f[k] = IF Fresh(d, questions, k) THEN Append(f[k - 1], questions[k]) ELSE f[k - 1]

LEMMA QuestionsInTurn ==
    ASSUME NEW d, NEW questions, NEW n \in Nat, Len(questions) = n
    PROVE  \E f : AskedInTurn(f, d, questions, n) /\ FreshQuestions(d, questions) = f[n]
  <1> DEFINE Made(f, m) == f = [k \in 0..m |-> f[k]] /\ AskedInTurn(f, d, questions, m)
             short == {m \in 0..n : ~\E f : Made(f, m)}
  <1>1. short = {}
    <2> SUFFICES ASSUME short # {} PROVE FALSE
      OBVIOUS
    <2>1. PICK m \in short : \A k \in short : m <= k
      <3>1. short \subseteq Nat
        <4>1. short \subseteq 0..n
          OBVIOUS
        <4> HIDE DEF short
        <4>2. QED BY <4>1
      <3> HIDE DEF short
      <3>2. QED BY <3>1, LeastNumber
    <2>m. m \in 0..n
      OBVIOUS
    <2>2. CASE m = 0
      <3> DEFINE g == [k \in 0..0 |-> <<>>]
      <3>1. Made(g, 0)
        BY DEF AskedInTurn
      <3> HIDE DEF g, Made
      <3>2. \E f : Made(f, m)
        BY <2>2, <3>1
      <3>3. QED BY <3>2
    <2>3. CASE m # 0
      <3>1. m - 1 \in 0..n /\ m - 1 \notin short
        <4> HIDE DEF short
        <4>1. m - 1 \in 0..n /\ ~(m <= m - 1)
          BY <2>3, <2>m
        <4>2. QED BY <4>1, <2>1
      <3>2. PICK f : Made(f, m - 1)
        BY <3>1
      <3> DEFINE g == [k \in 0..m |-> IF k = m
                          THEN IF Fresh(d, questions, m) THEN Append(f[m - 1], questions[m]) ELSE f[m - 1]
                          ELSE f[k]]
      <3> HIDE DEF short
      <3>3. g[0] = <<>>
        BY <3>2, <2>3, <2>m DEF AskedInTurn
      <3>4. ASSUME NEW k \in 1..m
            PROVE  g[k] = IF Fresh(d, questions, k) THEN Append(g[k - 1], questions[k]) ELSE g[k - 1]
        <4>1. k \in 0..m /\ k - 1 \in 0..m /\ k - 1 # m
          BY <2>m
        <4>2. CASE k = m
          BY <4>1, <4>2
        <4>3. CASE k # m
          <5>1. k \in 1..(m - 1)
            BY <2>m, <4>3
          <5>2. QED BY <4>1, <4>3, <5>1, <3>2 DEF AskedInTurn
        <4>4. QED BY <4>2, <4>3
      <3>5. g = [k \in 0..m |-> g[k]]
        OBVIOUS
      <3> HIDE DEF g
      <3>6. Made(g, m)
        BY <3>3, <3>4, <3>5 DEF AskedInTurn
      <3> HIDE DEF Made
      <3>7. QED BY <3>6, <2>1 DEF short
    <2>4. QED BY <2>2, <2>3
  <1>2. PICK f : Made(f, n)
    <2>1. n \in 0..n
      OBVIOUS
    <2> HIDE DEF Made
    <2>2. QED BY <1>1, <2>1
  <1> HIDE DEF short
  <1> DEFINE asked == CHOOSE g : g = [k \in 0..Len(questions) |->
                          IF k = 0 THEN <<>>
                          ELSE IF Fresh(d, questions, k) THEN Append(g[k - 1], questions[k]) ELSE g[k - 1]]
  <1>3. f = [k \in 0..Len(questions) |-> IF k = 0 THEN <<>>
               ELSE IF Fresh(d, questions, k) THEN Append(f[k - 1], questions[k]) ELSE f[k - 1]]
    <2>1. \A k \in 0..n : f[k] = IF k = 0 THEN <<>>
               ELSE IF Fresh(d, questions, k) THEN Append(f[k - 1], questions[k]) ELSE f[k - 1]
      <3>1. \A k \in 0..n : k # 0 => k \in 1..n
        OBVIOUS
      <3>2. QED BY <1>2, <3>1 DEF AskedInTurn
    <2>2. QED BY <1>2, <2>1
  <1>4. asked = [k \in 0..Len(questions) |-> IF k = 0 THEN <<>>
               ELSE IF Fresh(d, questions, k) THEN Append(asked[k - 1], questions[k]) ELSE asked[k - 1]]
    BY <1>3
  <1>5. FreshQuestions(d, questions) = asked[n]
    <2>1. FreshQuestions(d, questions) = asked[Len(questions)]
      BY DEF FreshQuestions, Fresh
    <2>2. QED BY <2>1
  <1> HIDE DEF asked
  <1>6. \A k \in 0..n : asked[k] = IF k = 0 THEN <<>>
               ELSE IF Fresh(d, questions, k) THEN Append(asked[k - 1], questions[k]) ELSE asked[k - 1]
    <2>1. asked = [k \in 0..n |-> IF k = 0 THEN <<>>
               ELSE IF Fresh(d, questions, k) THEN Append(asked[k - 1], questions[k]) ELSE asked[k - 1]]
      BY <1>4
    <2>2. QED BY <2>1
  <1>7. AskedInTurn(asked, d, questions, n)
    <2>1. 0 \in 0..n /\ \A k \in 1..n : k \in 0..n /\ k # 0
      OBVIOUS
    <2>2. QED BY <1>6, <2>1 DEF AskedInTurn
  <1>8. QED BY <1>5, <1>7

\* Every identity the document does not have is asked once.
AreAsked(fresh, d, questions, n) ==
    /\ IsList(fresh)
    /\ \A q \in Range(fresh) : q.id \notin SafeIds(d.objects) /\ \E k \in 1..n : q = questions[k]
    /\ \A i, k \in DOMAIN fresh : fresh[i].id = fresh[k].id => i = k
    /\ \A k \in 1..n : questions[k].id \in SafeIds(d.objects) \/ \E q \in Range(fresh) : q.id = questions[k].id

LEMMA QuestionsAsked ==
    ASSUME NEW d, NEW questions, IsList(questions)
    PROVE  AreAsked(FreshQuestions(d, questions), d, questions, Len(questions))
  <1> DEFINE n == Len(questions)
  <1>1. n \in Nat
    BY DEF IsList
  <1> HIDE DEF n
  <1>2. PICK f : AskedInTurn(f, d, questions, n) /\ FreshQuestions(d, questions) = f[n]
    <2>1. Len(questions) = n
      BY DEF n
    <2>2. QED BY <1>1, <2>1, QuestionsInTurn
  <1> DEFINE Holds(k) == AreAsked(f[k], d, questions, k)
             wrong == {k \in 0..n : ~Holds(k)}
  <1>3. Holds(0)
    BY <1>2 DEF AskedInTurn, AreAsked, IsList, Range
  <1>4. ASSUME NEW k \in 1..n, Holds(k - 1)
        PROVE  Holds(k)
    <2> DEFINE s == f[k - 1]
               q == questions[k]
    <2>1. f[k] = IF Fresh(d, questions, k) THEN Append(s, q) ELSE s
      BY <1>2 DEF AskedInTurn
    <2>2. AreAsked(s, d, questions, k - 1)
      BY <1>4
    <2>3. 1..k = 1..(k - 1) \cup {k}
      BY <1>1
    <2> HIDE DEF s
    <2>4. CASE ~Fresh(d, questions, k)
      <3>1. q.id \in SafeIds(d.objects) \/ \E j \in 1..(k - 1) : questions[j].id = q.id
        BY <2>4 DEF Fresh
      <3>2. q.id \in SafeIds(d.objects) \/ \E x \in Range(s) : x.id = q.id
        BY <3>1, <2>2 DEF AreAsked
      <3> HIDE DEF q
      <3>3. AreAsked(s, d, questions, k)
        BY <2>2, <2>3, <3>2 DEF AreAsked, q
      <3>4. QED BY <2>1, <2>4, <3>3
    <2>5. CASE Fresh(d, questions, k)
      <3> DEFINE t == Append(s, q)
      <3>1. \A x \in Range(s) : x.id # q.id
        BY <2>2, <2>5 DEF AreAsked, Fresh
      <3>2. IsList(t) /\ DOMAIN t = DOMAIN s \cup {Len(s) + 1} /\ Len(s) + 1 \notin DOMAIN s
            /\ t[Len(s) + 1] = q /\ \A i \in DOMAIN s : t[i] = s[i]
        <4>1. PICK S : S = Range(s) \cup {q}
          OBVIOUS
        <4>2. s \in Seq(S) /\ q \in S
          BY <4>1, <2>2 DEF AreAsked, IsList
        <4> HIDE DEF q
        <4>3. t \in Seq(S)
          BY <4>2
        <4>4. DOMAIN t = DOMAIN s \cup {Len(s) + 1} /\ Len(s) + 1 \notin DOMAIN s
            /\ t[Len(s) + 1] = q /\ \A i \in DOMAIN s : t[i] = s[i]
          BY <4>2
        <4> HIDE DEF t
        <4>5. QED BY <4>3, <4>4, SequenceIsList
      <3> HIDE DEF t
      <3>3. Range(t) = Range(s) \cup {q}
        BY <3>2 DEF Range
      <3>4. \A i, m \in DOMAIN t : t[i].id = t[m].id => i = m
        <4>1. \A i \in DOMAIN s : s[i].id # q.id
          BY <3>1 DEF Range
        <4>2. \A i, m \in DOMAIN s : s[i].id = s[m].id => i = m
          BY <2>2 DEF AreAsked
        <4> HIDE DEF q
        <4>3. QED BY <3>2, <4>1, <4>2
      <3>5. q.id \notin SafeIds(d.objects)
        BY <2>5 DEF Fresh
      <3>6. AreAsked(t, d, questions, k)
        BY <3>2, <3>3, <3>4, <3>5, <2>2, <2>3 DEF AreAsked
      <3>7. QED BY <3>6, <2>1, <2>5 DEF t
    <2>6. QED BY <2>4, <2>5
  <1>5. wrong = {}
    <2> SUFFICES ASSUME wrong # {} PROVE FALSE
      OBVIOUS
    <2> HIDE DEF Holds
    <2>1. PICK k \in wrong : \A i \in wrong : k <= i
      <3>1. wrong \subseteq Nat
        <4>1. wrong \subseteq 0..n
          OBVIOUS
        <4> HIDE DEF wrong
        <4>2. QED BY <4>1, <1>1
      <3> HIDE DEF wrong
      <3>2. QED BY <3>1, LeastNumber
    <2>2. k # 0
      BY <1>3
    <2>3. k \in 1..n /\ k - 1 \in 0..n /\ k - 1 \notin wrong
      <3>1. k \in 0..n
        OBVIOUS
      <3> HIDE DEF wrong
      <3>2. k \in 1..n /\ k - 1 \in 0..n /\ ~(k <= k - 1)
        BY <3>1, <2>2, <1>1
      <3>3. QED BY <3>2, <2>1
    <2>4. QED BY <2>3, <1>4
  <1>6. Holds(n)
    <2>1. n \in 0..n
      BY <1>1
    <2> HIDE DEF Holds
    <2>2. QED BY <2>1, <1>5
  <1>7. QED BY <1>2, <1>6 DEF n

-----------------------------------------------------------------------------
(* One answer for each obligation. *)

\* A sequence is what it is added to.
LEMMA Appended ==
    ASSUME NEW base, IsList(base), NEW a, IsList(a)
    PROVE  Added(base \o a, base) = a
  <1>1. PICK C : C = Range(base) \cup Range(a)
    OBVIOUS
  <1>2. base \in Seq(C) /\ a \in Seq(C) /\ Len(base) \in Nat /\ Len(a) \in Nat
    BY <1>1 DEF IsList
  <1>3. PICK s : s = base \o a
    OBVIOUS
  <1>4. /\ s \in Seq(C) /\ Len(s) = Len(base) + Len(a)
        /\ \A i \in 1..(Len(base) + Len(a)) : s[i] = IF i <= Len(base) THEN base[i] ELSE a[i - Len(base)]
    BY <1>2, <1>3, ConcatProperties
  <1>5. PICK t : t = SubSeq(s, Len(base) + 1, Len(s))
    OBVIOUS
  <1>6. t = [i \in 1..Len(a) |-> s[i + Len(base)]]
    <2>1. t = [i \in 1..(Len(s) - (Len(base) + 1) + 1) |-> s[i + (Len(base) + 1) - 1]]
      BY <1>2, <1>4, <1>5
    <2>2. Len(s) - (Len(base) + 1) + 1 = Len(a) /\ \A i \in 1..Len(a) : i + (Len(base) + 1) - 1 = i + Len(base)
      BY <1>2, <1>4
    <2>3. QED BY <2>1, <2>2
  <1>7. \A i \in 1..Len(a) : s[i + Len(base)] = a[i]
    BY <1>2, <1>4
  <1>8. t = a
    BY <1>2, <1>6, <1>7
  <1>9. QED BY <1>3, <1>5, <1>8 DEF Added

LEMMA After ==
    ASSUME NEW base, IsList(base), NEW a, IsList(a), NEW b, IsList(b)
    PROVE  (base \o a) \o b = base \o (a \o b)
  <1>1. PICK C : C = Range(base) \cup Range(a) \cup Range(b)
    OBVIOUS
  <1>2. base \in Seq(C) /\ a \in Seq(C) /\ b \in Seq(C)
    BY <1>1 DEF IsList
  <1>3. QED BY <1>2, ConcatAssociative

LEMMA BothLists ==
    ASSUME NEW a, IsList(a), NEW b, IsList(b)
    PROVE  IsList(a \o b) /\ Range(a \o b) = Range(a) \cup Range(b)
  <1>1. Told(a, Range(a)) /\ Told(b, Range(b))
    BY DEF Told
  <1>2. Told(a \o b, Range(a) \cup Range(b))
    BY <1>1, Joined
  <1>3. QED BY <1>2 DEF Told

\* A list, and more of it.
Longer(t, s, more) == IsList(s) /\ IsList(more) /\ t = s \o more

LEMMA LongerStill ==
    ASSUME NEW s, NEW t, NEW u, NEW a, NEW b, Longer(t, s, a), Longer(u, t, b)
    PROVE  /\ Longer(u, s, a \o b)
           /\ Range(a \o b) = Range(a) \cup Range(b)
  <1>1. IsList(s) /\ IsList(a) /\ IsList(b) /\ u = (s \o a) \o b
    BY DEF Longer
  <1>2. (s \o a) \o b = s \o (a \o b)
    BY <1>1, After
  <1>3. QED BY <1>1, <1>2, BothLists DEF Longer

LEMMA SamePrefix ==
    ASSUME NEW s, IsList(s), NEW t, IsList(t), NEW u, IsList(u), s \o t = s \o u
    PROVE  t = u
  <1>1. Added(s \o t, s) = t /\ Added(s \o u, s) = u
    BY Appended
  <1>2. QED BY <1>1

LEMMA SameObligation ==
    ASSUME NEW p, NEW q, NEW t, IsList(t), NEW u, IsList(u), ObligationId(p, t) = ObligationId(q, u)
    PROVE  p = q /\ t = u
  <1>1. IsList(<<"vobl", p>>) /\ IsList(<<"vobl", q>>)
    BY Written DEF Told
  <1>2. ASSUME NEW x, NEW v, IsList(v)
        PROVE  (<<"vobl", x>> \o v)[2] = x
    <2>1. PICK C : C = Range(v) \cup {"vobl", x}
      OBVIOUS
    <2>2. v \in Seq(C)
      BY <1>2, <2>1 DEF IsList
    <2>3. QED BY <2>1, <2>2
  <1>3. p = q
    BY <1>2 DEF ObligationId
  <1>4. QED BY <1>1, <1>3, SamePrefix DEF ObligationId

IsAnswer(c) == IsList(c.target) /\ c.obligation = ObligationId(c.property, c.target)

LEMMA JudgementsAnswer ==
    ASSUME NEW j, IsList(j.target)
    PROVE  /\ IsAnswer(CheckOf(j))
           /\ <<CheckOf(j).property, CheckOf(j).target, CheckOf(j).status>> = <<j.property, j.target, j.status>>
  BY DEF IsAnswer, CheckOf, Check

\* A list and a longer one.
LEMMA CarriedOncePrefix ==
    ASSUME NEW s, IsList(s), NEW t, IsList(t), CarriedOnce(s \o t)
    PROVE  CarriedOnce(s)
  <1>1. PICK C : C = Range(s) \cup Range(t)
    OBVIOUS
  <1>2. s \in Seq(C) /\ t \in Seq(C)
    BY <1>1 DEF IsList
  <1>3. PICK u : u = s \o t
    OBVIOUS
  <1>4. Len(s) \in Nat /\ Len(t) \in Nat /\ Len(u) = Len(s) + Len(t) /\ \A i \in 1..Len(s) : u[i] = s[i]
    BY <1>2, <1>3, ConcatProperties
  <1>5. DOMAIN s = 1..Len(s) /\ DOMAIN u = 1..Len(u)
    BY <1>2, <1>3
  <1>6. QED BY <1>3, <1>4, <1>5 DEF CarriedOnce

-----------------------------------------------------------------------------
(* The answers a document has been given. *)

\* The identities of the document d that came with the layer e.
CarriedOnceIn(d, e) ==
    /\ CarriedOnce(d.files) /\ CarriedOnce(d.spans) /\ CarriedOnce(d.sections) /\ CarriedOnce(d.items)
    /\ CarriedOnce(d.objects) /\ CarriedOnce(e.obligations) /\ CarriedOnce(e.checks)

\* A layer that came with a document, and the names in the document.
IsLayer(e) ==
    /\ IsList(e.obligations) /\ HaveIds(e.obligations) /\ NoneMadeUp(e.obligations)
    /\ IsList(e.checks) /\ HaveIds(e.checks) /\ NoneMadeUp(e.checks)

NoNamesMadeUp(d) ==
    /\ NoneMadeUp(d.files) /\ NoneMadeUp(d.spans) /\ NoneMadeUp(d.sections) /\ NoneMadeUp(d.items)

OneAnswerEach(a) == \A x, y \in Range(a) : x.obligation = y.obligation => x = y

\* d is a document as far as the judgements of the group n; the answers a
\* were added.
Answered(d, e, n, a) ==
    /\ IsList(a)
    /\ d.checks = e.checks \o a
    /\ \A c \in Range(a) : IsAnswer(c) /\ Group(c.property) \in 1..n
    /\ CarriedOnceIn(d, e) => OneAnswerEach(a)

Judging(d, e, n) ==
    /\ Fit(d) /\ FactLists(d.objects) /\ NoNamesMadeUp(d)
    /\ IsLayer(e)
    /\ \E a : Answered(d, e, n, a)

LEMMA AnswersAdded ==
    ASSUME NEW d, NEW e, IsList(e.checks), NEW n \in Nat, NEW a, Answered(d, e, n, a),
           NEW r, NEW K, NEW first \in Nat, NEW last \in Nat, NEW p, Adds(d, r, K, first, last, p),
           n < first, first <= last, CarriedOnceIn(d, e) => p
    PROVE  \E b : Answered(r, e, last, b)
  <1>1. PICK S : S = {CheckOf(j) : j \in K}
    OBVIOUS
  <1>2. PICK cs \in Seq(S) : r.checks = d.checks \o cs
    BY <1>1 DEF Adds, Extended
  <1>3. IsList(cs) /\ Range(cs) \subseteq S
    BY SequenceIsList DEF Range
  <1>4. PICK b : b = a \o cs
    OBVIOUS
  <1>5. r.checks = e.checks \o b /\ IsList(b) /\ Range(b) = Range(a) \cup Range(cs)
    <2>1. Longer(d.checks, e.checks, a)
      BY DEF Answered, Longer
    <2>2. Longer(r.checks, d.checks, cs)
      <3>1. IsList(d.checks)
        BY <2>1, BothLists DEF Longer
      <3>2. QED BY <3>1, <1>2, <1>3 DEF Longer
    <2>3. Longer(r.checks, e.checks, a \o cs)
      BY <2>1, <2>2, LongerStill
    <2>4. Range(a \o cs) = Range(a) \cup Range(cs)
      BY <2>1, <2>2, BothLists DEF Longer
    <2>5. Longer(r.checks, e.checks, b) /\ Range(b) = Range(a) \cup Range(cs)
      BY <2>3, <2>4, <1>4
    <2>6. QED BY <2>2, <2>5, <1>4, BothLists DEF Longer
  <1>6. ASSUME NEW c \in Range(cs)
        PROVE  \E j \in K : /\ IsAnswer(c) /\ IsList(j.target) /\ c = CheckOf(j)
                            /\ <<c.property, c.target, c.status>> = <<j.property, j.target, j.status>>
                            /\ Group(c.property) \in first..last
    <2>1. PICK j \in K : c = CheckOf(j)
      BY <1>1, <1>3
    <2>2. IsList(j.target) /\ Group(j.property) \in first..last
      BY DEF Adds, Judged
    <2>3. QED BY <2>1, <2>2, JudgementsAnswer
  <1>7. \A c \in Range(b) : IsAnswer(c) /\ Group(c.property) \in 1..last
    <2>1. \A c \in Range(a) : IsAnswer(c) /\ Group(c.property) \in 1..n
      BY DEF Answered
    <2>2. 1..n \subseteq 1..last /\ first..last \subseteq 1..last
      OBVIOUS
    <2>3. QED BY <1>5, <1>6, <2>1, <2>2
  <1>8. <<r.files, r.spans, r.sections, r.items, r.objects>> = <<d.files, d.spans, d.sections, d.items, d.objects>>
    BY DEF Adds, Extended
  <1>9. ASSUME CarriedOnceIn(r, e), NEW x \in Range(b), NEW y \in Range(b), x.obligation = y.obligation
        PROVE  x = y
    <2>1. CarriedOnceIn(d, e)
      BY <1>8, <1>9 DEF CarriedOnceIn
    <2>2. x.property = y.property /\ x.target = y.target
      BY <1>7, <1>9, SameObligation DEF IsAnswer
    <2>3. (x \in Range(a) /\ y \in Range(a)) \/ (x \in Range(cs) /\ y \in Range(cs))
      <3>1. \A c \in Range(a) : Group(c.property) \in 1..n
        BY DEF Answered
      <3>2. \A c \in Range(cs) : Group(c.property) \in first..last
        BY <1>6
      <3>3. \A m \in 1..n : m \notin first..last
        OBVIOUS
      <3>4. QED BY <1>5, <2>2, <3>1, <3>2, <3>3
    <2>4. CASE x \in Range(a) /\ y \in Range(a)
      BY <2>4, <2>1, <1>9 DEF Answered, OneAnswerEach
    <2>5. CASE x \in Range(cs) /\ y \in Range(cs)
      <3>1. PICK j \in K : x = CheckOf(j) /\ <<x.property, x.target, x.status>> = <<j.property, j.target, j.status>>
        BY <1>6, <2>5
      <3>2. PICK k \in K : y = CheckOf(k) /\ <<y.property, y.target, y.status>> = <<k.property, k.target, k.status>>
        BY <1>6, <2>5
      <3>3. j.property = k.property /\ j.target = k.target
        BY <2>2, <3>1, <3>2
      <3>4. j.status = k.status
        BY <3>3, <2>1 DEF Adds, OneEach
      <3>5. CheckOf(j) = CheckOf(k)
        BY <3>3, <3>4 DEF CheckOf
      <3>6. QED BY <3>1, <3>2, <3>5
    <2>6. QED BY <2>3, <2>4, <2>5
  <1>10. Answered(r, e, last, b)
    BY <1>5, <1>7, <1>9 DEF Answered, OneAnswerEach
  <1>11. QED BY <1>10

LEMMA JudgedFurther ==
    ASSUME NEW d, NEW e, NEW n \in Nat, Judging(d, e, n),
           NEW r, NEW K, NEW first \in Nat, NEW last \in Nat, NEW p, Adds(d, r, K, first, last, p),
           n < first, first <= last, CarriedOnceIn(d, e) => p
    PROVE  Judging(r, e, last)
  <1>1. \E b : Answered(r, e, last, b)
    BY AnswersAdded DEF Judging, IsLayer
  <1>2. <<r.files, r.spans, r.sections, r.items, r.objects>> = <<d.files, d.spans, d.sections, d.items, d.objects>>
        /\ IsDocument(r)
    BY DEF Adds, Extended
  <1>3. IsList(r.checks) /\ IsList(r.obligations)
    <2>1. PICK S : \E s \in Seq(S) : r.checks = d.checks \o s
      BY DEF Adds, Extended
    <2>2. PICK s \in Seq(S) : r.checks = d.checks \o s
      BY <2>1
    <2>3. PICK T : \E t \in Seq(T) : r.obligations = d.obligations \o t
      BY DEF Adds, Extended
    <2>4. PICK t \in Seq(T) : r.obligations = d.obligations \o t
      BY <2>3
    <2>5. IsList(s) /\ IsList(t)
      BY SequenceIsList
    <2>6. IsList(d.checks) /\ IsList(d.obligations)
      BY DEF Judging, Fit, RecordLists
    <2>7. ASSUME NEW x, IsList(x), NEW y, IsList(y)
          PROVE  IsList(x \o y)
      BY <2>7, BothLists
    <2>8. QED BY <2>2, <2>4, <2>5, <2>6, <2>7
  <1>4. Fit(r)
    BY <1>2, <1>3 DEF Judging, Fit, RecordLists
  <1>5. QED BY <1>1, <1>2, <1>4 DEF Judging, NoNamesMadeUp

\* Records whose identities and facts are lists.
LEMMA ObjectsFit ==
    ASSUME NEW d, NEW e, NEW n, Judging(d, e, n),
           NEW objects, IsList(objects), HaveIds(objects), FactLists(objects)
    PROVE  Judging(AddObjects(d, objects), e, n)
  <1>1. PICK x : x = d.objects \o objects
    OBVIOUS
  <1>2. PICK r : r = AddObjects(d, objects)
    OBVIOUS
  <1>3. IsDocument(d) /\ IsList(d.objects) /\ HaveIds(d.objects) /\ FactLists(d.objects)
    BY DEF Judging, Fit, RecordLists
  <1>4. r = [files |-> d.files, spans |-> d.spans, sections |-> d.sections, items |-> d.items,
             objects |-> x, obligations |-> d.obligations, checks |-> d.checks,
             obligationIds |-> d.obligationIds, checkIds |-> d.checkIds]
    <2>1. r = [d EXCEPT !.objects = x]
      BY <1>1, <1>2 DEF AddObjects
    <2>2. QED BY <2>1, <1>3 DEF IsDocument
  <1>5. IsDocument(r)
    BY <1>4 DEF IsDocument
  <1>6. IsList(x) /\ Range(x) = Range(d.objects) \cup Range(objects)
    <2>1. PICK o : o = d.objects
      OBVIOUS
    <2>2. QED BY <2>1, <1>1, <1>3, BothLists
  <1>7. FactLists(x)
    BY <1>3, <1>6 DEF FactLists
  <1>8. HaveIds(x)
    <2>1. \A s : HaveIds(s) <=> \A y \in Range(s) : y.typed => IsList(y.id)
      BY DEF HaveIds, Range
    <2>2. QED BY <2>1, <1>3, <1>6
  <1>9. Fit(r)
    BY <1>4, <1>5, <1>6, <1>8 DEF Judging, Fit, RecordLists
  <1>10. CarriedOnceIn(r, e) => CarriedOnceIn(d, e)
    <2>1. CarriedOnce(x) => CarriedOnce(d.objects)
      <3>1. PICK o : o = d.objects
        OBVIOUS
      <3>2. QED BY <3>1, <1>1, <1>3, CarriedOncePrefix
    <2>2. QED BY <1>4, <2>1 DEF CarriedOnceIn
  <1>11. \A a : Answered(d, e, n, a) => Answered(r, e, n, a)
    BY <1>4, <1>10 DEF Answered
  <1>12. QED BY <1>2, <1>4, <1>7, <1>9, <1>11 DEF Judging, NoNamesMadeUp

-----------------------------------------------------------------------------
(* What is asked. *)

\* The questions Q that are new to d are asked, each identity once.
AsksEach(fresh, d, Q) ==
    /\ IsList(fresh)
    /\ Range(fresh) \subseteq Q
    /\ \A q \in Range(fresh) : q.id \notin SafeIds(d.objects)
    /\ \A i, k \in DOMAIN fresh : fresh[i].id = fresh[k].id => i = k
    /\ \A q \in Q : q.id \in SafeIds(d.objects) \/ \E f \in Range(fresh) : f.id = q.id

LEMMA EachAsked ==
    ASSUME NEW d, NEW questions, NEW Q, Told(questions, Q)
    PROVE  AsksEach(FreshQuestions(d, questions), d, Q)
  <1>1. PICK fresh : fresh = FreshQuestions(d, questions)
    OBVIOUS
  <1>2. AreAsked(fresh, d, questions, Len(questions))
    BY <1>1, QuestionsAsked DEF Told
  <1>3. DOMAIN questions = 1..Len(questions)
    BY DEF Told, IsList
  <1>4. Q = {questions[k] : k \in 1..Len(questions)}
    BY <1>3 DEF Told, Range
  <1>5. AsksEach(fresh, d, Q)
    BY <1>2, <1>4 DEF AreAsked, AsksEach
  <1>6. QED BY <1>1, <1>5

Unsupported(obj) == obj.typed /\ obj.level \notin SupportedLevels
LevelQuestions(objects) == {LevelQuestion(obj) : obj \in {o \in Range(objects) : Unsupported(o)}}

\* Facts of the object no schema is known for.
Schemaless(obj) == {i \in DOMAIN obj.facts : PlainFact(obj.facts[i]) /\ ~HasSchema(obj.facts[i])}
Asking(objects) == {obj \in Range(objects) : obj.typed /\ obj.listed}
FactQuestions(objects) == UNION {{PredicateQuestion(obj, i) : i \in Schemaless(obj)} : obj \in Asking(objects)}

LEMMA LevelsTold ==
    ASSUME NEW objects, IsList(objects)
    PROVE  Told(FlattenSeq([i \in DOMAIN objects |-> LET obj == objects[i] IN
                    When(obj.typed /\ obj.level \notin SupportedLevels, <<LevelQuestion(obj)>>)]),
                LevelQuestions(objects))
  <1> DEFINE ss == [i \in DOMAIN objects |-> LET obj == objects[i] IN
                       When(obj.typed /\ obj.level \notin SupportedLevels, <<LevelQuestion(obj)>>)]
  <1>1. PICK n \in Nat : DOMAIN objects = 1..n
    BY DEF IsList
  <1>2. ASSUME NEW i \in DOMAIN objects
        PROVE  Told(ss[i], Under(Unsupported(objects[i]), {LevelQuestion(objects[i])}))
    <2>1. PICK q : q = LevelQuestion(objects[i])
      OBVIOUS
    <2>2. PICK b : b = objects[i]
      OBVIOUS
    <2>3. Told(When(b.typed /\ b.level \notin SupportedLevels, <<q>>),
               Under(b.typed /\ b.level \notin SupportedLevels, {q}))
      BY Written, Conditional
    <2>4. ss[i] = When(b.typed /\ b.level \notin SupportedLevels, <<q>>)
      BY <2>1, <2>2
    <2>5. Under(b.typed /\ b.level \notin SupportedLevels, {q}) = Under(Unsupported(b), {q})
      BY DEF Under, Unsupported
    <2>6. QED BY <2>1, <2>2, <2>3, <2>4, <2>5
  <1>3. ss = [i \in 1..n |-> ss[i]]
    BY <1>1
  <1> HIDE DEF ss
  <1>4. \A i \in 1..n : IsList(ss[i])
    BY <1>1, <1>2 DEF Told
  <1>5. Told(FlattenSeq(ss), AllOf(ss))
    BY <1>3, <1>4, FlattenedLists
  <1>6. AllOf(ss) = LevelQuestions(objects)
    <2>1. DOMAIN ss = DOMAIN objects
      BY <1>1, <1>3
    <2>2. \A i \in DOMAIN objects :
             Range(ss[i]) = IF Unsupported(objects[i]) THEN {LevelQuestion(objects[i])} ELSE {}
      BY <1>2 DEF Told, Under
    <2>3. \A q : q \in AllOf(ss) <=> \E i \in DOMAIN objects : q \in Range(ss[i])
      BY <2>1 DEF AllOf
    <2>4. \A q : q \in LevelQuestions(objects) <=>
                   \E i \in DOMAIN objects : Unsupported(objects[i]) /\ q = LevelQuestion(objects[i])
      BY DEF LevelQuestions, Range
    <2>5. \A q : \A i \in DOMAIN objects :
             q \in Range(ss[i]) <=> Unsupported(objects[i]) /\ q = LevelQuestion(objects[i])
      BY <2>2
    <2>6. \A q : q \in AllOf(ss) <=> q \in LevelQuestions(objects)
      BY <2>3, <2>4, <2>5
    <2>7. QED BY <2>6
  <1>7. QED BY <1>5, <1>6 DEF ss

LEMMA FactsTold ==
    ASSUME NEW objects, IsList(objects), FactLists(objects)
    PROVE  Told(InOrder(objects, [k \in DOMAIN objects |-> [i \in DOMAIN objects[k].facts |->
                    When(PlainFact(objects[k].facts[i]) /\ ~HasSchema(objects[k].facts[i]),
                         <<PredicateQuestion(objects[k], i)>>)]]),
                FactQuestions(objects))
  <1> DEFINE sss == [k \in DOMAIN objects |-> [i \in DOMAIN objects[k].facts |->
                        When(PlainFact(objects[k].facts[i]) /\ ~HasSchema(objects[k].facts[i]),
                             <<PredicateQuestion(objects[k], i)>>)]]
  <1>1. ASSUME NEW k \in DOMAIN objects, NEW i \in DOMAIN objects[k].facts
        PROVE  /\ IsList(sss[k][i])
               /\ Range(sss[k][i]) = IF i \in Schemaless(objects[k]) THEN {PredicateQuestion(objects[k], i)} ELSE {}
    <2>1. PICK q : q = PredicateQuestion(objects[k], i)
      OBVIOUS
    <2>2. PICK f : f = objects[k].facts[i]
      OBVIOUS
    <2>3. sss[k][i] = When(PlainFact(f) /\ ~HasSchema(f), <<q>>)
      BY <2>1, <2>2
    <2>4. Told(When(PlainFact(f) /\ ~HasSchema(f), <<q>>), Under(PlainFact(f) /\ ~HasSchema(f), {q}))
      BY Written, Conditional
    <2>5. i \in Schemaless(objects[k]) <=> PlainFact(f) /\ ~HasSchema(f)
      BY <2>2 DEF Schemaless
    <2> HIDE DEF sss
    <2>6. QED BY <2>1, <2>3, <2>4, <2>5 DEF Told, Under
  <1>2. \A k \in DOMAIN objects : sss[k] = [i \in DOMAIN objects[k].facts |-> sss[k][i]]
    OBVIOUS
  <1> HIDE DEF sss
  <1>3. Told(InOrder(objects, sss), OfTheFacts(objects, sss))
    BY <1>1, <1>2, EachFactTold
  <1>4. \A q : q \in OfTheFacts(objects, sss) <=>
                 \E k \in DOMAIN objects : /\ objects[k].typed /\ objects[k].listed
                                           /\ \E i \in DOMAIN objects[k].facts : q \in Range(sss[k][i])
    <2>1. \A k \in DOMAIN objects : DOMAIN sss[k] = DOMAIN objects[k].facts
      BY <1>2
    <2>2. \A q : \A k \in DOMAIN objects :
             q \in AllOf(sss[k]) <=> \E i \in DOMAIN objects[k].facts : q \in Range(sss[k][i])
      BY <2>1 DEF AllOf
    <2>3. QED BY <2>2 DEF OfTheFacts, Carrying
  <1>5. \A q : q \in FactQuestions(objects) <=>
                 \E k \in DOMAIN objects : /\ objects[k].typed /\ objects[k].listed
                                           /\ \E i \in Schemaless(objects[k]) : q = PredicateQuestion(objects[k], i)
    BY DEF FactQuestions, Asking, Range
  <1>6. \A k \in DOMAIN objects : Schemaless(objects[k]) \subseteq DOMAIN objects[k].facts
    BY DEF Schemaless
  <1>7. \A q : \A k \in DOMAIN objects :
           (\E i \in DOMAIN objects[k].facts : q \in Range(sss[k][i]))
           <=> \E i \in Schemaless(objects[k]) : q = PredicateQuestion(objects[k], i)
    BY <1>1, <1>6
  <1>8. OfTheFacts(objects, sss) = FactQuestions(objects)
    BY <1>4, <1>5, <1>7
  <1>9. QED BY <1>3, <1>8 DEF sss

\* Levels and facts are judged first, then what is unknown is asked.
LevelsJudged(d) ==
    JudgeEach(d, d.objects, LAMBDA i : LET obj == d.objects[i] IN When(obj.typed, <<Judgement(LevelProperty, obj.id, obj.span,
        IF obj.level \in SupportedLevels THEN "Pass" ELSE "Unknown")>>))
FactsJudged(d) == AddJudgements(d, OfEachFact(d, LAMBDA obj, i : FactJudgements(d, obj, i)))

LEMMA LevelsAsked ==
    ASSUME NEW d, Fit(d)
    PROVE  \E fresh : /\ ValidateReifiedLevels(d) = AddObjects(LevelsJudged(d), fresh)
                      /\ AsksEach(fresh, d, LevelQuestions(d.objects))
  <1> DEFINE questions == FlattenSeq([i \in DOMAIN d.objects |-> LET obj == d.objects[i] IN
                    When(obj.typed /\ obj.level \notin SupportedLevels, <<LevelQuestion(obj)>>)])
  <1>1. IsList(d.objects)
    BY DEF Fit, RecordLists
  <1>2. Told(questions, LevelQuestions(d.objects))
    BY <1>1, LevelsTold
  <1>3. ValidateReifiedLevels(d) = AddObjects(LevelsJudged(d), FreshQuestions(d, questions))
    BY DEF ValidateReifiedLevels, LevelsJudged, JudgeEach, OfEach
  <1> HIDE DEF questions
  <1>4. AsksEach(FreshQuestions(d, questions), d, LevelQuestions(d.objects))
    BY <1>2, EachAsked
  <1>5. QED BY <1>3, <1>4

LEMMA FactsAsked ==
    ASSUME NEW d, Fit(d), FactLists(d.objects)
    PROVE  \E fresh : /\ ValidateObjectFacts(d) = AddObjects(FactsJudged(d), fresh)
                      /\ AsksEach(fresh, d, FactQuestions(d.objects))
  <1> DEFINE questions == InOrder(d.objects, [k \in DOMAIN d.objects |-> [i \in DOMAIN d.objects[k].facts |->
                    When(PlainFact(d.objects[k].facts[i]) /\ ~HasSchema(d.objects[k].facts[i]),
                         <<PredicateQuestion(d.objects[k], i)>>)]])
  <1>1. IsList(d.objects)
    BY DEF Fit, RecordLists
  <1>2. Told(questions, FactQuestions(d.objects))
    BY <1>1, FactsTold
  <1>3. ValidateObjectFacts(d) = AddObjects(FactsJudged(d), FreshQuestions(d, questions))
    BY DEF ValidateObjectFacts, FactsJudged, OfEachFact, OfEach, InOrder
  <1> HIDE DEF questions
  <1>4. AsksEach(FreshQuestions(d, questions), d, FactQuestions(d.objects))
    BY <1>2, EachAsked
  <1>5. QED BY <1>3, <1>4

\* A question's identity and facts are lists.
IsQuestion(q) ==
    \E tag, about, span, predicate, oid : IsList(about) /\ q = Question(tag, about, span, predicate, oid)

LEMMA QuestionFits ==
    ASSUME NEW q, IsQuestion(q)
    PROVE  IsList(q.id) /\ IsList(q.facts)
  <1>1. PICK tag, about, span, predicate, oid : IsList(about) /\ q = Question(tag, about, span, predicate, oid)
    BY DEF IsQuestion
  <1>2. q.id = <<"question", tag>> \o about
        /\ q.facts = <<Fact(predicate, <<q.id, about>>), Fact("QuestionText", <<q.id, <<"text">>>>),
                       Fact("Blocks", <<q.id, oid>>)>>
    BY <1>1 DEF Question, Object
  <1>3. IsList(<<"question", tag>>)
    BY Written DEF Told
  <1>4. IsList(q.facts)
    <2>1. PICK a, b, c : q.facts = <<a, b, c>>
      BY <1>2
    <2>2. Told(<<a, b, c>>, {a, b, c})
      BY Written
    <2>3. QED BY <2>1, <2>2 DEF Told
  <1>5. QED BY <1>1, <1>2, <1>3, <1>4, BothLists

LEMMA QuestionsFit ==
    ASSUME NEW fresh, \A q \in Range(fresh) : IsQuestion(q)
    PROVE  HaveIds(fresh) /\ FactLists(fresh)
  BY QuestionFits DEF HaveIds, FactLists, Range

LEMMA AreQuestions ==
    ASSUME NEW objects, IsList(objects), HaveIds(objects), FactLists(objects)
    PROVE  \A q \in LevelQuestions(objects) \cup FactQuestions(objects) : IsQuestion(q)
  <1>1. \A obj \in Range(objects) : (obj.typed => IsList(obj.id)) /\ IsList(obj.facts)
    BY DEF HaveIds, FactLists, Range
  <1>2. ASSUME NEW q \in LevelQuestions(objects)
        PROVE  IsQuestion(q)
    <2>1. PICK obj \in Range(objects) : Unsupported(obj) /\ q = LevelQuestion(obj)
      BY DEF LevelQuestions
    <2>2. PICK id : id = obj.id
      OBVIOUS
    <2>3. IsList(id)
      BY <1>1, <2>1, <2>2 DEF Unsupported
    <2>4. IsList(Append(id, obj.level))
      <3>1. PICK C : C = Range(id) \cup {obj.level}
        OBVIOUS
      <3>2. id \in Seq(C) /\ obj.level \in C
        BY <2>3, <3>1 DEF IsList
      <3>3. Append(id, obj.level) \in Seq(C)
        BY <3>2
      <3>4. QED BY <3>3, SequenceIsList
    <2>5. QED BY <2>1, <2>2, <2>4 DEF IsQuestion, LevelQuestion
  <1>3. ASSUME NEW q \in FactQuestions(objects)
        PROVE  IsQuestion(q)
    <2>1. PICK obj \in Range(objects) : obj.typed /\ \E i \in Schemaless(obj) : q = PredicateQuestion(obj, i)
      BY DEF FactQuestions, Asking
    <2>2. PICK i \in Schemaless(obj) : q = PredicateQuestion(obj, i)
      BY <2>1
    <2>3. IsList(obj.id) /\ IsList(obj.facts)
      BY <1>1, <2>1
    <2>4. i \in Nat
      BY <2>3 DEF Schemaless, IsList
    <2>5. IsList(FactTarget(obj, i))
      <3>1. Place(i) \in Seq({"|"})
        BY <2>4 DEF Place
      <3>2. IsList(Place(i))
        BY <3>1, SequenceIsList
      <3>3. \A x : IsList(<<x>>)
        BY Written DEF Told
      <3>4. \A s, t : IsList(s) /\ IsList(t) => IsList(s \o t)
        BY BothLists
      <3>5. QED BY <2>3, <3>2, <3>3, <3>4 DEF FactTarget
    <2>6. QED BY <2>2, <2>5 DEF IsQuestion, PredicateQuestion
  <1>4. QED BY <1>2, <1>3

-----------------------------------------------------------------------------
(* Every step of validation answers what was not answered before. *)

\* r is d with the judgements of the groups from first to last added.
Steps(d, e, r, first, last) == \E K : Adds(d, r, K, first, last, CarriedOnceIn(d, e))

LEMMA JudgesFurther ==
    ASSUME NEW d, NEW e, NEW n \in Nat, Judging(d, e, n), NEW r, NEW first \in Nat, NEW last \in Nat,
           n < first, first <= last, NEW p, NEW K, Adds(d, r, K, first, last, p), CarriedOnceIn(d, e) => p
    PROVE  Steps(d, e, r, first, last) /\ Judging(r, e, last) /\ r.objects = d.objects
  BY JudgedFurther DEF Adds, Extended, Steps

LEMMA WhatIsProper ==
    ASSUME NEW d, NEW e, CarriedOnceIn(d, e), NoNamesMadeUp(d), IsLayer(e)
    PROVE  /\ Proper(d.files) /\ Proper(d.spans) /\ Proper(d.sections) /\ Proper(d.items)
           /\ IdentitiesProper(d) /\ LayerProper(e.obligations, e.checks)
           /\ NoneMadeUp(d.objects) => Proper(d.objects)
  BY DEF CarriedOnceIn, NoNamesMadeUp, IsLayer, Proper, IdentitiesProper, LayerProper

LEMMA FilesJudge ==
    ASSUME NEW d, NEW e, Judging(d, e, 0)
    PROVE  Steps(d, e, ValidatePlainFiles(d), 1, 1) /\ Judging(ValidatePlainFiles(d), e, 1) /\ ValidatePlainFiles(d).objects = d.objects
  <1>1. Fit(d) /\ IsLayer(e) /\ NoNamesMadeUp(d)
    BY DEF Judging
  <1>2. Adds(d, ValidatePlainFiles(d), FileSet(d), 1, 1, Proper(d.files))
    BY <1>1, FilesAdded DEF IsLayer
  <1>3. CarriedOnceIn(d, e) => Proper(d.files)
    BY <1>1, WhatIsProper DEF CarriedOnceIn
  <1>4. 0 \in Nat /\ 1 \in Nat /\ 1 \in Nat /\ 0 < 1 /\ 1 <= 1
    OBVIOUS
  <1>5. PICK r : r = ValidatePlainFiles(d)
    OBVIOUS
  <1>6. Steps(d, e, r, 1, 1) /\ Judging(r, e, 1) /\ r.objects = d.objects
    <2>1. PICK K : Adds(d, r, K, 1, 1, Proper(d.files))
      BY <1>2, <1>5
    <2>2. Adds(d, r, K, 1, 1, CarriedOnceIn(d, e))
      BY <2>1, <1>3 DEF Adds
    <2>3. QED BY <2>2, <1>4, JudgesFurther
  <1>7. QED BY <1>5, <1>6

LEMMA SpansJudge ==
    ASSUME NEW d, NEW e, Judging(d, e, 1)
    PROVE  Steps(d, e, ValidateSourceSpans(d), 2, 2) /\ Judging(ValidateSourceSpans(d), e, 2) /\ ValidateSourceSpans(d).objects = d.objects
  <1>1. Fit(d) /\ IsLayer(e) /\ NoNamesMadeUp(d)
    BY DEF Judging
  <1>2. Adds(d, ValidateSourceSpans(d), SpanSet(d), 2, 2, Proper(d.spans))
    BY <1>1, SpansAdded DEF IsLayer
  <1>3. CarriedOnceIn(d, e) => Proper(d.spans)
    BY <1>1, WhatIsProper DEF CarriedOnceIn
  <1>4. 1 \in Nat /\ 2 \in Nat /\ 2 \in Nat /\ 1 < 2 /\ 2 <= 2
    OBVIOUS
  <1>5. PICK r : r = ValidateSourceSpans(d)
    OBVIOUS
  <1>6. Steps(d, e, r, 2, 2) /\ Judging(r, e, 2) /\ r.objects = d.objects
    <2>1. PICK K : Adds(d, r, K, 2, 2, Proper(d.spans))
      BY <1>2, <1>5
    <2>2. Adds(d, r, K, 2, 2, CarriedOnceIn(d, e))
      BY <2>1, <1>3 DEF Adds
    <2>3. QED BY <2>2, <1>4, JudgesFurther
  <1>7. QED BY <1>5, <1>6

LEMMA IdentitiesJudge ==
    ASSUME NEW d, NEW e, Judging(d, e, 2)
    PROVE  Steps(d, e, ValidateIdentities(d), 3, 4) /\ Judging(ValidateIdentities(d), e, 4) /\ ValidateIdentities(d).objects = d.objects
  <1>1. Fit(d) /\ IsLayer(e) /\ NoNamesMadeUp(d)
    BY DEF Judging
  <1>2. Adds(d, ValidateIdentities(d), IdentitySet(d), 3, 4, IdentitiesProper(d))
    BY <1>1, IdentitiesAdded DEF IsLayer
  <1>3. CarriedOnceIn(d, e) => IdentitiesProper(d)
    BY <1>1, WhatIsProper DEF CarriedOnceIn
  <1>4. 2 \in Nat /\ 3 \in Nat /\ 4 \in Nat /\ 2 < 3 /\ 3 <= 4
    OBVIOUS
  <1>5. PICK r : r = ValidateIdentities(d)
    OBVIOUS
  <1>6. Steps(d, e, r, 3, 4) /\ Judging(r, e, 4) /\ r.objects = d.objects
    <2>1. PICK K : Adds(d, r, K, 3, 4, IdentitiesProper(d))
      BY <1>2, <1>5
    <2>2. Adds(d, r, K, 3, 4, CarriedOnceIn(d, e))
      BY <2>1, <1>3 DEF Adds
    <2>3. QED BY <2>2, <1>4, JudgesFurther
  <1>7. QED BY <1>5, <1>6

LEMMA SectionsJudge ==
    ASSUME NEW d, NEW e, Judging(d, e, 4)
    PROVE  Steps(d, e, ValidateSections(d), 5, 5) /\ Judging(ValidateSections(d), e, 5) /\ ValidateSections(d).objects = d.objects
  <1>1. Fit(d) /\ IsLayer(e) /\ NoNamesMadeUp(d)
    BY DEF Judging
  <1>2. Adds(d, ValidateSections(d), SectionSet(d), 5, 5, Proper(d.sections))
    BY <1>1, SectionsAdded DEF IsLayer
  <1>3. CarriedOnceIn(d, e) => Proper(d.sections)
    BY <1>1, WhatIsProper DEF CarriedOnceIn
  <1>4. 4 \in Nat /\ 5 \in Nat /\ 5 \in Nat /\ 4 < 5 /\ 5 <= 5
    OBVIOUS
  <1>5. PICK r : r = ValidateSections(d)
    OBVIOUS
  <1>6. Steps(d, e, r, 5, 5) /\ Judging(r, e, 5) /\ r.objects = d.objects
    <2>1. PICK K : Adds(d, r, K, 5, 5, Proper(d.sections))
      BY <1>2, <1>5
    <2>2. Adds(d, r, K, 5, 5, CarriedOnceIn(d, e))
      BY <2>1, <1>3 DEF Adds
    <2>3. QED BY <2>2, <1>4, JudgesFurther
  <1>7. QED BY <1>5, <1>6

LEMMA ItemsJudge ==
    ASSUME NEW d, NEW e, Judging(d, e, 5)
    PROVE  Steps(d, e, ValidateItems(d), 6, 6) /\ Judging(ValidateItems(d), e, 6) /\ ValidateItems(d).objects = d.objects
  <1>1. Fit(d) /\ IsLayer(e) /\ NoNamesMadeUp(d)
    BY DEF Judging
  <1>2. Adds(d, ValidateItems(d), ItemSet(d), 6, 6, Proper(d.items))
    BY <1>1, ItemsAdded DEF IsLayer
  <1>3. CarriedOnceIn(d, e) => Proper(d.items)
    BY <1>1, WhatIsProper DEF CarriedOnceIn
  <1>4. 5 \in Nat /\ 6 \in Nat /\ 6 \in Nat /\ 5 < 6 /\ 6 <= 6
    OBVIOUS
  <1>5. PICK r : r = ValidateItems(d)
    OBVIOUS
  <1>6. Steps(d, e, r, 6, 6) /\ Judging(r, e, 6) /\ r.objects = d.objects
    <2>1. PICK K : Adds(d, r, K, 6, 6, Proper(d.items))
      BY <1>2, <1>5
    <2>2. Adds(d, r, K, 6, 6, CarriedOnceIn(d, e))
      BY <2>1, <1>3 DEF Adds
    <2>3. QED BY <2>2, <1>4, JudgesFurther
  <1>7. QED BY <1>5, <1>6

LEMMA ObjectsJudge ==
    ASSUME NEW d, NEW e, Judging(d, e, 6), NoneMadeUp(d.objects)
    PROVE  Steps(d, e, ValidateObjects(d), 7, 7) /\ Judging(ValidateObjects(d), e, 7) /\ ValidateObjects(d).objects = d.objects
  <1>1. Fit(d) /\ IsLayer(e) /\ NoNamesMadeUp(d)
    BY DEF Judging
  <1>2. Adds(d, ValidateObjects(d), ObjectSet(d), 7, 7, Proper(d.objects))
    BY <1>1, ObjectsAdded DEF IsLayer
  <1>3. CarriedOnceIn(d, e) => Proper(d.objects)
    BY <1>1, WhatIsProper DEF CarriedOnceIn
  <1>4. 6 \in Nat /\ 7 \in Nat /\ 7 \in Nat /\ 6 < 7 /\ 7 <= 7
    OBVIOUS
  <1>5. PICK r : r = ValidateObjects(d)
    OBVIOUS
  <1>6. Steps(d, e, r, 7, 7) /\ Judging(r, e, 7) /\ r.objects = d.objects
    <2>1. PICK K : Adds(d, r, K, 7, 7, Proper(d.objects))
      BY <1>2, <1>5
    <2>2. Adds(d, r, K, 7, 7, CarriedOnceIn(d, e))
      BY <2>1, <1>3 DEF Adds
    <2>3. QED BY <2>2, <1>4, JudgesFurther
  <1>7. QED BY <1>5, <1>6

LEMMA LayerJudge ==
    ASSUME NEW d, NEW e, Judging(d, e, 7)
    PROVE  Steps(d, e, ValidateLayerIdentities(d, e.obligations, e.checks), 8, 9) /\ Judging(ValidateLayerIdentities(d, e.obligations, e.checks), e, 9) /\ ValidateLayerIdentities(d, e.obligations, e.checks).objects = d.objects
  <1>1. Fit(d) /\ IsLayer(e) /\ NoNamesMadeUp(d)
    BY DEF Judging
  <1>2. Adds(d, ValidateLayerIdentities(d, e.obligations, e.checks), LayerSet(e.obligations, e.checks), 8, 9, LayerProper(e.obligations, e.checks))
    BY <1>1, LayerAdded DEF IsLayer
  <1>3. CarriedOnceIn(d, e) => LayerProper(e.obligations, e.checks)
    BY <1>1, WhatIsProper DEF CarriedOnceIn
  <1>4. 7 \in Nat /\ 8 \in Nat /\ 9 \in Nat /\ 7 < 8 /\ 8 <= 9
    OBVIOUS
  <1>5. PICK r : r = ValidateLayerIdentities(d, e.obligations, e.checks)
    OBVIOUS
  <1>6. Steps(d, e, r, 8, 9) /\ Judging(r, e, 9) /\ r.objects = d.objects
    <2>1. PICK K : Adds(d, r, K, 8, 9, LayerProper(e.obligations, e.checks))
      BY <1>2, <1>5
    <2>2. Adds(d, r, K, 8, 9, CarriedOnceIn(d, e))
      BY <2>1, <1>3 DEF Adds
    <2>3. QED BY <2>2, <1>4, JudgesFurther
  <1>7. QED BY <1>5, <1>6

LEMMA QuestionsJudge ==
    ASSUME NEW d, NEW e, Judging(d, e, 11)
    PROVE  Steps(d, e, ValidateQuestionObjects(d), 12, 12) /\ Judging(ValidateQuestionObjects(d), e, 12) /\ ValidateQuestionObjects(d).objects = d.objects
  <1>1. Fit(d) /\ IsLayer(e) /\ NoNamesMadeUp(d)
    BY DEF Judging
  <1>2. Adds(d, ValidateQuestionObjects(d), QuestionSet(d), 12, 12, CarriedOnce(d.objects))
    BY <1>1, QuestionsAdded DEF IsLayer
  <1>3. CarriedOnceIn(d, e) => CarriedOnce(d.objects)
    BY <1>1, WhatIsProper DEF CarriedOnceIn
  <1>4. 11 \in Nat /\ 12 \in Nat /\ 12 \in Nat /\ 11 < 12 /\ 12 <= 12
    OBVIOUS
  <1>5. PICK r : r = ValidateQuestionObjects(d)
    OBVIOUS
  <1>6. Steps(d, e, r, 12, 12) /\ Judging(r, e, 12) /\ r.objects = d.objects
    <2>1. PICK K : Adds(d, r, K, 12, 12, CarriedOnce(d.objects))
      BY <1>2, <1>5
    <2>2. Adds(d, r, K, 12, 12, CarriedOnceIn(d, e))
      BY <2>1, <1>3 DEF Adds
    <2>3. QED BY <2>2, <1>4, JudgesFurther
  <1>7. QED BY <1>5, <1>6

LEMMA ObligationsJudge ==
    ASSUME NEW d, NEW e, Judging(d, e, 12)
    PROVE  Steps(d, e, ValidateObligationRecords(d, e.obligations), 13, 13) /\ Judging(ValidateObligationRecords(d, e.obligations), e, 13) /\ ValidateObligationRecords(d, e.obligations).objects = d.objects
  <1>1. Fit(d) /\ IsLayer(e) /\ NoNamesMadeUp(d)
    BY DEF Judging
  <1>2. Adds(d, ValidateObligationRecords(d, e.obligations), ObligationSet(d, e.obligations), 13, 13, CarriedOnce(e.obligations))
    BY <1>1, ObligationsAdded DEF IsLayer
  <1>3. CarriedOnceIn(d, e) => CarriedOnce(e.obligations)
    BY <1>1, WhatIsProper DEF CarriedOnceIn
  <1>4. 12 \in Nat /\ 13 \in Nat /\ 13 \in Nat /\ 12 < 13 /\ 13 <= 13
    OBVIOUS
  <1>5. PICK r : r = ValidateObligationRecords(d, e.obligations)
    OBVIOUS
  <1>6. Steps(d, e, r, 13, 13) /\ Judging(r, e, 13) /\ r.objects = d.objects
    <2>1. PICK K : Adds(d, r, K, 13, 13, CarriedOnce(e.obligations))
      BY <1>2, <1>5
    <2>2. Adds(d, r, K, 13, 13, CarriedOnceIn(d, e))
      BY <2>1, <1>3 DEF Adds
    <2>3. QED BY <2>2, <1>4, JudgesFurther
  <1>7. QED BY <1>5, <1>6

LEMMA ChecksJudge ==
    ASSUME NEW d, NEW e, Judging(d, e, 13)
    PROVE  Steps(d, e, ValidateCheckRecords(d, e.checks), 14, 14) /\ Judging(ValidateCheckRecords(d, e.checks), e, 14) /\ ValidateCheckRecords(d, e.checks).objects = d.objects
  <1>1. Fit(d) /\ IsLayer(e) /\ NoNamesMadeUp(d)
    BY DEF Judging
  <1>2. Adds(d, ValidateCheckRecords(d, e.checks), CheckSet(d, e.checks), 14, 14, CarriedOnce(e.checks))
    BY <1>1, ChecksAdded DEF IsLayer
  <1>3. CarriedOnceIn(d, e) => CarriedOnce(e.checks)
    BY <1>1, WhatIsProper DEF CarriedOnceIn
  <1>4. 13 \in Nat /\ 14 \in Nat /\ 14 \in Nat /\ 13 < 14 /\ 14 <= 14
    OBVIOUS
  <1>5. PICK r : r = ValidateCheckRecords(d, e.checks)
    OBVIOUS
  <1>6. Steps(d, e, r, 14, 14) /\ Judging(r, e, 14) /\ r.objects = d.objects
    <2>1. PICK K : Adds(d, r, K, 14, 14, CarriedOnce(e.checks))
      BY <1>2, <1>5
    <2>2. Adds(d, r, K, 14, 14, CarriedOnceIn(d, e))
      BY <2>1, <1>3 DEF Adds
    <2>3. QED BY <2>2, <1>4, JudgesFurther
  <1>7. QED BY <1>5, <1>6

LEMMA EdgesJudge ==
    ASSUME NEW d, NEW e, Judging(d, e, 14)
    PROVE  Steps(d, e, ValidateEdgeProvenance(d), 15, 15) /\ Judging(ValidateEdgeProvenance(d), e, 15) /\ ValidateEdgeProvenance(d).objects = d.objects
  <1>1. Fit(d) /\ IsLayer(e) /\ NoNamesMadeUp(d)
    BY DEF Judging
  <1>2. Adds(d, ValidateEdgeProvenance(d), EdgeSet(d), 15, 15, CarriedOnce(d.objects))
    BY <1>1, EdgesAdded DEF IsLayer
  <1>3. CarriedOnceIn(d, e) => CarriedOnce(d.objects)
    BY <1>1, WhatIsProper DEF CarriedOnceIn
  <1>4. 14 \in Nat /\ 15 \in Nat /\ 15 \in Nat /\ 14 < 15 /\ 15 <= 15
    OBVIOUS
  <1>5. PICK r : r = ValidateEdgeProvenance(d)
    OBVIOUS
  <1>6. Steps(d, e, r, 15, 15) /\ Judging(r, e, 15) /\ r.objects = d.objects
    <2>1. PICK K : Adds(d, r, K, 15, 15, CarriedOnce(d.objects))
      BY <1>2, <1>5
    <2>2. Adds(d, r, K, 15, 15, CarriedOnceIn(d, e))
      BY <2>1, <1>3 DEF Adds
    <2>3. QED BY <2>2, <1>4, JudgesFurther
  <1>7. QED BY <1>5, <1>6

LEMMA LevelsJudge ==
    ASSUME NEW d, NEW e, Judging(d, e, 9)
    PROVE  Judging(ValidateReifiedLevels(d), e, 10)
  <1>1. Fit(d) /\ FactLists(d.objects) /\ IsList(d.objects) /\ HaveIds(d.objects)
    BY DEF Judging, Fit, RecordLists
  <1>2. PICK r : r = LevelsJudged(d)
    OBVIOUS
  <1>3. Adds(d, r, LevelSet(d), 10, 10, CarriedOnce(d.objects))
    BY <1>1, <1>2, LevelsAdded DEF LevelsJudged
  <1>4. CarriedOnceIn(d, e) => CarriedOnce(d.objects)
    BY DEF CarriedOnceIn
  <1>5. 9 \in Nat /\ 10 \in Nat /\ 9 < 10 /\ 10 <= 10
    OBVIOUS
  <1>6. Judging(r, e, 10) /\ r.objects = d.objects
    BY <1>3, <1>4, <1>5, JudgesFurther
  <1>7. PICK fresh : ValidateReifiedLevels(d) = AddObjects(r, fresh) /\ AsksEach(fresh, d, LevelQuestions(d.objects))
    BY <1>1, <1>2, LevelsAsked
  <1>8. \A q \in Range(fresh) : IsQuestion(q)
    BY <1>1, <1>7, AreQuestions DEF AsksEach
  <1>9. IsList(fresh) /\ HaveIds(fresh) /\ FactLists(fresh)
    BY <1>7, <1>8, QuestionsFit DEF AsksEach
  <1>10. Judging(AddObjects(r, fresh), e, 10)
    BY <1>6, <1>9, ObjectsFit
  <1>11. QED BY <1>7, <1>10

LEMMA FactsJudge ==
    ASSUME NEW d, NEW e, Judging(d, e, 10)
    PROVE  Judging(ValidateObjectFacts(d), e, 11)
  <1>1. Fit(d) /\ FactLists(d.objects) /\ IsList(d.objects) /\ HaveIds(d.objects)
    BY DEF Judging, Fit, RecordLists
  <1>2. PICK r : r = FactsJudged(d)
    OBVIOUS
  <1>3. Adds(d, r, FactSet(d), 11, 11, CarriedOnce(d.objects))
    BY <1>1, <1>2, FactsAdded DEF FactsJudged
  <1>4. CarriedOnceIn(d, e) => CarriedOnce(d.objects)
    BY DEF CarriedOnceIn
  <1>5. 10 \in Nat /\ 11 \in Nat /\ 10 < 11 /\ 11 <= 11
    OBVIOUS
  <1>6. Judging(r, e, 11) /\ r.objects = d.objects
    BY <1>3, <1>4, <1>5, JudgesFurther
  <1>7. PICK fresh : ValidateObjectFacts(d) = AddObjects(r, fresh) /\ AsksEach(fresh, d, FactQuestions(d.objects))
    BY <1>1, <1>2, FactsAsked
  <1>8. \A q \in Range(fresh) : IsQuestion(q)
    BY <1>1, <1>7, AreQuestions DEF AsksEach
  <1>9. IsList(fresh) /\ HaveIds(fresh) /\ FactLists(fresh)
    BY <1>7, <1>8, QuestionsFit DEF AsksEach
  <1>10. Judging(AddObjects(r, fresh), e, 11)
    BY <1>6, <1>9, ObjectsFit
  <1>11. QED BY <1>7, <1>10

LEMMA PresenceAdded ==
    ASSUME NEW d, Fit(d)
    PROVE  \E J : Adds(d, ValidatePresence(d), J, 16, 16, TRUE) /\ \A j \in J : j.status = "Unknown"
  <1>1. CASE d.objects # <<>>
    <2>1. ValidatePresence(d) = d
      BY <1>1 DEF ValidatePresence
    <2>2. Extended(d, d, {})
      BY NothingExtends DEF Fit, RecordLists
    <2>3. PICK K : K = {}
      OBVIOUS
    <2>4. Adds(d, d, K, 16, 16, TRUE) /\ \A j \in K : j.status = "Unknown"
      BY <2>2, <2>3 DEF Adds, Judged, OneEach
    <2>5. QED BY <2>1, <2>4
  <1>2. CASE d.objects = <<>>
    <2> DEFINE named == {i \in DOMAIN d.files : d.files[i].typed /\ Safe(d.files[i].id)}
               about == IF named = {} THEN <<"document">> ELSE d.files[Min(named)].id
               j == Judgement("semantic-objects-present", about, None, "Unknown")
    <2>1. ValidatePresence(d) = AddJudgements(d, <<j>>)
      BY <1>2 DEF ValidatePresence
    <2>2. IsList(about)
      <3>1. CASE named = {}
        BY <3>1, Written DEF Told
      <3>2. CASE named # {}
        <4>1. named \subseteq Nat
          <5>1. IsList(d.files)
            BY DEF Fit, RecordLists
          <5>2. QED BY <5>1 DEF IsList
        <4>2. \A i \in named : IsList(d.files[i].id)
          BY DEF Fit, HaveIds
        <4> HIDE DEF named
        <4>3. Min(named) \in named
          <5>1. \E m \in named : \A k \in named : m <= k
            BY <3>2, <4>1, LeastNumber
          <5>2. QED BY <5>1 DEF Min
        <4>4. QED BY <3>2, <4>2, <4>3
      <3>3. QED BY <3>1, <3>2
    <2> HIDE DEF about
    <2>3. IsJudgement(j) /\ j.target = about /\ Group(j.property) = 16 /\ j.status = "Unknown"
      BY DEF IsJudgement, Judgement, Group, LevelProperty
    <2> HIDE DEF j
    <2>4. Told(<<j>>, {j})
      BY Written
    <2>5. Tells(<<j>>, {j}, 16, 16, TRUE)
      BY <2>2, <2>3, <2>4 DEF Tells, Judged, OneEach
    <2>6. PICK K : K = {j}
      OBVIOUS
    <2>7. Adds(d, ValidatePresence(d), K, 16, 16, TRUE)
      BY <2>1, <2>5, <2>6, ToldAreAdded
    <2>8. \A k \in K : k.status = "Unknown"
      BY <2>3, <2>6
    <2>9. QED BY <2>7, <2>8
  <1>3. QED BY <1>1, <1>2

LEMMA PresenceJudges ==
    ASSUME NEW d, NEW e, Judging(d, e, 15)
    PROVE  /\ Steps(d, e, ValidatePresence(d), 16, 16)
           /\ Judging(ValidatePresence(d), e, 16) /\ ValidatePresence(d).objects = d.objects
  <1>1. Fit(d)
    BY DEF Judging
  <1>2. PICK J : Adds(d, ValidatePresence(d), J, 16, 16, TRUE)
    BY <1>1, PresenceAdded
  <1>3. 15 \in Nat /\ 16 \in Nat /\ 15 < 16 /\ 16 <= 16
    OBVIOUS
  <1>4. QED BY <1>2, <1>3, JudgesFurther

-----------------------------------------------------------------------------
(* The invariant of validation. *)

\* The last group of judgements that may have been made.
Progress(s) ==
    IF s = "files" THEN 0
    ELSE IF s = "spans" THEN 1
    ELSE IF s = "identities" THEN 2
    ELSE IF s = "sections" THEN 4
    ELSE IF s = "items" THEN 5
    ELSE IF s = "objects" THEN 6
    ELSE IF s = "layer" THEN 7
    ELSE IF s = "levels" THEN 9
    ELSE IF s = "facts" THEN 10
    ELSE IF s = "questions" THEN 11
    ELSE IF s = "obligations" THEN 12
    ELSE IF s = "checks" THEN 13
    ELSE IF s = "edges" THEN 14
    ELSE IF s = "presence" THEN 15
    ELSE 16

Validating == {"files", "spans", "identities", "sections", "items", "objects", "layer", "levels",
               "facts", "questions", "obligations", "checks", "edges", "presence", "validated"}

\* While a document is validated its answers are of the groups judged so far;
\* its objects are the ones it came with until their levels are judged.
ValidationInv ==
    /\ stage = "received" => doc \in Inputs
    /\ stage \in Validating => entry.validated
    /\ entry.validated =>
         /\ Judging(doc, entry, Progress(stage))
         /\ Progress(stage) <= 6 => NoneMadeUp(doc.objects)

LEMMA InputsAreLists ==
    ASSUME NEW d \in Inputs
    PROVE  /\ IsDocument(d)
           /\ \A list \in RecordLists : IsList(d[list]) /\ HaveIds(d[list]) /\ NoneMadeUp(d[list])
           /\ FactLists(d.objects)
  <1>1. d = Document(d.files, d.spans, d.sections, d.items, d.objects, d.obligations, d.checks)
    BY InputsAssumption
  <1>2. d.obligationIds = {} /\ d.checkIds = {}
    BY <1>1 DEF Document
  <1>3. IsDocument(d)
    BY <1>1, <1>2 DEF Document, IsDocument
  <1>4. ASSUME NEW list \in RecordLists
        PROVE  IsList(d[list]) /\ HaveIds(d[list]) /\ NoneMadeUp(d[list])
    <2>1. IsList(d[list]) /\ \A r \in Range(d[list]) : r.typed => IsList(r.id) /\ ~IsMadeUp(r.id)
      BY InputsAssumption
    <2>2. \A i \in DOMAIN d[list] : d[list][i] \in Range(d[list])
      BY DEF Range
    <2>3. QED BY <2>1, <2>2 DEF HaveIds, NoneMadeUp
  <1>5. FactLists(d.objects)
    BY InputsAssumption DEF FactLists
  <1>6. QED BY <1>3, <1>4, <1>5

LEMMA JudgingBegins ==
    ASSUME NEW d \in Inputs, NEW e, e.obligations = d.obligations, e.checks = d.checks
    PROVE  Judging(d, e, 0) /\ NoneMadeUp(d.objects)
  <1>1. /\ IsDocument(d) /\ FactLists(d.objects)
        /\ \A list \in RecordLists : IsList(d[list]) /\ HaveIds(d[list]) /\ NoneMadeUp(d[list])
    BY InputsAreLists
  <1>2. Fit(d) /\ NoNamesMadeUp(d) /\ IsLayer(e)
    BY <1>1 DEF RecordLists, Fit, NoNamesMadeUp, IsLayer
  <1>3. Answered(d, e, 0, <<>>)
    <2>1. IsList(<<>>) /\ Range(<<>>) = {}
      BY DEF IsList, Range
    <2>2. d.checks \o <<>> = d.checks
      <3>1. IsList(d.checks)
        BY <1>1 DEF RecordLists
      <3>2. QED BY <3>1 DEF IsList
    <2>3. QED BY <2>1, <2>2 DEF Answered, OneAnswerEach
  <1>4. NoneMadeUp(d.objects)
    BY <1>1 DEF RecordLists
  <1>5. QED BY <1>1, <1>2, <1>3, <1>4 DEF Judging

\* A document that is judged so far is judged as far as that, or farther.
LEMMA JudgedLess ==
    ASSUME NEW d, NEW e, NEW m \in Nat, NEW n \in Nat, m <= n, Judging(d, e, m)
    PROVE  Judging(d, e, n)
  <1>1. 1..m \subseteq 1..n
    OBVIOUS
  <1>2. \A a : Answered(d, e, m, a) => Answered(d, e, n, a)
    BY <1>1 DEF Answered
  <1>3. QED BY <1>2 DEF Judging

LEMMA ValidationKeepsInv ==
    ASSUME ValidationInv, ValidateStep
    PROVE  ValidationInv'
  <1>1. stage' # "received" /\ entry' = entry /\ entry.validated
    BY DEF ValidateStep, Validate, ValidationInv, Validating
  <1> SUFFICES ASSUME entry.validated
               PROVE  /\ Judging(doc', entry, Progress(stage'))
                      /\ Progress(stage') <= 6 => NoneMadeUp(doc'.objects)
    BY <1>1 DEF ValidationInv
  <1>2. Judging(doc, entry, Progress(stage)) /\ (Progress(stage) <= 6 => NoneMadeUp(doc.objects))
    BY DEF ValidationInv
  <1>3. CASE Validate("files", "spans", ValidatePlainFiles(doc))
    BY <1>2, <1>3, FilesJudge DEF Validate, Progress
  <1>4. CASE Validate("spans", "identities", ValidateSourceSpans(doc))
    BY <1>2, <1>4, SpansJudge DEF Validate, Progress
  <1>5. CASE Validate("identities", "sections", ValidateIdentities(doc))
    BY <1>2, <1>5, IdentitiesJudge DEF Validate, Progress
  <1>6. CASE Validate("sections", "items", ValidateSections(doc))
    BY <1>2, <1>6, SectionsJudge DEF Validate, Progress
  <1>7. CASE Validate("items", "objects", ValidateItems(doc))
    BY <1>2, <1>7, ItemsJudge DEF Validate, Progress
  <1>8. CASE Validate("objects", "layer", ValidateObjects(doc))
    BY <1>2, <1>8, ObjectsJudge DEF Validate, Progress
  <1>9. CASE Validate("layer", "levels", ValidateLayerIdentities(doc, entry.obligations, entry.checks))
    BY <1>2, <1>9, LayerJudge DEF Validate, Progress
  <1>10. CASE Validate("levels", "facts", ValidateReifiedLevels(doc))
    BY <1>2, <1>10, LevelsJudge DEF Validate, Progress
  <1>11. CASE Validate("facts", "questions", ValidateObjectFacts(doc))
    BY <1>2, <1>11, FactsJudge DEF Validate, Progress
  <1>12. CASE Validate("questions", "obligations", ValidateQuestionObjects(doc))
    BY <1>2, <1>12, QuestionsJudge DEF Validate, Progress
  <1>13. CASE Validate("obligations", "checks", ValidateObligationRecords(doc, entry.obligations))
    BY <1>2, <1>13, ObligationsJudge DEF Validate, Progress
  <1>14. CASE Validate("checks", "edges", ValidateCheckRecords(doc, entry.checks))
    BY <1>2, <1>14, ChecksJudge DEF Validate, Progress
  <1>15. CASE Validate("edges", "presence", ValidateEdgeProvenance(doc))
    BY <1>2, <1>15, EdgesJudge DEF Validate, Progress
  <1>16. CASE Validate("presence", "validated", ValidatePresence(doc))
    BY <1>2, <1>16, PresenceJudges DEF Validate, Progress
  <1>17. QED BY <1>3, <1>4, <1>5, <1>6, <1>7, <1>8, <1>9, <1>10, <1>11, <1>12, <1>13, <1>14, <1>15, <1>16
             DEF ValidateStep

LEMMA ValidationInvariant == Spec => []ValidationInv
  <1>1. Init => ValidationInv
    BY DEF Init, ValidationInv, Validating
  <1>2. ValidationInv /\ [Next]_vars => ValidationInv'
    <2> SUFFICES ASSUME ValidationInv, [Next]_vars
                 PROVE  ValidationInv'
      OBVIOUS
    <2>1. CASE BeginValidation
      <3>1. doc \in Inputs /\ entry'.obligations = doc.obligations /\ entry'.checks = doc.checks
            /\ doc' = doc /\ stage' = "files" /\ entry'.validated
        BY <2>1 DEF BeginValidation, ValidationInv
      <3>2. Judging(doc, entry', 0) /\ NoneMadeUp(doc.objects)
        BY <3>1, JudgingBegins
      <3>3. QED BY <3>1, <3>2 DEF ValidationInv, Progress
    <2>2. CASE ValidateStep
      BY <2>2, ValidationKeepsInv
    <2>3. CASE Raise \/ BeginEmission \/ EmitStep
      <3>1. /\ UNCHANGED <<doc, entry>> /\ stage' # "received" /\ stage' \notin Validating
            /\ Progress(stage') = 16
        BY <2>3 DEF Raise, BeginEmission, EmitStep, Emit, ParentRound, Progress, Validating
      <3>2. Progress(stage) \in Nat /\ Progress(stage) <= 16 /\ 16 \in Nat
        BY DEF Progress
      <3>3. entry.validated => Judging(doc, entry, 16)
        BY <3>2, JudgedLess DEF ValidationInv
      <3>4. QED BY <3>1, <3>3 DEF ValidationInv
    <2>4. CASE Done \/ UNCHANGED vars
      BY <2>4 DEF Done, vars, ValidationInv
    <2>5. QED BY <2>1, <2>2, <2>3, <2>4 DEF Next
  <1>3. QED BY <1>1, <1>2, PTL DEF Spec

\* Validation never answers one obligation with two statuses (add_check,
\* validators.py:34, in every judgement of validators.py:268-1884), whatever the
\* document, when the identities it comes with are each carried once: no two
\* steps judge one property, and within a step a record's identity, or its
\* place, tells its judgements from the others'.
THEOREM VerdictsAreOne == Spec => []OneVerdict
  <1>1. ValidationInv => OneVerdict
    <2> SUFFICES ASSUME ValidationInv, stage = "validated", CarriedOnceEach,
                        NEW a \in Range(Added(doc.checks, entry.checks)),
                        NEW b \in Range(Added(doc.checks, entry.checks)), a.obligation = b.obligation
                 PROVE  a = b
      BY DEF OneVerdict
    <2>1. PICK s : Answered(doc, entry, 16, s)
      BY DEF ValidationInv, Judging, Progress, Validating
    <2>2. IsList(entry.checks)
      BY DEF ValidationInv, Judging, IsLayer, Validating
    <2>3. Added(doc.checks, entry.checks) = s
      BY <2>1, <2>2, Appended DEF Answered
    <2>4. CarriedOnceIn(doc, entry)
      BY DEF CarriedOnceEach, CarriedOnceIn, RecordLists
    <2>5. QED BY <2>1, <2>3, <2>4 DEF Answered, OneAnswerEach
  <1>2. QED BY <1>1, ValidationInvariant, PTL

-----------------------------------------------------------------------------
(* What is unknown is asked. *)

AnswersIn(d, e) == Range(Added(d.checks, e.checks))

LEMMA AnswersGrow ==
    ASSUME NEW d, NEW e, NEW n, Judging(d, e, n), NEW r, NEW K, Extended(d, r, K)
    PROVE  \A c \in AnswersIn(r, e) : c \in AnswersIn(d, e) \/ \E j \in K : c = CheckOf(j)
  <1>1. PICK S : S = {CheckOf(j) : j \in K}
    OBVIOUS
  <1>2. PICK cs \in Seq(S) : r.checks = d.checks \o cs
    BY <1>1 DEF Extended
  <1>3. IsList(cs) /\ Range(cs) \subseteq S
    BY SequenceIsList DEF Range
  <1>4. PICK a : Answered(d, e, n, a)
    BY DEF Judging
  <1>5. IsList(e.checks) /\ IsList(d.checks)
    BY DEF Judging, IsLayer, Fit, RecordLists
  <1>6. Longer(d.checks, e.checks, a) /\ Longer(r.checks, d.checks, cs)
    BY <1>2, <1>3, <1>4, <1>5 DEF Answered, Longer
  <1>7. PICK b : b = a \o cs
    OBVIOUS
  <1>8. Longer(r.checks, e.checks, b)
    BY <1>6, <1>7, LongerStill
  <1>9. Range(b) = Range(a) \cup Range(cs)
    BY <1>6, <1>7, BothLists DEF Longer
  <1>10. Added(d.checks, e.checks) = a /\ Added(r.checks, e.checks) = b
    <2>1. ASSUME NEW x, NEW y, NEW z, Longer(x, y, z)
          PROVE  Added(x, y) = z
      BY <2>1, Appended DEF Longer
    <2>2. QED BY <2>1, <1>6, <1>8
  <1>11. QED BY <1>1, <1>3, <1>9, <1>10 DEF AnswersIn

AskedProperties == {LevelProperty, "fact-has-supported-arity"}

\* The obligation a question blocks.
BlockedBy(q) == q.facts[3].args[2]

AllQuestions(objects) == LevelQuestions(objects) \cup FactQuestions(objects)

MadeUpIn(d, Q) == \A obj \in Range(d.objects) : obj.typed /\ IsMadeUp(obj.id) => obj \in Q

\* Every answer that is unknown for want of a level or a schema is asked.
AsksUnknowns(d, e) ==
    CarriedOnce(d.objects) =>
        \A c \in AnswersIn(d, e) : c.status = "Unknown" /\ c.property \in AskedProperties =>
            \E q \in Range(d.objects) : q \in AllQuestions(d.objects) /\ BlockedBy(q) = c.obligation

Questioned(d, e, n) ==
    /\ n <= 9 => MadeUpIn(d, {})
    /\ n <= 10 => MadeUpIn(d, LevelQuestions(d.objects))
    /\ MadeUpIn(d, AllQuestions(d.objects))
    /\ AsksUnknowns(d, e)

LEMMA GroupsOfAsked == Group(LevelProperty) = 10 /\ Group("fact-has-supported-arity") = 11
  BY DEF Group, LevelProperty

LEMMA QuestionedFurther ==
    ASSUME NEW d, NEW e, NEW n \in Nat, Judging(d, e, n), Questioned(d, e, n), NEW r,
           NEW first \in Nat, NEW last \in Nat, Steps(d, e, r, first, last), n <= last, last <= 9 \/ first >= 12
    PROVE  Questioned(r, e, last)
  <1>1. PICK K : Adds(d, r, K, first, last, CarriedOnceIn(d, e))
    BY DEF Steps
  <1>2. Extended(d, r, K) /\ \A j \in K : Group(j.property) \in first..last
    BY <1>1 DEF Adds, Judged
  <1>3. r.objects = d.objects
    BY <1>2 DEF Extended
  <1>4. \A c \in AnswersIn(r, e) : c \in AnswersIn(d, e) \/ \E j \in K : c = CheckOf(j)
    BY <1>2, AnswersGrow
  <1>5. \A j \in K : CheckOf(j).property = j.property
    BY DEF CheckOf, Check
  <1>6. \A c \in AnswersIn(r, e) : c \in AnswersIn(d, e) \/ c.property \notin AskedProperties
    BY <1>2, <1>4, <1>5, GroupsOfAsked DEF AskedProperties
  <1>7. AsksUnknowns(r, e)
    BY <1>3, <1>6 DEF Questioned, AsksUnknowns
  <1>8. QED BY <1>3, <1>7 DEF Questioned, MadeUpIn

\* More objects, more questions.
LEMMA MoreQuestions ==
    ASSUME NEW s, NEW t, Range(s) \subseteq Range(t)
    PROVE  LevelQuestions(s) \subseteq LevelQuestions(t) /\ FactQuestions(s) \subseteq FactQuestions(t)
  BY DEF LevelQuestions, FactQuestions, Asking

\* What a question is.
LEMMA LevelQuestionIs ==
    ASSUME NEW obj
    PROVE  LET q == LevelQuestion(obj) IN
           /\ q.typed /\ q.listed /\ q.role = "QuestionObject"
           /\ q.id = <<"question", "unsupported-petta-reified-level">> \o Append(obj.id, obj.level)
           /\ BlockedBy(q) = ObligationId(LevelProperty, obj.id)
  BY DEF LevelQuestion, Question, Object, BlockedBy, Fact

LEMMA PredicateQuestionIs ==
    ASSUME NEW obj, NEW i
    PROVE  LET q == PredicateQuestion(obj, i) IN
           /\ q.typed /\ q.listed /\ q.role = "QuestionObject"
           /\ q.id = <<"question", "unsupported-fact-predicate">> \o FactTarget(obj, i)
           /\ BlockedBy(q) = ObligationId("fact-has-supported-arity", FactTarget(obj, i))
  BY DEF PredicateQuestion, Question, Object, BlockedBy, Fact

LEMMA QuestionIds ==
    ASSUME NEW x, NEW y, NEW s, IsList(s), NEW t, IsList(t)
    PROVE  /\ IsMadeUp(<<"question", x>> \o s)
           /\ <<"question", x>> \o s = <<"question", y>> \o t => x = y /\ s = t
  <1>1. ASSUME NEW z, NEW v, IsList(v)
        PROVE  LET q == <<"question", z>> \o v IN q # <<>> /\ q[1] = "question" /\ q[2] = z
    <2>1. PICK C : C = Range(v) \cup {"question", z}
      OBVIOUS
    <2>2. v \in Seq(C) /\ <<"question", z>> \in Seq(C)
      BY <1>1, <2>1 DEF IsList
    <2>3. QED BY <2>2
  <1>2. IsMadeUp(<<"question", x>> \o s)
    BY <1>1 DEF IsMadeUp
  <1>3. ASSUME <<"question", x>> \o s = <<"question", y>> \o t
        PROVE  x = y /\ s = t
    <2>1. x = y
      BY <1>1, <1>3
    <2>2. IsList(<<"question", x>>)
      BY Written DEF Told
    <2>3. QED BY <2>1, <2>2, <1>3, SamePrefix
  <1>4. QED BY <1>2, <1>3

LEMMA SameAppended ==
    ASSUME NEW s, IsList(s), NEW t, IsList(t), NEW x, NEW y, Append(s, x) = Append(t, y)
    PROVE  s = t /\ IsList(Append(s, x))
  <1>1. PICK C : C = Range(s) \cup Range(t) \cup {x, y}
    OBVIOUS
  <1>2. s \in Seq(C) /\ t \in Seq(C) /\ x \in C /\ y \in C
    BY <1>1 DEF IsList
  <1>3. s = t
    BY <1>2, AppendProperties
  <1>4. Append(s, x) \in Seq(C)
    BY <1>2
  <1>5. QED BY <1>3, <1>4, SequenceIsList

LEMMA OneObject ==
    ASSUME NEW objects, CarriedOnce(objects), NEW o \in Range(objects), NEW p \in Range(objects),
           o.typed, p.typed, o.id = p.id
    PROVE  o = p
  BY DEF CarriedOnce, Range

\* Judgements that are left unknown.
LEMMA UnknownLevels ==
    ASSUME NEW d, NEW j \in LevelSet(d), j.status = "Unknown"
    PROVE  \E obj \in Range(d.objects) : Unsupported(obj) /\ CheckOf(j).obligation = ObligationId(LevelProperty, obj.id)
  <1> DEFINE J(obj) == Judgement(LevelProperty, obj.id, obj.span, IF obj.level \in SupportedLevels THEN "Pass" ELSE "Unknown")
             ss == [i \in DOMAIN d.objects |-> LET obj == d.objects[i] IN When(obj.typed, <<J(obj)>>)]
  <1>1. LevelSet(d) = AllOf(ss)
    BY DEF LevelSet
  <1>2. PICK i \in DOMAIN d.objects : j \in Range(ss[i])
    BY <1>1 DEF AllOf
  <1>3. PICK obj : obj = d.objects[i]
    OBVIOUS
  <1>4. j \in Range(When(obj.typed, <<J(obj)>>))
    BY <1>2, <1>3
  <1>5. obj.typed /\ j = J(obj)
    <2> HIDE DEF J
    <2>1. Told(When(obj.typed, <<J(obj)>>), Under(obj.typed, {J(obj)}))
      BY LevelGroup DEF J
    <2>2. QED BY <2>1, <1>4 DEF Told, Under
  <1>6. obj \in Range(d.objects)
    BY <1>3 DEF Range
  <1>7. QED BY <1>5, <1>6 DEF Judgement, CheckOf, Check, Unsupported

LEMMA UnknownFacts ==
    ASSUME NEW d, IsList(d.objects), NEW j \in FactSet(d), j.status = "Unknown"
    PROVE  \E obj \in Asking(d.objects) : \E i \in Schemaless(obj) :
               CheckOf(j).obligation = ObligationId("fact-has-supported-arity", FactTarget(obj, i))
  <1>1. PICK k \in Carrying(d.objects) :
            j \in AllOf([i \in DOMAIN d.objects[k].facts |-> FactJudgements(d, d.objects[k], i)])
    BY DEF FactSet
  <1>2. PICK i \in DOMAIN d.objects[k].facts : j \in Range(FactJudgements(d, d.objects[k], i))
    BY <1>1 DEF AllOf
  <1>3. PICK obj : obj = d.objects[k]
    OBVIOUS
  <1>4. obj \in Asking(d.objects)
    BY <1>1, <1>3 DEF Carrying, Asking, Range
  <1> DEFINE f == obj.facts[i]
             J(property, status) == Judgement(property, FactTarget(obj, i), obj.span, status)
             T(property, holds) == Test(property, FactTarget(obj, i), obj.span, holds)
  <1>5. \E a, b, c \in BOOLEAN :
          Told(FactJudgements(d, obj, i),
                IF ~PlainFact(f) THEN {J("fact-has-supported-arity", "Fail")}
                ELSE IF ~HasSchema(f) THEN {J("fact-has-supported-arity", "Unknown")}
                ELSE IF ~RightArity(f) THEN {J("fact-has-supported-arity", "Fail")}
                ELSE {J("fact-has-supported-arity", "Pass"),
                      T("fact-arguments-are-backend-safe", a),
                      T("fact-subject-matches-object", b),
                      T("fact-references-known-targets", c)})
    <2>1. PICK a \in BOOLEAN : a = (\A p \in DOMAIN f.args : SafeArgument(f, p))
      OBVIOUS
    <2>2. PICK b \in BOOLEAN : b = SubjectIsOwner(obj, f)
      BY DEF SubjectIsOwner
    <2>3. PICK c \in BOOLEAN : c = ReferencesResolve(f, SafeIds(d.objects), SafeIds(d.items), SafeIds(d.obligations))
      BY DEF ReferencesResolve
    <2>4. QED BY <2>1, <2>2, <2>3, FactTold
  <1>6. PlainFact(f) /\ ~HasSchema(f) /\ j = J("fact-has-supported-arity", "Unknown")
    <2>1. \A p \in {"Pass", "Fail", "Unknown"} : \A q : J(q, p).status = p
      BY DEF Judgement
    <2>2. \A q : \A a \in BOOLEAN : T(q, a).status # "Unknown"
      BY DEF Judgement, Test
    <2>3. j \in Range(FactJudgements(d, obj, i))
      BY <1>2, <1>3
    <2> HIDE DEF f, J, T
    <2>4. QED BY <1>5, <2>1, <2>2, <2>3 DEF Told
  <1>7. i \in Schemaless(obj)
    BY <1>2, <1>3, <1>6 DEF Schemaless
  <1>8. QED BY <1>4, <1>6, <1>7 DEF CheckOf, Check, Judgement

\* The judgements and the questions of levels.
LEMMA LevelsQuestioned ==
    ASSUME NEW d, NEW e, Judging(d, e, 9), Questioned(d, e, 9)
    PROVE  Questioned(ValidateReifiedLevels(d), e, 10)
  <1>1. Fit(d) /\ IsList(d.objects) /\ HaveIds(d.objects)
    BY DEF Judging, Fit, RecordLists
  <1>2. PICK r : r = LevelsJudged(d)
    OBVIOUS
  <1>3. Extended(d, r, LevelSet(d))
    BY <1>1, <1>2, LevelsAdded DEF LevelsJudged, Adds
  <1>4. PICK fresh : ValidateReifiedLevels(d) = AddObjects(r, fresh) /\ AsksEach(fresh, d, LevelQuestions(d.objects))
    BY <1>1, <1>2, LevelsAsked
  <1>5. PICK u : u = AddObjects(r, fresh)
    OBVIOUS
  <1>6. PICK objects : objects = d.objects \o fresh
    OBVIOUS
  <1>7. u.objects = objects /\ u.checks = r.checks
    <2>1. r = [files |-> r.files, spans |-> r.spans, sections |-> r.sections, items |-> r.items,
               objects |-> d.objects, obligations |-> r.obligations, checks |-> r.checks,
               obligationIds |-> r.obligationIds, checkIds |-> r.checkIds]
      BY <1>3 DEF Extended, IsDocument
    <2>2. u = [r EXCEPT !.objects = r.objects \o fresh]
      BY <1>5 DEF AddObjects
    <2>3. r.objects = d.objects
      BY <1>3 DEF Extended
    <2>4. u = [r EXCEPT !.objects = objects]
      BY <2>2, <2>3, <1>6
    <2>5. QED BY <2>1, <2>4
  <1>8. IsList(objects) /\ Range(objects) = Range(d.objects) \cup Range(fresh)
    <2>1. PICK s : s = d.objects
      OBVIOUS
    <2>2. IsList(s) /\ IsList(fresh)
      BY <2>1, <1>1, <1>4 DEF AsksEach
    <2>3. IsList(s \o fresh) /\ Range(s \o fresh) = Range(s) \cup Range(fresh)
      BY <2>2, BothLists
    <2>4. QED BY <2>1, <2>3, <1>6
  <1>9. LevelQuestions(d.objects) \subseteq LevelQuestions(objects)
    BY <1>8, MoreQuestions
  <1>10. \A obj \in Range(d.objects) : ~(obj.typed /\ IsMadeUp(obj.id))
    BY DEF Questioned, MadeUpIn
  <1>11. MadeUpIn(u, LevelQuestions(objects))
    BY <1>4, <1>7, <1>8, <1>9, <1>10 DEF MadeUpIn, AsksEach
  <1>12. \A obj \in Range(d.objects) : obj.typed => IsList(obj.id)
    BY <1>1 DEF HaveIds, Range
  <1>13. ASSUME CarriedOnce(objects), NEW obj \in Range(d.objects), Unsupported(obj)
         PROVE  LevelQuestion(obj) \in Range(objects) /\ LevelQuestion(obj) \in LevelQuestions(objects)
    <2>1. PICK q : q = LevelQuestion(obj)
      OBVIOUS
    <2>2. q \in LevelQuestions(d.objects)
      BY <1>13, <2>1 DEF LevelQuestions
    <2>3. PICK id, level : id = obj.id /\ level = obj.level
      OBVIOUS
    <2>4. IsList(id) /\ q.id = <<"question", "unsupported-petta-reified-level">> \o Append(id, level)
      BY <1>12, <1>13, <2>1, <2>3, LevelQuestionIs DEF Unsupported
    <2>5. IsList(Append(id, level))
      BY <2>4, SameAppended
    <2>6. IsMadeUp(q.id)
      BY <2>4, <2>5, QuestionIds
    <2>7. q.id \notin SafeIds(d.objects)
      BY <2>6, <1>10 DEF SafeIds
    <2>8. PICK f \in Range(fresh) : f.id = q.id
      BY <1>4, <2>2, <2>7 DEF AsksEach
    <2>9. PICK other \in Range(d.objects) : Unsupported(other) /\ f = LevelQuestion(other)
      BY <1>4 DEF AsksEach, LevelQuestions
    <2>10. PICK id2, level2 : id2 = other.id /\ level2 = other.level
      OBVIOUS
    <2>11. IsList(id2) /\ f.id = <<"question", "unsupported-petta-reified-level">> \o Append(id2, level2)
      BY <1>12, <2>9, <2>10, LevelQuestionIs DEF Unsupported
    <2>12. IsList(Append(id2, level2))
      BY <2>11, SameAppended
    <2>13. <<"question", "unsupported-petta-reified-level">> \o Append(id, level) =
               <<"question", "unsupported-petta-reified-level">> \o Append(id2, level2)
      BY <2>4, <2>8, <2>11
    <2>14. Append(id, level) = Append(id2, level2)
      BY <2>5, <2>12, <2>13, QuestionIds
    <2>15. id = id2
      BY <2>4, <2>11, <2>14, SameAppended
    <2>16. obj = other
      BY <1>8, <1>13, <2>3, <2>9, <2>10, <2>15, OneObject DEF Unsupported
    <2>17. QED BY <1>8, <1>9, <2>1, <2>2, <2>9, <2>16
  <1>14. CarriedOnce(objects) => CarriedOnce(d.objects)
    <2>1. PICK s : s = d.objects
      OBVIOUS
    <2>2. IsList(s) /\ IsList(fresh)
      BY <2>1, <1>1, <1>4 DEF AsksEach
    <2>3. QED BY <2>1, <2>2, <1>6, CarriedOncePrefix
  <1>15. \A c \in AnswersIn(u, e) : c \in AnswersIn(d, e) \/ \E j \in LevelSet(d) : c = CheckOf(j)
    <2>1. AnswersIn(u, e) = AnswersIn(r, e)
      BY <1>7 DEF AnswersIn
    <2>2. QED BY <2>1, <1>3, AnswersGrow
  <1>16. ASSUME CarriedOnce(objects), NEW c \in AnswersIn(u, e), c.status = "Unknown", c.property \in AskedProperties
         PROVE  \E q \in Range(objects) : q \in AllQuestions(objects) /\ BlockedBy(q) = c.obligation
    <2>1. CASE c \in AnswersIn(d, e)
      <3>1. PICK q \in Range(d.objects) : q \in AllQuestions(d.objects) /\ BlockedBy(q) = c.obligation
        BY <2>1, <1>14, <1>16 DEF Questioned, AsksUnknowns
      <3>2. AllQuestions(d.objects) \subseteq AllQuestions(objects)
        BY <1>8, MoreQuestions DEF AllQuestions
      <3>3. QED BY <3>1, <3>2, <1>8
    <2>2. CASE \E j \in LevelSet(d) : c = CheckOf(j)
      <3>1. PICK j \in LevelSet(d) : c = CheckOf(j)
        BY <2>2
      <3>2. j.status = "Unknown"
        BY <3>1, <1>16 DEF CheckOf, Check
      <3>3. PICK obj \in Range(d.objects) : Unsupported(obj) /\ c.obligation = ObligationId(LevelProperty, obj.id)
        BY <3>1, <3>2, UnknownLevels
      <3>4. QED BY <3>3, <1>13, <1>16, LevelQuestionIs DEF AllQuestions
    <2>3. QED BY <2>1, <2>2, <1>15
  <1>17. AsksUnknowns(u, e)
    BY <1>7, <1>16 DEF AsksUnknowns
  <1>18. MadeUpIn(u, AllQuestions(objects))
    BY <1>11 DEF MadeUpIn, AllQuestions
  <1>19. Questioned(u, e, 10)
    BY <1>7, <1>11, <1>17, <1>18 DEF Questioned
  <1>20. QED BY <1>4, <1>5, <1>19

\* The judgements and the questions of facts.
LEMMA FactsQuestioned ==
    ASSUME NEW d, NEW e, Judging(d, e, 10), Questioned(d, e, 10)
    PROVE  Questioned(ValidateObjectFacts(d), e, 11)
  <1>1. Fit(d) /\ IsList(d.objects) /\ HaveIds(d.objects) /\ FactLists(d.objects)
    BY DEF Judging, Fit, RecordLists
  <1>2. PICK r : r = FactsJudged(d)
    OBVIOUS
  <1>3. Extended(d, r, FactSet(d))
    BY <1>1, <1>2, FactsAdded DEF FactsJudged, Adds
  <1>4. PICK fresh : ValidateObjectFacts(d) = AddObjects(r, fresh) /\ AsksEach(fresh, d, FactQuestions(d.objects))
    BY <1>1, <1>2, FactsAsked
  <1>5. PICK u : u = AddObjects(r, fresh)
    OBVIOUS
  <1>6. PICK objects : objects = d.objects \o fresh
    OBVIOUS
  <1>7. u.objects = objects /\ u.checks = r.checks
    <2>1. r = [files |-> r.files, spans |-> r.spans, sections |-> r.sections, items |-> r.items,
               objects |-> d.objects, obligations |-> r.obligations, checks |-> r.checks,
               obligationIds |-> r.obligationIds, checkIds |-> r.checkIds]
      BY <1>3 DEF Extended, IsDocument
    <2>2. u = [r EXCEPT !.objects = r.objects \o fresh]
      BY <1>5 DEF AddObjects
    <2>3. r.objects = d.objects
      BY <1>3 DEF Extended
    <2>4. u = [r EXCEPT !.objects = objects]
      BY <2>2, <2>3, <1>6
    <2>5. QED BY <2>1, <2>4
  <1>8. IsList(objects) /\ Range(objects) = Range(d.objects) \cup Range(fresh)
    <2>1. PICK s : s = d.objects
      OBVIOUS
    <2>2. IsList(s) /\ IsList(fresh)
      BY <2>1, <1>1, <1>4 DEF AsksEach
    <2>3. IsList(s \o fresh) /\ Range(s \o fresh) = Range(s) \cup Range(fresh)
      BY <2>2, BothLists
    <2>4. QED BY <2>1, <2>3, <1>6
  <1>9. LevelQuestions(d.objects) \subseteq LevelQuestions(objects) /\ FactQuestions(d.objects) \subseteq FactQuestions(objects)
    BY <1>8, MoreQuestions
  <1>10. \A obj \in Range(d.objects) : obj.typed /\ IsMadeUp(obj.id) => obj \in LevelQuestions(d.objects)
    BY DEF Questioned, MadeUpIn
  <1>11. MadeUpIn(u, AllQuestions(objects))
    BY <1>4, <1>7, <1>8, <1>9, <1>10 DEF MadeUpIn, AsksEach, AllQuestions
  <1>12. \A obj \in Range(d.objects) : (obj.typed => IsList(obj.id)) /\ IsList(obj.facts)
    BY <1>1 DEF HaveIds, Range, FactLists
  <1>a. ASSUME NEW obj \in Asking(d.objects), NEW i \in Schemaless(obj)
        PROVE  obj \in Range(d.objects) /\ obj.typed /\ IsList(obj.id) /\ i \in Nat /\ IsList(FactTarget(obj, i))
    <2>1. obj \in Range(d.objects) /\ obj.typed /\ IsList(obj.id) /\ IsList(obj.facts)
      BY <1>12 DEF Asking
    <2>2. i \in Nat
      BY <2>1 DEF Schemaless, IsList
    <2>3. Place(i) \in Seq({"|"})
      BY <2>2 DEF Place
    <2>4. IsList(Place(i))
      BY <2>3, SequenceIsList
    <2>5. \A x : IsList(<<x>>)
      BY Written DEF Told
    <2>6. \A s, t : IsList(s) /\ IsList(t) => IsList(s \o t)
      BY BothLists
    <2>7. IsList(FactTarget(obj, i))
      BY <2>1, <2>4, <2>5, <2>6 DEF FactTarget
    <2>8. QED BY <2>1, <2>2, <2>7
  <1>13. ASSUME CarriedOnce(objects), NEW obj \in Asking(d.objects), NEW i \in Schemaless(obj)
         PROVE  PredicateQuestion(obj, i) \in Range(objects) /\ PredicateQuestion(obj, i) \in FactQuestions(objects)
    <2>1. PICK q : q = PredicateQuestion(obj, i)
      OBVIOUS
    <2>2. q \in FactQuestions(d.objects)
      BY <2>1 DEF FactQuestions
    <2>3. PICK t : t = FactTarget(obj, i)
      OBVIOUS
    <2>4. IsList(t) /\ q.id = <<"question", "unsupported-fact-predicate">> \o t
      BY <1>a, <2>1, <2>3, PredicateQuestionIs
    <2>6. IsMadeUp(q.id)
      BY <2>4, QuestionIds
    <2>7. q.id \notin SafeIds(d.objects)
      <3> SUFFICES ASSUME NEW o \in Range(d.objects), o.typed, o.id = q.id PROVE FALSE
        BY DEF SafeIds
      <3>1. PICK p \in Range(d.objects) : Unsupported(p) /\ o = LevelQuestion(p)
        BY <1>10, <2>6 DEF LevelQuestions
      <3>2. PICK id, level : id = p.id /\ level = p.level
        OBVIOUS
      <3>3. IsList(id) /\ o.id = <<"question", "unsupported-petta-reified-level">> \o Append(id, level)
        BY <1>12, <3>1, <3>2, LevelQuestionIs DEF Unsupported
      <3>4. IsList(Append(id, level))
        BY <3>3, SameAppended
      <3>5. <<"question", "unsupported-petta-reified-level">> \o Append(id, level) =
               <<"question", "unsupported-fact-predicate">> \o t
        BY <2>4, <3>3
      <3>6. "unsupported-petta-reified-level" = "unsupported-fact-predicate"
        BY <2>4, <3>4, <3>5, QuestionIds
      <3>7. QED BY <3>6
    <2>8. PICK f \in Range(fresh) : f.id = q.id
      BY <1>4, <2>2, <2>7 DEF AsksEach
    <2>9. PICK other \in Asking(d.objects) : \E k \in Schemaless(other) : f = PredicateQuestion(other, k)
      BY <1>4 DEF AsksEach, FactQuestions
    <2>10. PICK k \in Schemaless(other) : f = PredicateQuestion(other, k)
      BY <2>9
    <2>11. PICK u2 : u2 = FactTarget(other, k)
      OBVIOUS
    <2>12. IsList(u2) /\ f.id = <<"question", "unsupported-fact-predicate">> \o u2
      BY <1>a, <2>10, <2>11, PredicateQuestionIs
    <2>13. <<"question", "unsupported-fact-predicate">> \o t = <<"question", "unsupported-fact-predicate">> \o u2
      BY <2>4, <2>8, <2>12
    <2>14. t = u2
      <3>1. PICK w : w = <<"question", "unsupported-fact-predicate">>
        OBVIOUS
      <3>2. IsList(w)
        BY <3>1, Written DEF Told
      <3>3. w \o t = w \o u2
        BY <2>13, <3>1
      <3>4. IsList(t) /\ IsList(u2)
        BY <2>4, <2>12
      <3>5. QED BY <3>2, <3>3, <3>4, SamePrefix
    <2>15. FactTarget(obj, i) = FactTarget(other, k)
      BY <2>3, <2>11, <2>14
    <2>16. obj.id = other.id /\ i = k
      <3>1. IsList(obj.id) /\ IsList(other.id) /\ i \in Nat /\ k \in Nat
        BY <1>a
      <3>2. QED BY <3>1, <2>15, SameFact
    <2>17. obj = other
      BY <1>8, <1>13, <1>a, <2>16, OneObject
    <2>18. QED BY <1>8, <1>9, <2>1, <2>2, <2>10, <2>16, <2>17
  <1>14. CarriedOnce(objects) => CarriedOnce(d.objects)
    <2>1. PICK s : s = d.objects
      OBVIOUS
    <2>2. IsList(s) /\ IsList(fresh)
      BY <2>1, <1>1, <1>4 DEF AsksEach
    <2>3. QED BY <2>1, <2>2, <1>6, CarriedOncePrefix
  <1>15. \A c \in AnswersIn(u, e) : c \in AnswersIn(d, e) \/ \E j \in FactSet(d) : c = CheckOf(j)
    <2>1. AnswersIn(u, e) = AnswersIn(r, e)
      BY <1>7 DEF AnswersIn
    <2>2. QED BY <2>1, <1>3, AnswersGrow
  <1>16. ASSUME CarriedOnce(objects), NEW c \in AnswersIn(u, e), c.status = "Unknown", c.property \in AskedProperties
         PROVE  \E q \in Range(objects) : q \in AllQuestions(objects) /\ BlockedBy(q) = c.obligation
    <2>1. CASE c \in AnswersIn(d, e)
      <3>1. PICK q \in Range(d.objects) : q \in AllQuestions(d.objects) /\ BlockedBy(q) = c.obligation
        BY <2>1, <1>14, <1>16 DEF Questioned, AsksUnknowns
      <3>2. AllQuestions(d.objects) \subseteq AllQuestions(objects)
        BY <1>8, MoreQuestions DEF AllQuestions
      <3>3. QED BY <3>1, <3>2, <1>8
    <2>2. CASE \E j \in FactSet(d) : c = CheckOf(j)
      <3>1. PICK j \in FactSet(d) : c = CheckOf(j)
        BY <2>2
      <3>2. j.status = "Unknown"
        BY <3>1, <1>16 DEF CheckOf, Check
      <3>3. PICK obj \in Asking(d.objects) : \E i \in Schemaless(obj) :
                c.obligation = ObligationId("fact-has-supported-arity", FactTarget(obj, i))
        BY <1>1, <3>1, <3>2, UnknownFacts
      <3>4. QED BY <3>3, <1>13, <1>16, PredicateQuestionIs DEF AllQuestions
    <2>3. QED BY <2>1, <2>2, <1>15
  <1>17. AsksUnknowns(u, e)
    BY <1>7, <1>16 DEF AsksUnknowns
  <1>19. Questioned(u, e, 11)
    BY <1>7, <1>11, <1>17 DEF Questioned
  <1>20. QED BY <1>4, <1>5, <1>19

-----------------------------------------------------------------------------
(* The invariant of what is asked. *)

AskedInv == entry.validated => Questioned(doc, entry, Progress(stage))

LEMMA AskingBegins ==
    ASSUME NEW d \in Inputs, NEW e, e.obligations = d.obligations, e.checks = d.checks
    PROVE  Questioned(d, e, 0)
  <1>1. Judging(d, e, 0) /\ NoneMadeUp(d.objects)
    BY JudgingBegins
  <1>2. MadeUpIn(d, {})
    BY <1>1 DEF NoneMadeUp, MadeUpIn, Range
  <1>3. AnswersIn(d, e) = {}
    <2>1. IsList(d.checks)
      BY <1>1 DEF Judging, Fit, RecordLists
    <2>2. IsList(<<>>) /\ Range(<<>>) = {}
      BY DEF IsList, Range
    <2>3. PICK s : s = d.checks
      OBVIOUS
    <2>4. s \o <<>> = s
      BY <2>1, <2>3 DEF IsList
    <2>5. Added(s, s) = <<>>
      BY <2>1, <2>2, <2>3, <2>4, Appended
    <2>6. QED BY <2>2, <2>3, <2>5 DEF AnswersIn
  <1>4. QED BY <1>2, <1>3 DEF Questioned, MadeUpIn, AsksUnknowns

LEMMA AskedLess ==
    ASSUME NEW d, NEW e, NEW m \in Nat, NEW n \in Nat, m <= n, Questioned(d, e, m)
    PROVE  Questioned(d, e, n)
  BY DEF Questioned

LEMMA ValidationKeepsAsked ==
    ASSUME ValidationInv, AskedInv, ValidateStep
    PROVE  AskedInv'
  <1>1. entry' = entry /\ entry.validated
    BY DEF ValidateStep, Validate, ValidationInv, Validating
  <1>2. /\ Judging(doc, entry, Progress(stage)) /\ (Progress(stage) <= 6 => NoneMadeUp(doc.objects))
        /\ Questioned(doc, entry, Progress(stage))
    BY <1>1 DEF ValidationInv, AskedInv
  <1> SUFFICES Questioned(doc', entry, Progress(stage'))
    BY <1>1 DEF AskedInv
  <1>a. ASSUME NEW n \in Nat, NEW first \in Nat, NEW last \in Nat, n <= last, last <= 9 \/ first >= 12,
               Progress(stage) = n, Progress(stage') = last, Steps(doc, entry, doc', first, last)
        PROVE  Questioned(doc', entry, Progress(stage'))
    BY <1>2, <1>a, QuestionedFurther
  <1>3. CASE Validate("files", "spans", ValidatePlainFiles(doc))
    BY <1>2, <1>3, <1>a, FilesJudge DEF Validate, Progress
  <1>4. CASE Validate("spans", "identities", ValidateSourceSpans(doc))
    BY <1>2, <1>4, <1>a, SpansJudge DEF Validate, Progress
  <1>5. CASE Validate("identities", "sections", ValidateIdentities(doc))
    BY <1>2, <1>5, <1>a, IdentitiesJudge DEF Validate, Progress
  <1>6. CASE Validate("sections", "items", ValidateSections(doc))
    BY <1>2, <1>6, <1>a, SectionsJudge DEF Validate, Progress
  <1>7. CASE Validate("items", "objects", ValidateItems(doc))
    BY <1>2, <1>7, <1>a, ItemsJudge DEF Validate, Progress
  <1>8. CASE Validate("objects", "layer", ValidateObjects(doc))
    BY <1>2, <1>8, <1>a, ObjectsJudge DEF Validate, Progress
  <1>9. CASE Validate("layer", "levels", ValidateLayerIdentities(doc, entry.obligations, entry.checks))
    BY <1>2, <1>9, <1>a, LayerJudge DEF Validate, Progress
  <1>10. CASE Validate("levels", "facts", ValidateReifiedLevels(doc))
    BY <1>2, <1>10, LevelsQuestioned DEF Validate, Progress
  <1>11. CASE Validate("facts", "questions", ValidateObjectFacts(doc))
    BY <1>2, <1>11, FactsQuestioned DEF Validate, Progress
  <1>12. CASE Validate("questions", "obligations", ValidateQuestionObjects(doc))
    BY <1>2, <1>12, <1>a, QuestionsJudge DEF Validate, Progress
  <1>13. CASE Validate("obligations", "checks", ValidateObligationRecords(doc, entry.obligations))
    BY <1>2, <1>13, <1>a, ObligationsJudge DEF Validate, Progress
  <1>14. CASE Validate("checks", "edges", ValidateCheckRecords(doc, entry.checks))
    BY <1>2, <1>14, <1>a, ChecksJudge DEF Validate, Progress
  <1>15. CASE Validate("edges", "presence", ValidateEdgeProvenance(doc))
    BY <1>2, <1>15, <1>a, EdgesJudge DEF Validate, Progress
  <1>16. CASE Validate("presence", "validated", ValidatePresence(doc))
    BY <1>2, <1>16, <1>a, PresenceJudges DEF Validate, Progress
  <1>17. QED BY <1>3, <1>4, <1>5, <1>6, <1>7, <1>8, <1>9, <1>10, <1>11, <1>12, <1>13, <1>14, <1>15, <1>16
             DEF ValidateStep

LEMMA AskedInvariant == Spec => []AskedInv
  <1>1. Init => AskedInv
    BY DEF Init, AskedInv
  <1>2. ValidationInv /\ AskedInv /\ [Next]_vars => AskedInv'
    <2> SUFFICES ASSUME ValidationInv, AskedInv, [Next]_vars
                 PROVE  AskedInv'
      OBVIOUS
    <2>1. CASE BeginValidation
      <3>1. doc \in Inputs /\ entry'.obligations = doc.obligations /\ entry'.checks = doc.checks
            /\ doc' = doc /\ stage' = "files"
        BY <2>1 DEF BeginValidation, ValidationInv
      <3>2. Questioned(doc, entry', 0)
        BY <3>1, AskingBegins
      <3>3. QED BY <3>1, <3>2 DEF AskedInv, Progress
    <2>2. CASE ValidateStep
      BY <2>2, ValidationKeepsAsked
    <2>3. CASE Raise \/ BeginEmission \/ EmitStep
      <3>1. UNCHANGED <<doc, entry>> /\ Progress(stage') = 16
        BY <2>3 DEF Raise, BeginEmission, EmitStep, Emit, ParentRound, Progress
      <3>2. Progress(stage) \in Nat /\ Progress(stage) <= 16 /\ 16 \in Nat
        BY DEF Progress
      <3>3. entry.validated => Questioned(doc, entry, 16)
        BY <3>2, AskedLess DEF AskedInv
      <3>4. QED BY <3>1, <3>3 DEF AskedInv
    <2>4. CASE Done \/ UNCHANGED vars
      BY <2>4 DEF Done, vars, AskedInv
    <2>5. QED BY <2>1, <2>2, <2>3, <2>4 DEF Next
  <1>3. QED BY <1>1, <1>2, ValidationInvariant, PTL DEF Spec

LEMMA QuestionSays ==
    ASSUME NEW tag, NEW about, NEW span, NEW predicate, NEW oid, predicate # "Blocks"
    PROVE  LET q == Question(tag, about, span, predicate, oid) IN
           ThirdOf(q, "Blocks") = {oid} /\ ThirdOf(q, "QuestionText") # {}
  <1>1. PICK qid : qid = <<"question", tag>> \o about
    OBVIOUS
  <1>2. PICK text : text = <<"text">>
    OBVIOUS
  <1>3. PICK a, b, c : /\ a = Fact(predicate, <<qid, about>>)
                       /\ b = Fact("QuestionText", <<qid, text>>)
                       /\ c = Fact("Blocks", <<qid, oid>>)
    OBVIOUS
  <1>4. PICK q : q = Question(tag, about, span, predicate, oid)
    OBVIOUS
  <1>5. q.facts = <<a, b, c>>
    BY <1>1, <1>2, <1>3, <1>4 DEF Question, Object
  <1>6. Range(q.facts) = {a, b, c}
    <2>1. Told(<<a, b, c>>, {a, b, c})
      BY Written
    <2>2. QED BY <1>5, <2>1 DEF Told
  <1>7. /\ a.predicate = predicate
        /\ b.form = "tuple" /\ b.predicate = "QuestionText" /\ b.args = <<qid, text>>
        /\ c.form = "tuple" /\ c.predicate = "Blocks" /\ c.args = <<qid, oid>>
    BY <1>3 DEF Fact
  <1>8. Len(b.args) = 2 /\ b.args[2] = text /\ Len(c.args) = 2 /\ c.args[2] = oid
    BY <1>7
  <1>9. b \in {f \in Range(q.facts) : PlainFact(f) /\ f.predicate = "QuestionText" /\ Len(f.args) = 2}
    BY <1>6, <1>7, <1>8 DEF PlainFact
  <1>10. ThirdOf(q, "QuestionText") # {}
    BY <1>9 DEF ThirdOf
  <1>11. {f \in Range(q.facts) : PlainFact(f) /\ f.predicate = "Blocks" /\ Len(f.args) = 2} = {c}
    <2>1. c \in Range(q.facts) /\ PlainFact(c) /\ c.predicate = "Blocks" /\ Len(c.args) = 2
      BY <1>6, <1>7, <1>8 DEF PlainFact
    <2>2. \A f \in Range(q.facts) : f.predicate = "Blocks" => f = c
      BY <1>6, <1>7
    <2>3. QED BY <2>1, <2>2
  <1>12. ThirdOf(q, "Blocks") = {oid}
    BY <1>8, <1>11 DEF ThirdOf
  <1>13. QED BY <1>4, <1>10, <1>12

LEMMA AskedQuestion ==
    ASSUME NEW objects, IsList(objects), HaveIds(objects), FactLists(objects), NEW q \in AllQuestions(objects)
    PROVE  /\ q.typed /\ IsMadeUp(q.id) /\ q.role = "QuestionObject" /\ q.listed
           /\ ThirdOf(q, "Blocks") = {BlockedBy(q)} /\ ThirdOf(q, "QuestionText") # {}
  <1>1. IsQuestion(q)
    BY AreQuestions DEF AllQuestions
  <1>2. PICK tag, about, space, name, blocked :
            IsList(about) /\ q = Question(tag, about, space, name, blocked)
    BY <1>1 DEF IsQuestion
  <1>a. q.id = <<"question", tag>> \o about
    BY <1>2 DEF Question, Object
  <1>3. IsMadeUp(q.id)
    BY <1>2, <1>a, QuestionIds
  <1>4. PICK tag2, about2, span, predicate, oid :
            q = Question(tag2, about2, span, predicate, oid) /\ predicate # "Blocks"
    BY DEF AllQuestions, LevelQuestions, FactQuestions, LevelQuestion, PredicateQuestion
  <1>5. ThirdOf(q, "Blocks") = {oid} /\ ThirdOf(q, "QuestionText") # {}
    BY <1>4, QuestionSays
  <1>6. BlockedBy(q) = oid
    BY <1>4 DEF BlockedBy, Question, Object, Fact
  <1>7. q.typed /\ q.role = "QuestionObject" /\ q.listed
    BY <1>4 DEF Question, Object
  <1>8. QED BY <1>3, <1>5, <1>6, <1>7

\* What a question is about.
LEMMA FactTargetIsList ==
    ASSUME NEW obj, IsList(obj.id), IsList(obj.facts), NEW i \in Schemaless(obj)
    PROVE  i \in Nat /\ IsList(FactTarget(obj, i))
  <1>1. i \in Nat
    BY DEF Schemaless, IsList
  <1>2. Place(i) \in Seq({"|"})
    BY <1>1 DEF Place
  <1>3. IsList(Place(i))
    BY <1>2, SequenceIsList
  <1>4. \A x : IsList(<<x>>)
    BY Written DEF Told
  <1>5. \A s, t : IsList(s) /\ IsList(t) => IsList(s \o t)
    BY BothLists
  <1>6. QED BY <1>1, <1>3, <1>4, <1>5 DEF FactTarget

LEMMA OneQuestionEach ==
    ASSUME NEW objects, IsList(objects), HaveIds(objects), FactLists(objects), CarriedOnce(objects),
           NEW q \in AllQuestions(objects), NEW r \in AllQuestions(objects), BlockedBy(q) = BlockedBy(r)
    PROVE  q = r
  <1>1. \A obj \in Range(objects) : (obj.typed => IsList(obj.id)) /\ IsList(obj.facts)
    BY DEF HaveIds, FactLists, Range
  <1> DEFINE OfLevel(x) == \E obj \in Range(objects) : Unsupported(obj) /\ x = LevelQuestion(obj)
             OfFact(x) == \E obj \in Asking(objects) : \E i \in Schemaless(obj) : x = PredicateQuestion(obj, i)
  <1>2. \A x \in AllQuestions(objects) : OfLevel(x) \/ OfFact(x)
    BY DEF AllQuestions, LevelQuestions, FactQuestions
  <1>3. ASSUME NEW x, OfLevel(x)
        PROVE  \E obj \in Range(objects) : /\ obj.typed /\ IsList(obj.id) /\ x = LevelQuestion(obj)
                                           /\ BlockedBy(x) = ObligationId(LevelProperty, obj.id)
    BY <1>1, <1>3, LevelQuestionIs DEF Unsupported
  <1>4. ASSUME NEW x, OfFact(x)
        PROVE  \E obj \in Range(objects) : \E i \in Nat :
                   /\ obj.typed /\ IsList(obj.id) /\ IsList(FactTarget(obj, i)) /\ x = PredicateQuestion(obj, i)
                   /\ BlockedBy(x) = ObligationId("fact-has-supported-arity", FactTarget(obj, i))
    <2>1. PICK obj \in Asking(objects) : \E i \in Schemaless(obj) : x = PredicateQuestion(obj, i)
      BY <1>4
    <2>2. PICK i \in Schemaless(obj) : x = PredicateQuestion(obj, i)
      BY <2>1
    <2>3. obj \in Range(objects) /\ obj.typed
      BY DEF Asking
    <2>4. IsList(obj.id) /\ IsList(obj.facts)
      BY <1>1, <2>3
    <2>5. i \in Nat /\ IsList(FactTarget(obj, i))
      BY <2>4, FactTargetIsList
    <2>6. BlockedBy(x) = ObligationId("fact-has-supported-arity", FactTarget(obj, i))
      BY <2>2, PredicateQuestionIs
    <2>7. QED BY <2>2, <2>3, <2>4, <2>5, <2>6
  <1> HIDE DEF OfLevel, OfFact
  <1>5. CASE OfLevel(q) /\ OfLevel(r)
    <2>1. PICK o \in Range(objects) : /\ o.typed /\ IsList(o.id) /\ q = LevelQuestion(o)
                                      /\ BlockedBy(q) = ObligationId(LevelProperty, o.id)
      BY <1>3, <1>5
    <2>2. PICK p \in Range(objects) : /\ p.typed /\ IsList(p.id) /\ r = LevelQuestion(p)
                                      /\ BlockedBy(r) = ObligationId(LevelProperty, p.id)
      BY <1>3, <1>5
    <2>3. o.id = p.id
      BY <2>1, <2>2, SameObligation
    <2>4. o = p
      BY <2>1, <2>2, <2>3, OneObject
    <2>5. QED BY <2>1, <2>2, <2>4
  <1>6. CASE OfFact(q) /\ OfFact(r)
    <2>1. PICK o \in Range(objects) : \E i \in Nat :
                   /\ o.typed /\ IsList(o.id) /\ IsList(FactTarget(o, i)) /\ q = PredicateQuestion(o, i)
                   /\ BlockedBy(q) = ObligationId("fact-has-supported-arity", FactTarget(o, i))
      BY <1>4, <1>6
    <2>2. PICK i \in Nat :
                   /\ o.typed /\ IsList(o.id) /\ IsList(FactTarget(o, i)) /\ q = PredicateQuestion(o, i)
                   /\ BlockedBy(q) = ObligationId("fact-has-supported-arity", FactTarget(o, i))
      BY <2>1
    <2>3. PICK p \in Range(objects) : \E k \in Nat :
                   /\ p.typed /\ IsList(p.id) /\ IsList(FactTarget(p, k)) /\ r = PredicateQuestion(p, k)
                   /\ BlockedBy(r) = ObligationId("fact-has-supported-arity", FactTarget(p, k))
      BY <1>4, <1>6
    <2>4. PICK k \in Nat :
                   /\ p.typed /\ IsList(p.id) /\ IsList(FactTarget(p, k)) /\ r = PredicateQuestion(p, k)
                   /\ BlockedBy(r) = ObligationId("fact-has-supported-arity", FactTarget(p, k))
      BY <2>3
    <2>5. FactTarget(o, i) = FactTarget(p, k)
      <3>1. PICK t, u : t = FactTarget(o, i) /\ u = FactTarget(p, k)
        OBVIOUS
      <3>2. QED BY <2>2, <2>4, <3>1, SameObligation
    <2>6. o.id = p.id /\ i = k
      BY <2>2, <2>4, <2>5, SameFact
    <2>7. o = p
      BY <2>2, <2>4, <2>6, OneObject
    <2>8. QED BY <2>2, <2>4, <2>6, <2>7
  <1>7. ASSUME NEW x, NEW y, OfLevel(x), OfFact(y)
        PROVE  BlockedBy(x) # BlockedBy(y)
    <2>1. PICK s : IsList(s) /\ BlockedBy(x) = ObligationId(LevelProperty, s)
      BY <1>3, <1>7
    <2>2. PICK t : IsList(t) /\ BlockedBy(y) = ObligationId("fact-has-supported-arity", t)
      BY <1>4, <1>7
    <2>3. LevelProperty # "fact-has-supported-arity"
      BY DEF LevelProperty
    <2>4. QED BY <2>1, <2>2, <2>3, SameObligation
  <1>8. QED BY <1>2, <1>5, <1>6, <1>7

\* Whatever the document, an obligation that validation leaves unknown because
\* the profile has no such level (validators.py:507-556), or because a fact's
\* predicate has no schema (validators.py:557-714), is asked about once: one
\* question made for it carries a text and blocks it.  The step that gives such
\* an answer adds its question, no other step gives one, and the identity of a
\* question holds the target of the one obligation it blocks.
THEOREM UnknownsAreAskedOnce == Spec => []UnknownsAreAsked
  <1>1. ValidationInv /\ AskedInv => UnknownsAreAsked
    <2> SUFFICES ASSUME ValidationInv, AskedInv, stage = "validated", CarriedOnce(doc.objects),
                        NEW c \in Unsettled({"Unknown"}),
                        c.property \in {LevelProperty, "fact-has-supported-arity"}
                 PROVE  Cardinality({i \in DOMAIN doc.objects :
                            /\ doc.objects[i].typed /\ IsMadeUp(doc.objects[i].id)
                            /\ doc.objects[i].role = "QuestionObject" /\ doc.objects[i].listed
                            /\ c.obligation \in ThirdOf(doc.objects[i], "Blocks")
                            /\ ThirdOf(doc.objects[i], "QuestionText") # {}}) = 1
      BY DEF UnknownsAreAsked
    <2>1. PICK X : X = {i \in DOMAIN doc.objects :
                            /\ doc.objects[i].typed /\ IsMadeUp(doc.objects[i].id)
                            /\ doc.objects[i].role = "QuestionObject" /\ doc.objects[i].listed
                            /\ c.obligation \in ThirdOf(doc.objects[i], "Blocks")
                            /\ ThirdOf(doc.objects[i], "QuestionText") # {}}
      OBVIOUS
    <2>2. Judging(doc, entry, 16) /\ Questioned(doc, entry, 16)
      BY DEF ValidationInv, AskedInv, Validating, Progress
    <2>3. IsList(doc.objects) /\ HaveIds(doc.objects) /\ FactLists(doc.objects)
      BY <2>2 DEF Judging, Fit, RecordLists
    <2>4. c \in AnswersIn(doc, entry) /\ c.status = "Unknown" /\ c.property \in AskedProperties
      BY DEF Unsettled, AnswersIn, AskedProperties
    <2>5. PICK q \in Range(doc.objects) : q \in AllQuestions(doc.objects) /\ BlockedBy(q) = c.obligation
      BY <2>2, <2>4 DEF Questioned, AsksUnknowns
    <2>6. PICK i \in DOMAIN doc.objects : q = doc.objects[i]
      BY <2>5 DEF Range
    <2>7. i \in X
      BY <2>1, <2>3, <2>5, <2>6, AskedQuestion
    <2>8. ASSUME NEW k \in X
          PROVE  k = i
      <3>1. PICK r : r = doc.objects[k]
        OBVIOUS
      <3>2. k \in DOMAIN doc.objects /\ r.typed /\ IsMadeUp(r.id) /\ c.obligation \in ThirdOf(r, "Blocks")
        BY <2>1, <2>8, <3>1
      <3>3. r \in AllQuestions(doc.objects)
        BY <2>2, <3>1, <3>2 DEF Questioned, MadeUpIn, Range
      <3>4. BlockedBy(r) = BlockedBy(q)
        BY <2>3, <2>5, <3>2, <3>3, AskedQuestion
      <3>5. r = q
        BY <2>3, <2>5, <3>3, <3>4, OneQuestionEach
      <3>6. QED BY <2>6, <3>1, <3>2, <3>5 DEF CarriedOnce
    <2>9. X = {i}
      BY <2>7, <2>8
    <2>10. QED BY <2>1, <2>9, FS_Singleton
  <1>2. QED BY <1>1, ValidationInvariant, AskedInvariant, PTL
=============================================================================
