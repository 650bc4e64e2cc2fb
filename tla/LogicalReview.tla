---------------------------- MODULE LogicalReview ----------------------------
(***************************************************************************)
(* The structural review of a logical IR (specatom_hs/logical_ir.py): the  *)
(* validation of a document, the findings the checker makes of it, the     *)
(* decisions a reviewer makes on findings, and how a report is written     *)
(* down, read back and replayed.                                           *)
(*                                                                         *)
(* A document is a record of sequences: types (names), contracts,          *)
(* obligations, dependencies and holes.  A condition of a contract is kept *)
(* as its words without negations (key), whether one of them negates it,   *)
(* and whether it matches a leakage pattern; source clauses are sets.      *)
(***************************************************************************)
EXTENDS Naturals, Sequences, FiniteSets
LOCAL INSTANCE SequencesExt
LOCAL INSTANCE FiniteSetsExt

CONSTANTS
    Submitted,      \* the documents a provider may submit
    Decidable,      \* bound: the documents whose findings a reviewer decides
    MaxFindings,    \* bound: findings of a report that a reviewer decides on
    None

VARIABLES
    document,       \* the document under review, or None
    report,         \* its report, or None
    stored,         \* the report last written down, or None
    stage           \* "waiting", "reviewed", or "refused"

vars == <<document, report, stored, stage>>

-----------------------------------------------------------------------------
\* validate_logical_ir.

Field(records, Name(_)) == [i \in DOMAIN records |-> Name(records[i])]
IdsOf(records) == Field(records, LAMBDA r : r.id)

AllIds(d) ==
    IdsOf(d.types) \o IdsOf(d.contracts) \o IdsOf(d.obligations) \o IdsOf(d.dependencies) \o IdsOf(d.holes)

ContractIds(d) == Range(IdsOf(d.contracts))
ContractNames(d) == {c.name : c \in Range(d.contracts)}
TypeNames(d) == {t.name : t \in Range(d.types)}

Distinct(seq) == Cardinality(Range(seq)) = Len(seq)

Valid(d) ==
    /\ Distinct(AllIds(d))
    /\ Cardinality(TypeNames(d)) = Len(d.types)
    /\ \A hole \in Range(d.holes) : hole.contract \in ContractIds(d)
    /\ \A records \in {d.types, d.contracts, d.obligations, d.dependencies, d.holes} :
         \A r \in Range(records) : r.sources # {}

-----------------------------------------------------------------------------
\* review_logical_ir: one sequence of findings per check, in the code's order.

MissingDefinition == "missing-definition"
InconsistentType == "inconsistent-type"
ContradictoryInvariant == "contradictory-invariant"
UncoveredRequirement == "uncovered-requirement"
InvalidOrdering == "invalid-ordering-data-flow"
PossibleLeakage == "possible-leakage"
UnreachableObligation == "unreachable-obligation"
UnmarkedGap == "unmarked-operational-gap"

\* Fault: the message is left out of the id.
FindingOnSubject(category, what, subject, message, sources) ==
    [id |-> <<category, what, subject>>, sources |-> sources, disposition |-> "open"]

\* The code hashes category, subject and message into the id of a finding; the
\* subject of some begins with a word that says what it is.
FindingOn(category, what, subject, message, sources) ==
    [id |-> <<category, what, subject, message>>, sources |-> sources, disposition |-> "open"]
Finding(category, subject, message, sources) == FindingOn(category, "", subject, message, sources)

Each(records, FindingsOf(_)) == FlattenSeq([i \in DOMAIN records |-> FindingsOf(records[i])])
If(condition, finding) == IF condition THEN <<finding>> ELSE <<>>

\* Every undefined type of a signature, as often as it is named, then the gap.
SignatureFindings(d, contract) ==
    Each(Append(contract.inputs, contract.output), LAMBDA name :
        If(name \notin TypeNames(d), Finding(MissingDefinition, <<contract.id, name>>, name, contract.sources)))
    \o If(contract.grounded /\ \A hole \in Range(d.holes) : hole.contract # contract.id,
          Finding(UnmarkedGap, contract.id, contract.id, contract.sources))

CoverageFindings(d, obligation) ==
    If(obligation.tests = {}, Finding(UncoveredRequirement, obligation.id, obligation.id, obligation.sources))

\* A fold over records that keeps a map of what was seen and the findings made.
Scan(records, Step(_, _)) ==
    FoldLeft(Step, [seen |-> <<>>, found |-> <<>>], records).found

Seen(scan, key) == key \in DOMAIN scan.seen
See(scan, key, what) ==
    [scan EXCEPT !.seen = [k \in DOMAIN scan.seen \cup {key} |-> IF k = key THEN what ELSE scan.seen[k]]]
Find(scan, finding) == [scan EXCEPT !.found = Append(@, finding)]

Signature(contract) == <<contract.inputs, contract.output>>

\* A contract is compared with the last one of its name that agreed.
CompareSignature(scan, contract) ==
    IF Seen(scan, contract.name) /\ Signature(scan.seen[contract.name]) # Signature(contract)
    THEN LET previous == scan.seen[contract.name] IN
         Find(scan, FindingOn(InconsistentType, "contract-name", contract.name,
                            <<Signature(previous), Signature(contract)>>, previous.sources \cup contract.sources))
    ELSE See(scan, contract.name, contract)

ContractOf(d, hole) == CHOOSE c \in Range(d.contracts) : c.id = hole.contract

HoleFindings(d, hole) ==
    LET contract == ContractOf(d, hole) IN
    If(hole.type # contract.output,
       Finding(InconsistentType, hole.id, <<hole.type, contract.id, contract.output>>,
               contract.sources \cup hole.sources))

ReachFindings(d, obligation) ==
    If(\A contract \in Range(d.contracts) : contract.sources \cap obligation.sources = {},
       Finding(UnreachableObligation, obligation.id, obligation.id, obligation.sources))

Invariants(d) ==
    Each(d.contracts, LAMBDA c :
        [i \in DOMAIN c.invariants |-> [contract |-> c, key |-> c.invariants[i].key,
                                        negative |-> c.invariants[i].negative]])

\* Fault: a contract is not compared with its own invariants.
CompareInvariantOfOthers(scan, claim) ==
    IF Seen(scan, claim.key) /\ scan.seen[claim.key].negative # claim.negative
            /\ scan.seen[claim.key].contract # claim.contract
    THEN LET other == scan.seen[claim.key].contract IN
         Find(scan, Finding(ContradictoryInvariant, <<other.id, claim.contract.id, claim.key>>,
                            <<other.id, claim.contract.id, claim.key>>,
                            other.sources \cup claim.contract.sources))
    ELSE See(scan, claim.key, claim)

CompareInvariant(scan, claim) ==
    IF Seen(scan, claim.key) /\ scan.seen[claim.key].negative # claim.negative
    THEN LET other == scan.seen[claim.key].contract IN
         Find(scan, Finding(ContradictoryInvariant, <<other.id, claim.contract.id, claim.key>>,
                            <<other.id, claim.contract.id, claim.key>>,
                            other.sources \cup claim.contract.sources))
    ELSE See(scan, claim.key, claim)

LeakFindings(contract) ==
    Each(contract.others \o contract.invariants, LAMBDA condition :
        If(condition.leaks /\ ~condition.negative,
           Finding(PossibleLeakage, <<contract.id, condition.key>>, condition, contract.sources)))

-----------------------------------------------------------------------------
(* Ordering: a walk in depth over the names of contracts, in order, with an *)
(* explicit stack in place of the recursion of visit.                       *)

OrderRelations == {"before", "precedes", "depends-before"}
Orders(dependency) == dependency.relation \in OrderRelations
Connects(d, dependency) == {dependency.before, dependency.after} \subseteq ContractNames(d)

DanglingFindings(d, dependency) ==
    If(Orders(dependency) /\ ~Connects(d, dependency),
       Finding(InvalidOrdering, dependency.id, dependency.id, dependency.sources))

\* Of two dependencies between the same contracts the later one is cited.
Edges(d) == SelectSeq(d.dependencies, LAMBDA x : Orders(x) /\ Connects(d, x))
Targets(d, name) == {x.after : x \in {x \in Range(Edges(d)) : x.before = name}}
CitedFor(d, from, to) ==
    LET edges == Edges(d) IN
    edges[Max({i \in DOMAIN edges : edges[i].before = from /\ edges[i].after = to})].sources

Sorted(S) == SetToSortSeq(S, <)
Frame(d, name) == [name |-> name, rest |-> Sorted(Targets(d, name))]
Path(walk) == [i \in DOMAIN walk.stack |-> walk.stack[i].name]

CycleTo(walk, target) ==
    LET path == Path(walk) IN
    SubSeq(path, CHOOSE i \in DOMAIN path : path[i] = target, Len(path)) \o <<target>>

CycleFinding(d, cycle) ==
    FindingOn(InvalidOrdering, "cycle", cycle, cycle,
              UNION {CitedFor(d, cycle[i], cycle[i + 1]) : i \in 1..(Len(cycle) - 1)})

\* A target on the path closes a cycle, which is reported once per set of names.
TakeTarget(d, walk, target) ==
    LET top == Len(walk.stack)
        moved == [walk EXCEPT !.stack[top].rest = Tail(@)] IN
    IF target \in Range(Path(walk))
    THEN LET cycle == CycleTo(walk, target) IN
         IF Range(cycle) \in walk.reported THEN moved
         ELSE [moved EXCEPT !.reported = @ \cup {Range(cycle)},
                            !.found = Append(@, CycleFinding(d, cycle))]
    ELSE IF target \in walk.visited THEN moved
    ELSE [moved EXCEPT !.stack = Append(@, Frame(d, target))]

\* One step: start at the next name, leave the name on top, or take a target.
WalkOn(d, walk) ==
    LET left == ContractNames(d) \ walk.visited IN
    IF walk.stack = <<>>
    THEN IF left = {} THEN walk ELSE [walk EXCEPT !.stack = <<Frame(d, Min(left))>>]
    ELSE IF Last(walk.stack).rest = <<>>
    THEN [walk EXCEPT !.stack = Front(@), !.visited = @ \cup {Last(walk.stack).name}]
    ELSE TakeTarget(d, walk, Head(Last(walk.stack).rest))

\* Every name is entered and left once and every edge taken once.
Steps(d) == 2 * Cardinality(ContractNames(d)) + Len(d.dependencies)

CycleFindings(d) ==
    FoldLeft(LAMBDA walk, step : WalkOn(d, walk),
             [stack |-> <<>>, visited |-> {}, reported |-> {}, found |-> <<>>],
             [i \in 1..Steps(d) |-> i]).found

-----------------------------------------------------------------------------
\* Reports and decisions.

Findings(d) ==
    Each(d.contracts, LAMBDA c : SignatureFindings(d, c))
    \o Each(d.obligations, LAMBDA o : CoverageFindings(d, o))
    \o Scan(d.contracts, CompareSignature)
    \o Each(d.holes, LAMBDA h : HoleFindings(d, h))
    \o Each(d.obligations, LAMBDA o : ReachFindings(d, o))
    \o Scan(Invariants(d), CompareInvariant)
    \o Each(d.dependencies, LAMBDA x : DanglingFindings(d, x))
    \o CycleFindings(d)
    \o Each(d.contracts, LeakFindings)

Review(d) == [of |-> d, findings |-> Findings(d)]

Dispositions == {"repaired", "waived", "deferred"}

\* Every finding of that id.
DecideFinding(r, id, disposition) ==
    [r EXCEPT !.findings = [i \in DOMAIN r.findings |->
        IF r.findings[i].id = id THEN [r.findings[i] EXCEPT !.disposition = disposition] ELSE r.findings[i]]]

Undecided(f) == [f EXCEPT !.disposition = "open"]

\* Of findings with one id, the last.
LastOf(findings, id) == findings[Max({i \in DOMAIN findings : findings[i].id = id})]

\* A report must be the one the checker makes now, decisions aside: the same
\* ids in order, each with what the last finding of that id says.
IsReviewOf(r, d) ==
    /\ r.of = d
    /\ IdsOf(r.findings) = IdsOf(Findings(d))
    /\ \A f \in Range(r.findings) : Undecided(f) = LastOf(Findings(d), f.id)

\* logical_review_from_dict, applied to every stored report.
ReportLoads(r) == Distinct(IdsOf(r.findings)) /\ \A f \in Range(r.findings) : f.sources # {}

\* Fault: the regenerated report comes without the decisions.
ReplayUndecided(r, d) == Review(d)

\* Decisions by id, the last one of an id counting.
Replay(r, d) ==
    [of |-> d, findings |-> [i \in DOMAIN Findings(d) |->
        [Findings(d)[i] EXCEPT !.disposition = LastOf(r.findings, Findings(d)[i].id).disposition]]]

-----------------------------------------------------------------------------
\* One document, its report and the reviewer.

Init == document = None /\ report = None /\ stored = None /\ stage = "waiting"

Submit(d) ==
    /\ stage = "waiting"
    /\ IF Valid(d) THEN document' = d /\ report' = Review(d) /\ stage' = "reviewed"
       ELSE stage' = "refused" /\ UNCHANGED <<document, report>>
    /\ UNCHANGED stored

Decide(id, disposition) ==
    /\ stage = "reviewed"
    /\ document \in Decidable /\ Len(report.findings) <= MaxFindings       \* bounds
    /\ report' = DecideFinding(report, id, disposition)
    /\ UNCHANGED <<document, stored, stage>>

\* Written down only if it can be read back.
Write ==
    /\ stage = "reviewed" /\ ReportLoads(report) /\ IsReviewOf(report, document)
    /\ stored' = report
    /\ UNCHANGED <<document, report, stage>>

ReplayDecisions ==
    /\ stage = "reviewed" /\ stored # None /\ IsReviewOf(stored, document)
    /\ report' = Replay(stored, document)
    /\ UNCHANGED <<document, stored, stage>>

Next ==
    \/ \E d \in Submitted : Submit(d)
    \/ stage = "reviewed" /\ \E f \in Range(report.findings), disposition \in Dispositions :
            Decide(f.id, disposition)
    \/ Write
    \/ ReplayDecisions

Spec == Init /\ [][Next]_vars

-----------------------------------------------------------------------------
(* Properties. *)

\* What the checks are for, said without scans or walks.

SignaturesAgree(d) ==
    \A c, e \in Range(d.contracts) : c.name = e.name => Signature(c) = Signature(e)

InvariantsAgree(d) ==
    \A i, j \in Range(Invariants(d)) : i.key = j.key => i.negative = j.negative

\* Every set of contracts has one that none of the set must precede.
Ordered(d) ==
    \A part \in SUBSET ContractNames(d) \ {{}} : \E name \in part : part \cap Targets(d, name) = {}

WellFormed(d) ==
    /\ \A c \in Range(d.contracts) :
         /\ Range(c.inputs) \cup {c.output} \subseteq TypeNames(d)
         /\ c.grounded => \E hole \in Range(d.holes) : hole.contract = c.id
         /\ \A condition \in Range(c.others \o c.invariants) : condition.leaks => condition.negative
    /\ \A o \in Range(d.obligations) :
         o.tests # {} /\ \E c \in Range(d.contracts) : c.sources \cap o.sources # {}
    /\ \A hole \in Range(d.holes) : hole.type = ContractOf(d, hole).output
    /\ \A x \in Range(d.dependencies) : Orders(x) => Connects(d, x)
    /\ SignaturesAgree(d) /\ InvariantsAgree(d) /\ Ordered(d)

\* Every cycle reported runs along declared dependencies back to where it
\* starts, cites each of them, and no two reports are of the same contracts.
CyclesAreReal ==
    LET cycles == {f \in Range(report.findings) : f.id[1] = InvalidOrdering /\ f.id[2] = "cycle"} IN
    /\ \A f \in cycles :
         LET cycle == f.id[3] IN
         /\ cycle[1] = Last(cycle)
         /\ \A i \in 1..(Len(cycle) - 1) : \E x \in Range(Edges(document)) :
              x.before = cycle[i] /\ x.after = cycle[i + 1] /\ x.sources \subseteq f.sources
    /\ \A f, g \in cycles : Range(f.id[3]) = Range(g.id[3]) => f = g

\* A document has no finding exactly when nothing is wrong with it: no order
\* of contracts hides a disagreement from the scans, no order of names a cycle
\* from the walk, and nothing sound is held up.  The cycles reported are there.
FindingsAreExact ==
    document # None => (report.findings = <<>> <=> WellFormed(document)) /\ CyclesAreReal

Twice(seq, P(_)) == \E i, j \in DOMAIN seq : i < j /\ seq[i] = seq[j] /\ P(seq[i])

\* A report that cannot be read back comes of a document that says the same
\* thing wrong twice: a contract that names one undefined type or states one
\* leaking condition twice, two contracts that contradict a third in the same
\* way, or one that contradicts another's invariant twice.  Every other report
\* is read back as its document's, whatever was decided on its findings.
OnlyRepetitionIsUnreadable ==
    (document # None /\ ~(ReportLoads(report) /\ IsReviewOf(report, document))) =>
            \/ \E c \in Range(document.contracts) :
                 \/ Twice(Append(c.inputs, c.output), LAMBDA name : name \notin TypeNames(document))
                 \/ Twice(c.others \o c.invariants, LAMBDA condition : condition.leaks)
            \/ \E i, j \in DOMAIN document.contracts : i < j /\
                 LET c == document.contracts[i]  e == document.contracts[j] IN
                 c.name = e.name /\ Signature(c) = Signature(e) /\ ~SignaturesAgree(document)
            \/ Twice(Invariants(document), LAMBDA claim : ~InvariantsAgree(document))

\* Replaying a stored report on the unchanged document gives that report back,
\* with every decision made on it.
ReplayKeepsDecisions == [][ReplayDecisions => report' = stored]_vars
=============================================================================
