# plain2metta: a verification development in TLA+

This directory holds TLA+ models of plain2metta's project pipeline, of the
validation and emission of its documents, and of the checks beside them
(`src/specatom_hs`), TLC configurations that check them on small instances, and
TLAPS proofs of what matters most for every instance. File names below are
relative to the repository.

## 1. The system

A *project* takes a plain-language specification through seven phases:
elaboration, human review, logical IR, compilation, sandbox run, traceability,
and beside them a semantic chain of contracts, validation plans, evidence and
verdicts. It is an immutable value: versions of artifacts of 24 kinds, each
with the exact references (id and content hash) it was derived from, one
decision per artifact, and comments. Every operation returns a new project or
raises. A file repository keeps one JSON document per project, and services
behind WSGI adapters read a project, apply one operation and save it.

| Component | State | Operations | Interacts with |
|---|---|---|---|
| Project graph, `projects.py` | artifacts, approvals, annotations | create, derive, decide, annotate, replace source; cascade of invalidation | every phase is built from it |
| Phases 2 to 7, `projects.py`, `phase3_review.py`, `compilation_prompt.py`, `traceability.py`, ... | the artifacts of 15 kinds | submit and admit elaborations, review transaction, logical IR and findings, compile, hand off, result, report | the graph; the loader checks their chains |
| Loader, `project_from_dict` | none | accept or refuse a stored project | applied by every `get` and, before it writes, every `save` |
| Repository, `project_repository.py` | one file per project | create, save, get, list | threads and processes share the directory, no lock |
| Services and WSGI adapters, `project_commands.py`, `project_queries.py`, `project_transport.py`, `review_diff.py` | none | get, one operation, save; get and show | repository |
| Coordinators, `elaboration_backend.py`, `elaboration_admission.py`, `logical_ir_backend.py`, `compilation_backend.py`, `sandbox_backend.py` | none | get, one external call, get again and compare, save | an injected provider or sandbox |
| Structural review, `logical_ir.py` | none | findings of a document; decisions on them; write, read, replay | gates compilation |
| Semantic chain, `semantic_artifacts.py`, `validation_plan.py`, `dual_runtime.py`, `hypothesis_backend.py`, `tlc_backend.py`, `smt_backend.py`, `lean_backend.py` | artifacts of 9 kinds | contracts, obligations, plan, plan review, evidence | graph |
| Verdicts, `verdict_composition.py` | none | evidence to grades and a status | semantic chain |
| Semantic API, `semantic_api.py` | none | get, one call of an injected author or executor, save; get and show | repository, semantic chain |
| Contract calculus, `contract_calculus.py` | none | check, interpret and project a contract | semantic contracts |
| Document validation, `schema.py`, `validators.py`, `identities.py` | the document | twelve validators in order, each adding obligations, checks, questions | the compiler's documents in, the backend out |
| PeTTa backend, `backends/petta.py`, `backends/diagnostics.py` | the emitted atoms and refusals | emit, refuse, summarise, diagnose | documents |
| Compiler passes, `passes.py`, `source_indexer.py` | none | English phrases to objects and facts | document validation |

What is hard: an operation's effect reaches artifacts several citations away;
decisions can be given, withdrawn and given again in any order; composite
phases must be all or nothing; what a phase builds and what the loader accepts
are written twice and must agree; results and provider answers come late; two
requests can interleave between get and save; the machine can stop between the
system calls of a save. In the sequential parts the difficulty is of another
kind: one rule is written in several places (validators, backend, diagnostics;
phase functions, loader, queries) that must agree on every document or project,
and scans, fix-points and walks over references must not depend on the order in
which records come.

## 2. Modules

| Module | What it is |
|---|---|
| `Projects` | operators on a project value: the functions of `projects.py` every phase uses |
| `ProjectInvariants` | what is claimed of one project value, and of two of which the second was made from the first |
| `ArtifactGraph` | one project under those functions alone, with any kinds and citations |
| `ArtifactGraphProofs` | its theorems |
| `Phases` | the phase functions, and the chain rules of `project_from_dict` |
| `PhaseInvariants` | what the phase functions keep true of a project, version by version |
| `ProjectProofs` | that every operator of `Projects` keeps those claims, that every phase function keeps these, and that the chain rules follow; all other proofs about projects rest on it |
| `ReviewPipeline` | one project taken through the phases in any order |
| `ReviewPipelineProofs` | its theorems |
| `ProjectStore` | what the repository promises: a durable log of documents |
| `Repository` | create and save, system call by system call; implements `ProjectStore` |
| `RepositoryProofs` | its theorems |
| `Verdicts` | status and grades of a set of evidence, the composer of `verdict_composition.py` |
| `VerdictComposition` | one obligation while evidence comes in, in any order |
| `SemanticChain` | contracts, obligations, plans, plan reviews, evidence, counterexamples and verdicts of one project; builds on `Phases` and `Verdicts` |
| `SemanticInvariants`, `SemanticChainProofs` | what its versions are founded on and stand on, and its theorems; the theorems of `VerdictComposition` first |
| `ProjectQueries` | which stored projects each GET resource shows |
| `ProjectService` | the stored project and concurrent calls: commands, queries, coordinators with their external calls; builds on `Phases` and `ProjectQueries` |
| `ProjectServiceProofs` | its theorems, for any number of calls |
| `LogicalReview` | one logical IR document and its report: findings, decisions, writing, reading, replay |
| `ContractCalculus` | one contract: checked, interpreted in a context, projected |
| `Documents` | records of a document, identities, targets, fact schemas, obligations and checks |
| `DocumentValidation` | the twelve validators |
| `PettaGate`, `ExecutableGate` | what emission admits and why it refuses; what may become an executable skeleton |
| `Diagnostics` | the same counts by rules of their own |
| `DocumentGates` | one document validated and emitted, validator by validator and list by list; composes the five above |
| `DocumentGatesProofs`, `CleanDocumentsProofs` | its theorems, for any set of documents |
| `FlowSummary` | the three walks of the information-flow summary, step by step |
| `MC*` | instances for TLC |

### Project values (`Projects`, `ArtifactGraph`)

An artifact id is `<<kind, version>>`. The code's id is a hash of project,
kind, version and content and its references repeat the content hash, so a
reference names at most one version; that is all the models keep of hashing.
`Current`, `IsApproved`, `AddDerived`, `Decide`, `Annotate`, `ReplaceSource`,
`InvalidateFrom` are the functions of the same names (without underscore). A
function that raises is a `Can...` operator that is false.

`_invalidate_from` is a loop to a fixpoint over the artifacts. An artifact's
upstream never changes, so the model keeps with each version its `lineage`, the
transitive upstream, computed once when it is created, and the loop becomes one
set, `Reached`. `LoopFrom` is the loop itself, pass by pass; that the two agree in
every reachable state is `LineageIsTheLoop`, which is checked and proved. All decisions other than
approval act alike in the code, so they are one, `Withheld`.

`ArtifactGraph` leaves open which kinds there are and what cites what
(`Inputs`). The phases add guards, so whatever is shown for arbitrary guards
holds for them.

### Phases (`Phases`, `ReviewPipeline`)

A function that may raise is an operator whose value is the set of projects it
returns, empty if it raises; `Then` chains them, so a composite phase whose
second part raises returns nothing. Contents are kept as far as a guard looks
at them: a logical review is its document and what became of a finding, a
hand-off is its list of files, a result is the hand-off whose run it is of.

`ReviewPipeline` applies the phase functions in any order to one project in
memory. The loader's rules (`ElaborationLoads` ... `TraceabilityLoads`) are then
claims about what the phase functions keep true by themselves; where they are
not kept, a legal call leads to a project that `save` refuses.

### Repository (`Repository`, `ProjectStore`)

Writers step through `mkstemp`, write, fsync, replace or link, unlink, fsync of
the directory, and the clean-up after an error at any of them. The file system
is external: a directory entry is seen at once and survives a crash after the
fsync of the directory; data survive after the fsync of the file. `Repository`
implements `ProjectStore` with `history` as the log and as the safe part
everything a crash cannot take back.

### Verdicts (`Verdicts`, `VerdictComposition`)

The composer overwrites one status variable case after case. What the cases
amount to is an order, refuted before blocked before inconclusive before pass,
and `Status` states that order; it was compared with the Python function on
1500 random combinations. Evidence of a runtime is its exit (finished, crashed,
exhausted: the codes 124 and 137) and what was seen. `AdmittedOf...` says what
each backend lets in: the pair has no observations after a nonzero exit, Hypothesis
never a failed observation with exit zero, TLC no failure without a trace, the
SMT and Lean backends only success. The bundled runners report a kill as a
negative exit code, so some exhausted runs count as crashed.

### Semantic chain (`SemanticChain`)

Every document passes `add_semantic_artifact` (`AddSemantic`): it cites the
current reviewed specification and only current artifacts. `SynthesizePlan`,
`SubmitPlanReview`, `RunPair`, `RunBackend`, `ComposeVerdict` are the functions
of validation_plan.py, the backends and verdict_composition.py, each returning a
whole project or none, as in `Phases`. `PlanReviewLoads` is
`validate_plan_review_chain`, which the loader and every backend apply.

Left out: what a plan contains (any backend may run under any plan), generators
and oracles, which nothing makes, the reviewer's name and rationale. A
decision given on a plan directly, beside `submit_plan_review`, has another
rationale than the review, and the loader refuses the project then; a review
that withdraws an approval invalidates itself, as the review log does in phase
3. The coordinators compare the request they sent with one built from the same
immutable project after the call, so their check for changes never fires; a
change made meanwhile by others is a matter of `ProjectService`.
Evidence that contradicts a verdict and comes after it leaves the verdict
current.

### Calls (`ProjectService`, `ProjectQueries`)

A call is idle, asking (the provider has its request), admitting (the answer is
there), saving (the next project is computed) or replied. Reading the project
and computing from it is one step, saving another: `get` returns an immutable
value, so nothing between the two can be told apart. The steps of `save` itself
are `Repository`'s. `AdmitAnswer` reads the project a second time and compares
what was sent with what is current, as all four coordinators do. `missed` notes,
for a call about to save, which others saved since it read; it is used by the
properties alone. A reference is an id with the content behind it, for after a
lost update one id may stand for two contents. `Save` applies the loader's rules
and looks at what it replaces only when a project is created.

What is stored at the start (`Starts`) is nothing, or a project that the phases
may have made and `get` accepts. `StartsAssumption` says so in terms of
`PhaseInvariants`; `ChainInvariant` shows that every project the phases make has
these properties, and TLC evaluates the assumption for the instance.
`ReceivedAssumption` is what the WSGI adapters check of a request before they
pass it on.

`RefusedSavesAreKnown` says which successful steps the loader refuses, and that
there are no others: the disagreements of section 6 about phases are its two cases.
`StoredArtifactsAreShown` compares the queries' checks with the loader's.

### Logical review (`LogicalReview`)

Documents are records of contracts, types, obligations, dependencies and holes
with the fields the rules read. The order-dependent parts are kept as they are:
`Scan` compares each contract with the first of its name, `CycleFindings` is the
depth-first walk `visit` with its stack, one frame per node. A finding's
identity is what the code hashes. A report is written down and read back through
`ReportLoads`, which refuses a report that repeats an identity.

### Contracts (`ContractCalculus`)

Terms are records with the code's operators. `TypeOf` gives a type, `Refused`
for a ValueError or `Crashed` for a TypeError, and of several errors the first
in the code's order. `Value` follows `_value`: what is converted by type and
what is left as text, where `and` and `or` stop, what a hole raises.
`EvaluationIsMeaning` compares it with the plain meaning of a term, except for
three situations named in `Misread` (section 6). Timestamps are numbers,
decimals whole numbers with spellings; NaN and infinities are left out, as are
numeric bounds, since Python integers have none.

### Documents (`Documents` ... `DocumentGates`)

Texts are short sequences of tokens which keep what the rules tell apart: no
value, blank, not text, an object's identity, a part of it. Colons join the
words of an identity, but for padding: `<<"o1", " ", "part">>` is `o1 :part`, and
`Stripped`, `PaddedSeparator` and `HasPaddedSubtarget` read a target as petta.py
does, white space around it and padding at its colon included. A level is a
member of the enumeration or plain text; since `SemanticLevel` is made of texts,
a plain one that equals a safe level passes for it where the code only asks for
membership in a set (`SafeByValue`). `TextOf` is `str`, which makes of an empty
reference the identity `None`. A reason is
abbreviated, with the fields the code appends left out. A validator is an
operator from document to document that adds its obligations and checks;
`Validate` applies the twelve in the order of `validate_document`. Where a
validator raises, `Raise` ends the run. Emission handles one list per step and
the loop over item parents one round per step, which is how far a reader could
tell the order apart. `ExecutableRefusals` is a separate entry point, judged on
the document as received. `DiagnosticsSummary` admits records by
`diagnostics.py`'s own rules from the same document. `InputsAssumption` says of
the documents only that records, facts and arguments come in lists, that what
stands for a number is a whole number and what stands for a target a sequence,
and that they have not been validated before: none has an identity of the kind
that validation makes up for its own questions.

### Flow summary (`FlowSummary`)

One action per iteration of each loop: the depth-first search with its stack and
colours, the spreading of one component, the topological relaxation. Where the
code takes any element of a set the model takes any.

### Faults

An operator introduced as a *Fault* is the definition after it with one mistake
in it. No specification uses it. Put in place of that definition it must make a
run fail: this shows that each property can be broken by the code it is about.

## 3. Runs

| Run | Instance | What it shows |
|---|---|---|
| `graph_staged` | 4 kinds citing earlier ones, 2 versions of each, 2 source texts | live inputs are live, history only grows, a lost approval cascades, lineage is the loop, and the invariant the proofs use |
| `pipeline_specs` | 2 versions of the source, specifications, review log and snapshots; three reviews, one with edits; one of each later kind | reviews and snapshots bind current specifications; results trace back to approvals |
| `pipeline_runs` | 2 versions from the logical IR on; a document with a critical finding; two outputs with the same paths | outputs and sandbox runs bind what was approved; which complete chains can be traced |
| `service_calls` | a second call during a first, with every command, query and external call among them, on no project, an elaborated one, one with waived output and one handed over (30,891 states) | updates are lost only to an overlap; answers are kept only for what was sent; which saves are refused; what is stored is shown; every call is answered |
| `repository_calls` | 3 writers, 3 temporary files | whole documents, no litter, no overwrite; durability, as refinement of `ProjectStore`; calls end |
| `logical_review` | all orderings of 3 contracts with up to 4 dependencies, 3 contracts of one or two names with four signatures, three with opposed invariants, gaps, holes and invalid documents (9,611 states) | findings exactly for what is wrong, cycles among them; reports are readable but for named repetitions; replay keeps decisions |
| `document_gates` | a sound document and those with one or two of its fields replaced, records repeated or removed; identities and targets with padding, levels that are plain text (699 documents, 24,035 states) | validators, backend, executable gate and diagnostics agree |
| `calculations` | all graphs of 4 nodes with up to 4 edges, of 3 nodes with a doubled edge, some with a temporal edge; contracts with every operator on operands of every type, right and wrong, in five contexts (50,996 states) | the walks end with a summary of the graph; what checks evaluates to its meaning; holes decide nothing |
| `verdict_evidence` | every required grade with no, one or two formal methods, resolved or not; every combination and order of admitted evidence | a pass is never contradicted, a refutation stands, failed runs promote nothing |
| `verdict_exhaustion` | the same | must fail: section 6 |
| `chain_reworked` | one source text, two versions of everything a plan stands on, of plan, review and evidence; edits and withdrawals; the pair and Hypothesis | results stand on an approved plan whose meaning is resolved, verdicts share ancestry |
| `chain_edited_plan` | one approved edit | must fail: section 6 |

Bounds. Two versions of a kind are enough for one to be superseded and for a
decision or reference to bind to the wrong one; the chains are as long as in the
code. `Reviewable` and `Commented` only limit which ids decisions and comments
are given on. Each writer publishes at most once or twice, and three writers
give every order of publishing and syncing that a fourth could not add to.
`Quota` gives each kind of the chain its number of versions. There only
Hypothesis fails, and decisions beside reviews are given on the first plan
alone; what the outcomes of the other tools amount to is the verdict run's
question. The verdict run is complete for its obligations: there are six
runtimes and each has at most one record. Projects may run out of versions,
which is why deadlock is not checked there; in `Repository` and
`ProjectService` it is, and the runs over documents, contracts and graphs stop
when their work is done.

Two overlapping calls are enough for each kind of interference, since calls meet
only in the stored project: a third can only overwrite once more. The requests
are those that apply to the starting projects; each start puts the next phases'
calls in reach. For documents, two defects let one rule hide another; three
items in a chain make the parents' loop go round twice, and three objects that
refer to one another give references two steps deep and cycles. Three contracts
are enough for a scan that remembers the first to miss the disagreement of the
other two, and for a cycle entered from outside. Four nodes give two components
of two, a cycle with a tail, and a diamond for the longest path.

Fairness. `repository_calls` assumes weak fairness of each writer's next system
call, for `CallsEnd`: the calls return, with or without an error, and wait for
nobody. `service_calls` assumes weak fairness of each call that was received,
for `CallsAreAnswered`: a call has a thread of its own, and the interfaces make a
provider answer or raise; no call waits for another, and requests need not come.
`calculations` assumes that the sequential program runs, for `SummaryIsReached`.

## 4. What is proved

Everything here holds for all kinds, texts, documents, requests, numbers of
calls, writers and versions, under the assumptions named in the modules. These
say that the kinds of a model are among the instance's, that flagged documents
are documents, that a review log is a sequence of entries, that a backend reports
what it admits, and what a start or a request of `ProjectService` is. Bounds on
versions are constants like the others.

### The project graph

A project value is made by composing functions, so the claims of
`ProjectInvariants` are predicates on projects rather than on a variable, and
`ProjectProofs` shows for each function of `Projects` what it keeps (`Base`,
`Layered`) and what it does (`Derives`, `FallsBelow`, `Extends`, `Cascades`). The
proofs of the phases, the semantic chain and the services compose these lemmas.

`Base` adds to type correctness that only the newest version of a kind is live,
that decisions follow states, that lineage is transitively closed, consists of
existing artifacts and is no larger than the citations make it, and that a source
has none. Without closure a cascade could stop half way, so that an approval
withdrawn above would leave something live below; without the last the cascade
of `AddDerived` could reach the source.

`ArtifactGraphProofs` proves every property of `graph_staged`.
`LiveInputsAreLive` needs one thing more, that kinds cite only
earlier kinds (`Staged`), for then along every lineage the rank of the kind falls
and superseding a kind cannot reach what its new version is built on. The phases
are staged. Validation plans are not: an edited plan cites the plan it
supersedes, and lives on with a dead input.

`LoopIsLineage` proves `LineageIsTheLoop`, on which all that the models say of
cascades rests: the passes of `_invalidate_from` end, and end with the set
`Reached`. The invariant adds that versions are finitely many, that none is in
its own lineage, and that a lineage is the direct inputs and all above them. A
pass only adds to what it has, inside a finite set, so some pass adds nothing;
and by then nothing of `Reached` is missing, for a missing version with the
least lineage would have all its inputs' answers known and be added.

### The phases

`ReviewPipelineProofs` proves all six properties of the pipeline runs. None of
them is inductive: they are about current versions, and a step that supersedes
one kind moves what "current" means for others. The inductive invariant
`PhaseInv` speaks of every version instead:

* `Cites`: which kinds a version cites;
* `Bound`: how its content is tied to the content of what it cites (a snapshot
  to the reviewed text, a review to its document, a hand-off to the files of its
  output, a report to its lineage);
* `ApprovedAbove`: which approvals a live version stands under, at any distance;
* `Layered`, `LineageLive`: what a live version is built on is live;
* `Twins`: a live snapshot comes with the other snapshot, and a live interaction
  log with what it is the log of, built on nothing else than it is.

Twins are needed because the loader asks for the partner of a log or snapshot
that cites nothing of it: it has to be shown that whatever takes the partner
away takes the log too. This fails for the elaboration log, whose specifications
can be resubmitted alone, and the loader refuses that project (section 6).
`ElaborationLoads`, `LogicalIRLogAgrees` and `CompilationLogAgrees` are
therefore no theorems. Each phase function has a lemma that it keeps the
invariant, composite ones in the order of their parts, where the invariant may
lack one twin in between. `ReviewRules` to `RunRules` derive the loader's chain
rules. TLC has checked `PhaseInv` on both instances of the pipeline.

`PhasesKeepHistory` is about steps: whatever phase is applied, composite or not,
no version, citation or comment is rewritten and none that was invalidated
comes back; and if the step takes an approval away, nothing built on the
approved version is live after it. Every part of a composite phase does so
(`Follows`), and so do two in a row (`FollowsIsTransitive`).

### The services

`ProjectServiceProofs` proves the four safety properties of `service_calls`. A
call saves what one phase function made of one project it read, so the lemmas on
phases hold for every project in flight (`Good`). What remains is the
interleaving. `ServiceInv` relates three things: what a call that succeeded has
added (its marks), what the stored project has, and what every other call has
read. Marks are never taken back by a phase (`MarksStay`), so as long as each
call about to save has either read them or notes that it missed them, the next
save keeps them, or the loss is of an overlap (`Kept`). For
`ResultsStandOnWhatWasSent` it has to be shown that the new result, which
supersedes the version before, leaves current all it was made from. For
`RefusedSavesAreKnown` each function is shown to keep every rule of the loader,
but for the cases it names; for `StoredArtifactsAreShown` what the queries ask
is derived from `PhaseInv` and the loader's rules together.

### The semantic chain and verdicts

`SemanticChainProofs` proves the three safety properties of `chain_reworked`.
The phases' argument does not carry over, since an edited plan cites the plan it
supersedes: kinds do not fall along a lineage, and live versions may have dead
inputs. `SemanticInv` separates what a version was *founded* on, which is
written into it for good (a plan names every plan it descends from; a result
names an approved review; an approving review has only resolved contracts and
obligations above it), from what a live version *stands* on now: all of its
lineage is live and its plan approved, with the dead plan of an edit as the only
exception, and that for plans and their reviews alone. So a result can not come to
stand on an edited plan, which is the disagreement of `chain_edited_plan` from
the other side. `ResultsHaveMeaning` then follows through the review in the
result's lineage. TLC has checked `SemanticInv` on `chain_reworked`.
`ChainKeepsHistory` is `PhasesKeepHistory` for the steps of the chain: results
and verdicts go in the same step as the approval they stand on.

The same module proves of `VerdictComposition`, for every set of obligations, that a pass is
uncontradicted, that a refutation stands, that only clean runs promote, and in
which two ways exhausted runs refute (`ExhaustionRefutes`, which says how far the
claim of `verdict_exhaustion` is from true). The steps rest on lemmas about the operators
of `Verdicts`: one more record can only add a refutation, and a failed one adds
no grade but G2.

### The repository

`RepositoryProofs` proves, for any number of writers and files, with errors and
crashes anywhere, the safety properties of `repository_calls`, the refinement of
`ProjectStore` among them. Its inductive invariant `IInv` says what each writer
knows of its temporary file from its place in the code (`Owned`: without it a
file could be published before it is synced), that no two writers share one
(`Distinct`: otherwise one writer could write to what another has published),
that a document is published once and whole (`PublishedOnce`), and that a crash
takes back the newest documents from some place on (`CrashTakesNewest`). The
refinement maps the safe part of the store to the log's length plus one less the
number of things the name may be after a crash; `SafeIsPlace` shows by counting
them that this is that place, so that fsync of the directory is `Acknowledge`, a
rename or link is `Create` or `Save`, and every other call a stutter.

### Documents

`DocumentGatesProofs` and `CleanDocumentsProofs` prove, for any documents, what
validators, backend, executable gate and diagnostics promise one another.

*Emission.* `EmissionInv` says of every list, once its stage is past, that what
was written is exactly what the rules admit given the lists written before it.
The items are different, since their loop runs until a round refuses nothing:
there the invariant says that what stands are candidates and that no set of
candidates closed under parents has been broken up, so when the loop stops the
largest such set is left, whatever order the rounds took. `FirstReason` chooses
the least rule that holds, and its lemmas say that a record has no refusal
exactly if none of its rules holds. `DiagnosticsAgree` then compares rule by rule
with what `diagnostics.py` asks, and `ManifestsAreClosed` reads off from the rules
that a written record cites only written ones.

*The executable gate.* `SafeClosures`: the rounds of the walk extend every path
by one reference; a path that goes on has met no object twice, so there are no
more rounds than objects, and what the gate has then seen is all that can be
reached. So what a lowered object refers to, at any distance, is declared once,
of safe level, sourced, with well-formed facts, and without a cycle. No more than
that: nobody judges the role of what is referred to, a level of plain text counts
as the level it equals, and an empty reference of what a fact names itself passes
for a reference to `None` (section 6). The theorem says exactly this, in both
directions. The closures the gate lowers are put in order; a walk over a cyclic
reference would not end.

*Validation.* Each of the twelve validators adds answers to a set of judgements
(`Adds`), and the proof asks who could answer the same obligation twice. No two
steps judge one property (`Group`), and within a step the identity of a record,
or its place where identities may repeat, tells judgements apart: this is
`ValidationInv`, and `VerdictsAreOne` follows. `AskedInv` says that unknown
answers come with their question, that what validation adds to the objects are
such questions only, and that the identity of a question holds the target it
blocks, so that two unknowns never share one: `UnknownsAreAskedOnce`.

*Both together* (`CleanDocumentsProofs`). The validators ask some fifty
questions, and the backend has some forty reasons to refuse;
`CleanDocumentsAreAccepted` says that a document of which every question is
answered with a pass is refused nothing, but for one exception. `AccountedInv`
keeps an account of validation while nothing was found wrong: which records were
judged sound so far (one `Part` per group of judgements), and that every
obligation and check was added once, by a judgement about a record or a fact,
with a span the document or a record cites (`Grounds`). `RefusalsInv` says the
converse of emission: what is refused gives a reason, an item the reason that no
set of candidates keeps it. Then the two are compared list by list. The layer is
the hard part. Added obligations pass the rules too, because what a judgement is
about is declared, names that validation makes differ from those the document
brought, and a target has one owner unless an identity other than an object's
own begins with an object's, padded or not (`NoneLooksLikeAPart`). What is left is a stray: a generated object whose span the manifest
lacks, the obligations that cite its span or are about it, and the checks of
those.

The attempts corrected the model. The refusals of one round over item parents
ranged over all items, where petta.py:790-806 looks at candidates only. And
three properties were false for documents TLC had not been given, those where an
identity repeats or looks like a part of another object; they now say so in
their premises (`CarriedOnceEach`, `NoneLooksLikeAPart`), the last of which is a
disagreement of section 6.

## 5. What is only model-checked

* `CallsEnd`, `CallsAreAnswered`, `SummaryIsReached`: liveness under fairness is
  beyond the provers used.
* `FindingsAreExact`, `EvaluationIsMeaning`, `HolesDecideNothing` and the
  properties of `FlowSummary`: they compare with a recursive definition (the
  depth-first walk, a term's meaning, reachability), and what such a definition
  computes is an induction over data, which the provers can not do.
* `OnlyRepetitionIsUnreadable` and `ReplayKeepsDecisions`: a report is the
  concatenation of what the checks find, contract by contract, and that it is a
  sequence of findings at all is again an induction over the document.

## 6. Where the code and its documentation disagree

Two are runs that must fail and were reproduced in Python:

* `ApprovedPlansCanRun`: a plan approved with edits cites the plan it
  supersedes, and no backend can add evidence of it (dual_runtime.py:77).
* `ExhaustionIsInconclusive`: docs/stage11-release-acceptance.md:29 wants unknown
  or blocked for timeout and exhaustion, and tests/test_verdict_composition.py:72-78
  expects unknown of a run with exit 124. An exhausted run of Hypothesis counts
  as a counterexample (verdict_composition.py:150-152). One of the pair counts as
  divergence, since its observations are thrown away and the other's are not
  (dual_runtime.py:49, verdict_composition.py:140); the test gives the exhausted
  run the observations of the finished one. `ExhaustionRefutes` proves that these
  are the only two ways.

The others came up while modelling and were reproduced in Python. A property of
a passing run says of most of them exactly when they occur.

Phases and verdicts:

* Revoking an approval of a provider's elaboration, or resubmitting a
  specification, leaves the elaboration log current, and save refuses the
  project, although README.md:137 describes the cascade (projects.py:801;
  first case of `RefusedSavesAreKnown`).
* Deferring a waived finding after compilation leaves output that is not
  admitted, and save refuses the disposition README.md:154 says is persisted
  (projects.py:982; second case of `RefusedSavesAreKnown`).
* The request digest covers the paths of a hand-off, not its artifact or text,
  so a late result of superseded output is accepted (projects.py:523,
  README.md:192).
* No report can be made of an admitted elaboration, because its specifications
  cite the interaction log (projects.py:546, README.md:211; `ChainsAreTraceable`).
* A new logical IR beside an older interaction log: the loader refuses the
  project (projects.py:898, README.md:148; `LogicalIRLogAgrees` and
  `CompilationLogAgrees` of `Phases`).
* A review that withdraws an approval invalidates its own log, and the route
  that reports the log fails after saving (project_transport.py:260).
* Two crashed runtimes have equal, empty observations, and an obligation that
  requires neither G2 nor G3 passes (verdict_composition.py:139).
* A second counterexample supersedes the first, whose evidence stays current,
  so a later verdict reports none for it (projects.py:258).

Services:

* Between a coordinator's second read and its save, a change by another call is
  lost, a revoked approval among them, although the comment at
  sandbox_backend.py:72 claims the race is covered. For an elaboration the gap
  contains the validator's compilation of both texts (`LossNeedsOverlap`).
* Output that was added without an interaction is stored and not shown
  (project_queries.py:152; the exception in `StoredArtifactsAreShown`).

Logical review and contracts:

* Two findings of one identity make a report that can not be read back, so the
  project with it can not be saved; two contracts that disagree with a third in
  the same way but with different sources even fail
  `validate_review_for_document` when fresh (logical_ir.py:434, :494).
* Decimals and timestamps inside a list, record or option stay text, so equal
  ones may compare as different; quantifying over a variable of timestamps
  raises AttributeError; ordering or adding lists or records raises TypeError in
  the checker; a contract with an Option input can never be interpreted; an
  input named `result` is replaced by the output (contract_calculus.py:234-370;
  `Misread`, `ChecksGiveTruthValues`).
* A hole past the operand that settles a conjunction does not prevent
  interpretation; it changes no result (`HolesDecideNothing`).

Documents:

* Parallel edges make the reported depth smaller than the "longest path in DAG"
  of the comment near petta.py:536 (`DepthIsLongestPath`).
* `validate_document` raises AttributeError on a file whose text is not a string
  (validators.py:476) and on an edge beside an item with a malformed span
  (validators.py:1154): `SpansRaise`, `EdgesRaise`.
* A generated object whose span is not in the manifest passes the validators and
  is refused by the backend (the exception in `CleanIsAccepted`).
* The validators take any declared identity for a target, the backend takes
  whatever begins with `o1:` for a part of object `o1` (validators.py:837,
  petta.py:67, :78). In a document that passes, with an object `o1` and an item
  `o1:`, what is said of the item is refused; and with objects `o1` and `o1 `, the
  obligations `o1 :fact:...` about the second are refused as padded parts of the
  first (the premise `NoneLooksLikeAPart` of `CleanIsAccepted`).
* The gate before executable skeletons refuses an object for its own level or
  role of plain text, but not the objects that refer to it when that text is a
  safe level (petta.py:1378, :1463, :1502), whatever its role; and a reference
  left empty by what a fact names is read as `None`, which an object may be called
  (petta.py:1438, :1461). All three are in `OnlySafeClosuresAreLowered`.
* The concept counts of the diagnostics are 0 for built documents, whose concept
  facts are not of the object that carries them (passes.py:189).

## 7. What is not modelled

* `passes.py`, `source_indexer.py`: regular expressions over English, without
  state and almost without control. Their documents, sound and defective, are
  the inputs of `DocumentGates`.
* `semantic_api.py`: a service that reads the project, waits for an injected plan
  author or executor and saves what comes back without reading again (lines 56-58,
  86-88). What was saved meanwhile is lost, as `LossNeedsOverlap` shows of the
  calls that are modelled. The steps it calls are those of `SemanticChain`.
* Prompts, response schemas and sandbox protocol: construction and strict
  parsing of JSON. Accepted or not is the answer of a provider in
  `ProjectService`.
* `evaluation*.py`, `vertical_acceptance.py`: scripts that drive the components
  over fixed inputs. `src/webapp` renders compiler output and keeps no state.
* `src/plain_to_metta`, an earlier compiler kept for notebooks, and the Lean
  kernel, a formal development of its own.
* Of the repository: symbolic links, `list_statuses`.

## 8. What could come next

The passes of the compiler, as far as they have control. For the reviews of
logical IR and the contracts, a proof by hand of what their recursive definitions
compute, kept beside TLC's runs.
