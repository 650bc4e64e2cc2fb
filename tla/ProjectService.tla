---------------------------- MODULE ProjectService ----------------------------
(***************************************************************************)
(* The stored project and the calls in flight: ProjectCommandService, the  *)
(* coordinators of the four external calls (elaboration, logical IR,       *)
(* compilation, sandbox) and the WSGI applications in front of them.       *)
(*                                                                         *)
(* A call reads the whole project, computes the next one with a function   *)
(* of Phases and saves the whole of it.  There is no lock and save does    *)
(* not look at what it replaces.  A coordinator reads twice: once to make  *)
(* its request, and again after the answer, to admit it only if what it    *)
(* sent is still current.  Reading is one step and saving another, so the  *)
(* calls interleave between them (system calls: Repository).               *)
(*                                                                         *)
(* A reference is an id and the content behind it, as in the code, where a *)
(* lost update may give one id to two contents.                            *)
(***************************************************************************)
EXTENDS ProjectQueries, PhaseInvariants

CONSTANTS
    Starts,         \* what is stored before the calls
    Requests,       \* call -> requests it may be
    Bundles         \* compiler outputs, records [files, text]

\* No project is stored.
Absent == [stored |-> FALSE]

Calls == DOMAIN Requests

VARIABLES
    project,        \* the stored project, or Absent
    calls           \* call -> how far it has come

vars == <<project, calls>>

-----------------------------------------------------------------------------
\* What calls may find and what they may ask for.

Received(ops) == {r \in UNION {Requests[c] : c \in Calls} : r.op \in ops}

Contents(p, kind) == {p.artifacts[kind][v].content : v \in DOMAIN p.artifacts[kind]}

\* Every content an artifact may have.
Texts ==
    MadeTexts \cup Bundles \cup {bundle.files : bundle \in Bundles}
        \cup {r.source : r \in Received({"create", "replace-source"})}
        \cup {r.log : r \in Received({"review"})}
        \cup UNION {Contents(p, kind) : p \in Starts \ {Absent}, kind \in Kinds}

\* What is stored is a project that the functions of Phases may have made and
\* that get accepts.
ASSUME StartsAssumption ==
    \A p \in Starts \ {Absent} :
    /\ p = [artifacts |-> p.artifacts, approvals |-> p.approvals, annotations |-> p.annotations]
    /\ p.artifacts = [kind \in Kinds |-> p.artifacts[kind]]
    /\ \A kind \in Kinds :
         /\ p.artifacts[kind] \in Seq(ArtifactRecords(Contents(p, kind)))
         /\ Len(p.artifacts[kind]) <= MaxVersions
    /\ p.approvals \in [ArtifactIds -> Decisions]
    /\ p.annotations \subseteq ArtifactIds
    /\ LineageClosed(p) /\ SourceIsRoot(p) /\ NewestOnly(p) /\ DecisionsFollow(p)
    /\ Ranked(p, PhaseRank) /\ InputsLive(p) /\ LineageLive(p)
    /\ Cites(p) /\ Bound(p) /\ ApprovedAbove(p)
    /\ SourceLive(p) /\ Twins(p) /\ Loads(p)

\* Decisions and reviews are parsed before they come here.
ASSUME ReceivedAssumption ==
    /\ \A r \in Received({"review"}) : r.log.entries \in Seq(ReviewEntries)
    /\ \A r \in Received({"decisions"}) : r.decision \in ReviewDecisions
    /\ \A r \in Received({"logical-review"}) : r.disposition \in FindingDecisions

-----------------------------------------------------------------------------
\* References and requests.

Ref(p, id) == [id |-> id, content |-> Artifact(p, id).content]
CurrentRefs(p, kinds) == {Ref(p, Current(p, kind)) : kind \in {k \in kinds : HasCurrent(p, k)}}

Names(p, kind, ref) == HasCurrent(p, kind) /\ ref = Ref(p, Current(p, kind))

\* An operation on the artifact a reference finds.
On(p, ref, Operation(_, _)) ==
    IF ref.id \in Ids(p) /\ ref = Ref(p, ref.id) THEN Operation(p, ref.id) ELSE {}

\* What an author or a reviewer submits.
Commands ==
    {"elaborated-spec", "test-spec", "annotations", "decisions", "review", "logical-review"}

\* What a program does with the functions of projects.py that have no command
\* (external: tests/test_sandbox_backend.py:118 saves a replaced source this way).
Edits == {"replace-source", "handoff", "trace-report"}

Coordinated == {"elaborate", "logical-ir", "compile", "test"}

Submit(p, r) ==
    CASE r.op = "elaborated-spec" ->
            IF Names(p, OriginalSpec, r.on) THEN SubmitElaboratedSpec(p) ELSE {}
      [] r.op = "test-spec" ->
            IF Names(p, ElaboratedSpec, r.on) THEN SubmitTestSpec(p) ELSE {}
      [] r.op = "annotations" -> On(p, r.on, Annotated)
      [] r.op = "decisions" -> On(p, r.on, LAMBDA q, id : Decided(q, id, r.decision))
      [] r.op = "review" ->
            IF Names(p, ElaboratedSpec, r.on) /\ Names(p, TestSpec, r.tests)
            THEN SubmitPhase3Review(p, r.log) ELSE {}
      [] r.op = "logical-review" ->
            IF Names(p, LogicalIR, r.on) /\ Names(p, LogicalReview, r.review)
            THEN DecideLogicalFinding(p, r.disposition) ELSE {}
      [] r.op = "replace-source" ->
            IF CanReplaceSource(p) THEN {ReplaceSource(p, r.source)} ELSE {}
      [] r.op = "handoff" -> UNION {AddSandboxHandoff(p, bundle.files) : bundle \in Bundles}
      [] r.op = "trace-report" -> AddTraceabilityReport(p)

-----------------------------------------------------------------------------
\* Coordinators: what a request is made of, and what its answer becomes.

CanAsk(p, op) ==
    CASE op = "elaborate" -> HasCurrent(p, OriginalSpec)
      [] op = "logical-ir" -> AllCurrent(p, {ReviewedSpec, ReviewedTests})
      [] op = "compile" -> CanBuildCompilationRequest(p)
      [] op = "test" -> HasCurrent(p, SandboxHandoff)

Inputs(op) ==
    CASE op = "elaborate" -> {OriginalSpec}
      [] op = "logical-ir" -> {ReviewedSpec, ReviewedTests}
      [] op = "compile" -> {ReviewedSpec, ReviewedTests, LogicalIR}
      [] op = "test" -> {SandboxHandoff}

Results(op) ==
    CASE op = "elaborate" -> ElaborationLog
      [] op = "logical-ir" -> LogicalIR
      [] op = "compile" -> CompilerOutput
      [] op = "test" -> TestResult

\* The answers the provider may give.
Answers(op) ==
    CASE op = "logical-ir" -> Documents
      [] op = "compile" -> Bundles
      [] OTHER -> {Drafted}

Admit(p, op, answer) ==
    CASE op = "elaborate" -> AddAdmittedElaboration(p)
      [] op = "logical-ir" -> AddLogicalIRResponse(p, answer)
      [] op = "compile" -> AddCompilationResponse(p, answer)
      [] op = "test" -> AddTestResult(p, Current(p, SandboxHandoff))

-----------------------------------------------------------------------------
\* The life of a call.

Idle == [stage |-> "idle"]
Replied(status) == [stage |-> "replied", status |-> status]
Asking(r, sent) == [stage |-> "asking", op |-> r.op, sent |-> sent]
Admitting(call, answer) ==
    [stage |-> "admitting", op |-> call.op, sent |-> call.sent, answer |-> answer]

\* base is what the call read, missed the calls that have saved since.
Saving(op, sent, next) ==
    [stage |-> "saving", op |-> op, sent |-> sent, base |-> project, next |-> next, missed |-> {}]

Become(c, call) == calls' = [calls EXCEPT ![c] = call] /\ UNCHANGED project

\* The next project when there is one, or an error.
SaveOrRefuse(c, op, sent, nexts) ==
    \/ nexts = {} /\ Become(c, Replied("400"))
    \/ \E next \in nexts : Become(c, Saving(op, sent, next))

\* Calls are told apart by their number only: they come in order.
Arrives(c, r) ==
    /\ calls[c].stage = "idle"
    /\ \A d \in Calls : d < c => calls[d].stage # "idle"
    /\ r \in Requests[c]

\* A wrong method, a body, a path or a reference the applications reject.
ReceiveMalformed(c, r) ==
    /\ Arrives(c, r) /\ r.op = "malformed"
    /\ Become(c, Replied(r.status))

ReceiveCreate(c, r) ==
    /\ Arrives(c, r) /\ r.op = "create"
    /\ IF project # Absent THEN Become(c, Replied("409"))
       ELSE Become(c, Saving(r.op, {}, NewProject(r.source)))

ReceiveSubmission(c, r) ==
    /\ Arrives(c, r) /\ r.op \in Commands \cup Edits
    /\ IF project = Absent THEN Become(c, Replied("404"))
       ELSE SaveOrRefuse(c, r.op, {}, Submit(project, r))

ReceiveQuery(c, r) ==
    /\ Arrives(c, r) /\ r.op = "get"
    /\ Become(c, Replied(CASE project = Absent -> "404"
                           [] project # Absent /\ Shows(project, r.resource) -> "200"
                           [] OTHER -> "400"))

Ask(c, r) ==
    /\ Arrives(c, r) /\ r.op \in Coordinated
    /\ CASE project = Absent -> Become(c, Replied("404"))
         [] project # Absent /\ CanAsk(project, r.op) ->
                Become(c, Asking(r, CurrentRefs(project, Inputs(r.op))))
         [] OTHER -> Become(c, Replied("400"))

\* The provider is asked once: it answers, or what it answers does not parse,
\* is not admissible or names another backend, request or adapter, or it fails.
Answer(c) ==
    /\ calls[c].stage = "asking"
    /\ \/ \E answer \in Answers(calls[c].op) : Become(c, Admitting(calls[c], answer))
       \/ \E status \in {"400", "502"} : Become(c, Replied(status))

\* Fault: the answer is admitted whatever has become of what was sent.
AdmitWhatever(c) ==
    LET call == calls[c] IN
    /\ call.stage = "admitting"
    /\ IF CanAsk(project, call.op)
       THEN SaveOrRefuse(c, call.op, call.sent, Admit(project, call.op, call.answer))
       ELSE Become(c, Replied("400"))

\* Fault: an answer that cannot be admitted is asked for once more.
AdmitOrAskAgain(c) ==
    LET call == calls[c] IN
    /\ call.stage = "admitting"
    /\ IF CanAsk(project, call.op) /\ CurrentRefs(project, Inputs(call.op)) = call.sent
       THEN SaveOrRefuse(c, call.op, call.sent, Admit(project, call.op, call.answer))
       ELSE Become(c, Asking(call, call.sent))

\* The project is read again.
AdmitAnswer(c) ==
    LET call == calls[c] IN
    /\ call.stage = "admitting"
    /\ IF CanAsk(project, call.op) /\ CurrentRefs(project, Inputs(call.op)) = call.sent
       THEN SaveOrRefuse(c, call.op, call.sent, Admit(project, call.op, call.answer))
       ELSE Become(c, Replied("400"))

\* What no later version of a project takes back.
Marks(p) ==
    {<<"version", id, Artifact(p, id).content>> : id \in Ids(p)}
        \cup {<<"invalidated", id>> : id \in {i \in Ids(p) : Artifact(p, i).state = Invalidated}}
        \cup {<<"annotated", id>> : id \in p.annotations}

MarksOf(stored) == IF stored = Absent THEN {} ELSE Marks(stored)

Noticed(c, d) ==
    IF d # c /\ calls[d].stage = "saving" THEN [calls[d] EXCEPT !.missed = @ \cup {c}] ELSE calls[d]

Acknowledged(call) ==
    [stage |-> "replied", status |-> IF call.op = "create" THEN "201" ELSE "200",
     added |-> Marks(call.next) \ MarksOf(call.base), missed |-> call.missed]

Store(c) ==
    /\ project' = calls[c].next
    /\ calls' = [d \in Calls |-> IF d = c THEN Acknowledged(calls[c]) ELSE Noticed(c, d)]

Save(c) ==
    /\ calls[c].stage = "saving"
    /\ CASE calls[c].op = "create" /\ project # Absent -> Become(c, Replied("409"))
         [] ~Loads(calls[c].next) -> Become(c, Replied("400"))
         [] OTHER -> Store(c)

-----------------------------------------------------------------------------
Init == project \in Starts /\ calls = [c \in Calls |-> Idle]

Receive(c) ==
    \E r \in Requests[c] :
        \/ ReceiveMalformed(c, r)
        \/ ReceiveCreate(c, r)
        \/ ReceiveSubmission(c, r)
        \/ ReceiveQuery(c, r)
        \/ Ask(c, r)

Proceed(c) == Answer(c) \/ AdmitAnswer(c) \/ Save(c)

Rest == (\A c \in Calls : calls[c].stage = "replied") /\ UNCHANGED vars

Next == (\E c \in Calls : Receive(c) \/ Proceed(c)) \/ Rest

\* A call that was received runs on its own thread and the provider answers or
\* fails: requests themselves need not come.
Spec == Init /\ [][Next]_vars /\ \A c \in Calls : WF_vars(Proceed(c))

-----------------------------------------------------------------------------
(* Properties. *)

Succeeded(c) == calls[c].stage = "replied" /\ calls[c].status \in {"200", "201"} /\ "added" \in DOMAIN calls[c]

\* Everything an acknowledged call added (a version, a comment, an
\* invalidation) is still in the stored project, unless some other call had
\* read the project before that call saved and saved after it: an update is
\* only ever lost to an overlap, however many calls come and whatever they do.
LossNeedsOverlap ==
    \A c \in Calls : Succeeded(c) =>
        \/ calls[c].added \subseteq MarksOf(project)
        \/ \E d \in Calls : Succeeded(d) /\ c \in calls[d].missed

\* What is saved of an answer stands on what the provider was sent: all of it
\* is current in the project that is saved, and the result cites nothing else
\* but the logs that came with it.
ResultsStandOnWhatWasSent ==
    \A c \in Calls : (calls[c].stage = "saving" /\ calls[c].op \in Coordinated) =>
        LET next == calls[c].next
            result == Current(next, Results(calls[c].op)) IN
        /\ calls[c].sent = CurrentRefs(next, Inputs(calls[c].op))
        /\ {Ref(next, id) : id \in Artifact(next, result).upstream} \subseteq calls[c].sent

\* What is stored is a project that get accepts.  What save refuses although
\* the function behind the call accepted it is a change of an admitted
\* elaboration that leaves its log without the specifications it came with, or
\* a change of what an admitted compilation stands on that leaves the output
\* current; nothing else.
RefusedSavesAreKnown ==
    /\ project = Absent \/ Loads(project)
    /\ \A c \in Calls : (calls[c].stage = "saving" /\ ~Loads(calls[c].next)) =>
         \/ HasCurrent(calls[c].next, ElaborationLog) /\ ~ElaborationLoads(calls[c].next)
         \/ HasCurrent(calls[c].next, CompilerOutput) /\ ~CompilerOutputAdmitted(calls[c].next)

\* A stored project answers for every artifact it has, except that output
\* added without an interaction is not shown.
StoredArtifactsAreShown ==
    project # Absent =>
        \A resource \in Resources :
            (HasCurrent(project, Shown[resource])
                /\ (resource = "compiler-output" => HasCurrent(project, CompilationLog)))
            => Shows(project, resource)

\* Every call that was received is answered.
CallsAreAnswered == \A c \in Calls : (calls[c].stage # "idle") ~> (calls[c].stage = "replied")
=============================================================================
