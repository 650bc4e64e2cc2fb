------------------------------ MODULE Verdicts ------------------------------
(***************************************************************************)
(* compose_validation_verdict of specatom_hs/verdict_composition.py: what  *)
(* status and which grades the evidence of a set of runtimes gives one     *)
(* obligation, a record [required, methods, unresolved].                   *)
(*                                                                         *)
(* Evidence is an exit and what was seen.  The exit codes 124 and 137 are  *)
(* Exhausted, other nonzero codes Crashed.  A list of observations is      *)
(* Nothing when empty, Expected when all of them match their oracle,       *)
(* Wrong or Different (two distinct lists) when some do not.               *)
(***************************************************************************)
Hyperon == "hyperon-metta"
Reference == "python-reference"
Hypothesis == "python-hypothesis"
TLC == "tla-tlc"
SmtLib == "z3-smtlib"
Lean == "lean4-kernel"

DualRuntimes == {Hyperon, Reference}
Runtimes == DualRuntimes \cup {Hypothesis, TLC, SmtLib, Lean}

FormalRuntime == [tlc |-> TLC, smt |-> SmtLib, lean |-> Lean]
FormalRuntimes == {FormalRuntime[method] : method \in DOMAIN FormalRuntime}

GradeKeys == {"G0", "G1", "G2", "G3", "G4", "G5", "G6"}

Finished == "finished"
Crashed == "crashed"
Exhausted == "exhausted"

Nothing == "nothing"
Expected == "expected"
Wrong == "wrong"
Different == "different"

Outcomes ==
    [exit : {Finished, Crashed, Exhausted}, seen : {Nothing, Expected, Wrong, Different}]

(***************************************************************************)
(* What each backend lets in of what its runtime reports.                  *)
(***************************************************************************)

\* A runtime of the pair that exits nonzero has no observations; one that
\* exits with zero has observed every case of the plan.
AdmittedOfPair ==
    [exit : {Finished}, seen : {Expected, Wrong, Different}]
        \cup [exit : {Crashed, Exhausted}, seen : {Nothing}]

\* Exit zero cannot conceal a failed observation.
AdmittedOfHypothesis ==
    [exit : {Finished, Crashed, Exhausted}, seen : {Nothing, Expected}]
        \cup [exit : {Crashed, Exhausted}, seen : {Wrong}]

\* No failure without a trace, and the exit is 0 or 1 as the models passed.
AdmittedOfTLC == {[exit |-> Finished, seen |-> Expected], [exit |-> Crashed, seen |-> Wrong]}

\* Unknown, timeouts and results other than the expected one are refused.
AdmittedOfSmtLib == {[exit |-> Finished, seen |-> Expected]}

\* Only what the kernel checked.
AdmittedOfLean == {[exit |-> Finished, seen |-> Expected]}

Admitted(runtime) ==
    CASE runtime \in DualRuntimes -> AdmittedOfPair
      [] runtime = Hypothesis -> AdmittedOfHypothesis
      [] runtime = TLC -> AdmittedOfTLC
      [] runtime = SmtLib -> AdmittedOfSmtLib
      [] runtime = Lean -> AdmittedOfLean

-----------------------------------------------------------------------------
\* The evidence composed is a function on the runtimes there is evidence of.

HasAll(evidence, runtimes) == runtimes \subseteq DOMAIN evidence

Unmatched(outcome) == outcome.seen \in {Wrong, Different}

TimedOut(evidence) == \E runtime \in DOMAIN evidence : evidence[runtime].exit = Exhausted

\* Both runtimes of the pair, with different observations or with the same
\* wrong ones.
PairRefutes(evidence) ==
    /\ HasAll(evidence, DualRuntimes)
    /\ \/ evidence[Hyperon].seen # evidence[Reference].seen
       \/ Unmatched(evidence[Hyperon])

\* Fault: only a failed observation counts, not a failed run.
HypothesisRefutesOnSight(evidence) ==
    Hypothesis \in DOMAIN evidence /\ Unmatched(evidence[Hypothesis])

HypothesisRefutes(evidence) ==
    /\ Hypothesis \in DOMAIN evidence
    /\ Unmatched(evidence[Hypothesis]) \/ evidence[Hypothesis].exit # Finished

FormalResult(runtime, outcome) ==
    IF outcome.seen = Nothing \/ outcome.exit = Exhausted
    THEN "unknown"
    ELSE IF Unmatched(outcome) \/ (runtime = Lean /\ outcome.exit # Finished)
    THEN "fail"
    ELSE "pass"

AdmittedFormal(evidence) == FormalRuntimes \cap DOMAIN evidence

FormalWith(evidence, result) ==
    {runtime \in AdmittedFormal(evidence) : FormalResult(runtime, evidence[runtime]) = result}

RequiredFormal(obligation) == {FormalRuntime[method] : method \in obligation.methods}

\* Fault: the checker that failed must be one the obligation asked for.
RefutedAsRequired(obligation, evidence) ==
    \/ PairRefutes(evidence)
    \/ HypothesisRefutes(evidence)
    \/ FormalWith(evidence, "fail") \cap RequiredFormal(obligation) # {}

Refuted(obligation, evidence) ==
    \/ PairRefutes(evidence)
    \/ HypothesisRefutes(evidence)
    \/ FormalWith(evidence, "fail") # {}

-----------------------------------------------------------------------------
\* Grades: G0 and G1 always, G6 never.

BothRan(evidence) ==
    HasAll(evidence, DualRuntimes) /\ \A runtime \in DualRuntimes : evidence[runtime].exit = Finished

BothAgree(evidence) == BothRan(evidence) /\ ~PairRefutes(evidence)

PropertiesHold(evidence) == Hypothesis \in DOMAIN evidence /\ ~HypothesisRefutes(evidence)

FormallyChecked(obligation, evidence) ==
    /\ RequiredFormal(obligation) # {}
    /\ HasAll(evidence, RequiredFormal(obligation))
    /\ AdmittedFormal(evidence) = FormalWith(evidence, "pass")

Grades(obligation, evidence) ==
    {"G0", "G1"}
        \cup {grade \in {"G2"} : BothRan(evidence)}
        \cup {grade \in {"G3"} : BothAgree(evidence)}
        \cup {grade \in {"G4"} : PropertiesHold(evidence)}
        \cup {grade \in {"G5"} : FormallyChecked(obligation, evidence)}

\* Anything but a refutation that keeps an obligation from passing.
Blocked(obligation, evidence) ==
    \/ obligation.unresolved
    \/ /\ ~TimedOut(evidence)
       /\ HasAll(evidence, DualRuntimes)
       /\ FormalWith(evidence, "unknown") = {}
       /\ obligation.required = "G5"
       /\ ~FormallyChecked(obligation, evidence)

Inconclusive(obligation, evidence) ==
    \/ TimedOut(evidence)
    \/ ~HasAll(evidence, DualRuntimes)
    \/ FormalWith(evidence, "unknown") # {}
    \/ obligation.required \notin Grades(obligation, evidence)

\* Fault: a timeout is looked at before the observations.
StatusTimeoutFirst(obligation, evidence) ==
    IF TimedOut(evidence) THEN "unknown"
    ELSE IF Refuted(obligation, evidence) THEN "fail"
    ELSE IF Blocked(obligation, evidence) THEN "blocked"
    ELSE IF Inconclusive(obligation, evidence) THEN "unknown"
    ELSE "pass"

\* A refutation overrides everything; what blocks comes before what is open.
Status(obligation, evidence) ==
    IF Refuted(obligation, evidence) THEN "fail"
    ELSE IF Blocked(obligation, evidence) THEN "blocked"
    ELSE IF Inconclusive(obligation, evidence) THEN "unknown"
    ELSE "pass"
=============================================================================
