------------------------- MODULE VerdictComposition -------------------------
(***************************************************************************)
(* One obligation while the evidence about it comes in, runtime by runtime *)
(* and in any order.  A verdict can be asked for after any of it.          *)
(***************************************************************************)
EXTENDS Verdicts

CONSTANT
    Obligations     \* the obligations of this instance

ASSUME ObligationsAssumption ==
    Obligations \subseteq
        [required : GradeKeys, methods : SUBSET (DOMAIN FormalRuntime), unresolved : BOOLEAN]

VARIABLES obligation, evidence

verdictVars == <<obligation, evidence>>

VerdictInit ==
    /\ obligation \in Obligations
    /\ evidence = [runtime \in {} |-> Nothing]

\* Evidence of one runtime more is taken into account.  A second record of a
\* runtime is refused.
AdmitEvidence(runtime) ==
    /\ runtime \notin DOMAIN evidence
    /\ \E outcome \in Admitted(runtime) :
        evidence' = [r \in DOMAIN evidence \cup {runtime} |->
                        IF r = runtime THEN outcome ELSE evidence[r]]
    /\ UNCHANGED obligation

VerdictNext == \E runtime \in Runtimes : AdmitEvidence(runtime)

VerdictSpec == VerdictInit /\ [][VerdictNext]_verdictVars

-----------------------------------------------------------------------------
\* There is evidence of known runtimes only, and of each what its backend
\* lets in.
VerdictTypeOK ==
    /\ obligation \in Obligations
    /\ DOMAIN evidence \subseteq Runtimes
    /\ evidence \in [DOMAIN evidence -> Outcomes]
    /\ \A runtime \in DOMAIN evidence : evidence[runtime] \in Admitted(runtime)

\* A pass stands on no evidence that says otherwise, of any runtime, asked
\* for or not: nothing exhausted, nothing unmatched, the pair there, and the
\* grade the obligation requires reached.
PassIsUncontradicted ==
    Status(obligation, evidence) = "pass" =>
        /\ \A runtime \in DOMAIN evidence :
             evidence[runtime].exit # Exhausted /\ ~Unmatched(evidence[runtime])
        /\ HasAll(evidence, DualRuntimes)
        /\ obligation.required \in Grades(obligation, evidence)

\* Once refuted, an obligation stays refuted, whatever evidence comes later:
\* no timeout, unresolved meaning or passing tool covers it up.
RefutationStands ==
    [][Status(obligation, evidence) = "fail" => Status(obligation, evidence)' = "fail"]_verdictVars

\* One tool cannot promote an obligation by failing: evidence of a run that
\* did not finish, or that saw something unmatched, adds no grade.  G2 says
\* only that both runtimes ran, and is left out.
OnlyCleanRunsPromote ==
    [][\A runtime \in DOMAIN evidence' \ DOMAIN evidence :
        evidence'[runtime].exit # Finished \/ Unmatched(evidence'[runtime])
            => Grades(obligation, evidence)' \ {"G2"} \subseteq Grades(obligation, evidence)]_verdictVars

\* Exhaustion leaves an obligation open: "Timeout or resource exhaustion |
\* `Unknown` or `Blocked`" (docs/stage11-release-acceptance.md:29), where no
\* run crashed and nothing observed was unmatched.
ExhaustionIsInconclusive ==
    (TimedOut(evidence) /\ \A runtime \in DOMAIN evidence :
        evidence[runtime].exit # Crashed /\ ~Unmatched(evidence[runtime]))
    => Status(obligation, evidence) \in {"unknown", "blocked"}
=============================================================================
