------------------------ MODULE MCVerdictComposition ------------------------
(***************************************************************************)
(* Instances of VerdictComposition for TLC.                                *)
(***************************************************************************)
EXTENDS VerdictComposition

\* Every required grade, with no formal method, one, or two of them.
MCObligations ==
    [required : GradeKeys, methods : {{}, {"lean"}, {"tlc", "smt"}}, unresolved : BOOLEAN]
=============================================================================
