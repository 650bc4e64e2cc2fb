---------------------------- MODULE MCCalculations ----------------------------
(* The two calculations that keep no project: flow summaries and contracts.   *)
(* They share nothing and are taken in turn, the graph without edges first.   *)
EXTENDS MCFlowSummary, MCContractCalculus

SummaryStep == FlowNext /\ UNCHANGED vars

\* A contract is taken up where the summary of the graph without edges is done.
ContractStep == phase = "done" /\ flow.data = <<>> /\ Next /\ UNCHANGED flowVars

CalculationsInit == FlowInit /\ Init

CalculationsSpec ==
    /\ CalculationsInit
    /\ [][SummaryStep \/ ContractStep]_<<flowVars, vars>>
    /\ WF_flowVars(SummaryStep)
=============================================================================
