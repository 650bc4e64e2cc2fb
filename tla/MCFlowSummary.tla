---------------------------- MODULE MCFlowSummary ----------------------------
(* Graphs for FlowSummary: loops and cycles on four nodes, and parallel edges. *)
EXTENDS FlowSummary, SequencesExt, FiniteSetsExt

Pairs(n) == (1..n) \X (1..n)
Flow(edges, temporal) == [data |-> SetToSeq(edges), temporal |-> temporal]

\* At most four edges on four nodes, no two in parallel.
SimpleFlows ==
    {Flow(edges, <<>>) : edges \in UNION {kSubset(k, Pairs(4)) : k \in 0..4}}
    \cup {Flow(edges, << <<1, 4>> >>) : edges \in kSubset(2, Pairs(3))}

\* At most three edges on three nodes, one of them given twice.
ParallelFlows ==
    {[data |-> <<e>> \o SetToSeq(edges), temporal |-> <<>>] :
        e \in Pairs(3), edges \in UNION {kSubset(k, Pairs(3)) : k \in 1..2}}

MCFlows == SimpleFlows \cup ParallelFlows
=============================================================================
