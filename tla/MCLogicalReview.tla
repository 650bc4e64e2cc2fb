--------------------------- MODULE MCLogicalReview ---------------------------
(* Documents for LogicalReview: four families, one per group of checks. *)
EXTENDS LogicalReview, SequencesExt, FiniteSetsExt

T == [id |-> <<"t", 1>>, name |-> "t", sources |-> {<<"s", 1>>}]
ContractAs(id, name, inputs) ==
    [id |-> id, name |-> name, inputs |-> inputs, output |-> "t", others |-> <<>>,
     invariants |-> <<>>, sources |-> {<<"s", id[2]>>}, grounded |-> FALSE]
C(id) == ContractAs(<<"c", id>>, id, <<"t">>)
Obligation(id, tests, sources) == [id |-> id, tests |-> tests, sources |-> sources]
Dependency(id, edge, relation) ==
    [id |-> id, before |-> edge[1], after |-> edge[2], relation |-> relation, sources |-> {id}]
Hole(id, contract, type) == [id |-> id, contract |-> contract, type |-> type, sources |-> {<<"s", 2>>}]

Doc(contracts) ==
    [types |-> <<T>>, contracts |-> contracts, obligations |-> <<>>, dependencies |-> <<>>, holes |-> <<>>]

\* Orders of three contracts: up to four dependencies, and one to nowhere, one
\* of another relation and two in parallel.
Pairs == (1..3) \X (1..3)
Ordering(edges, relation) ==
    [Doc(<<C(1), C(2), C(3)>>) EXCEPT
        !.dependencies = [i \in DOMAIN edges |-> Dependency(<<"d", i>>, edges[i], relation)]]
Orderings ==
    {Ordering(SetToSeq(edges), "before") : edges \in UNION {kSubset(k, Pairs) : k \in 0..4}}
        \cup {Ordering(<<e, <<2, 1>>, e>>, "precedes") : e \in {<<1, 2>>, <<2, 3>>, <<1, 4>>}}
        \cup {Ordering(<<<<1, 2>>, <<2, 1>>>>, "related-to")}

\* Three contracts of one or two names.
Signatures ==
    {Doc([i \in 1..3 |-> ContractAs(<<"c", i>>, named[i], taken[i])]) :
        named \in [1..3 -> {1, 2}], taken \in [1..3 -> {<<>>, <<"t">>, <<"t", "t">>, <<"u", "u">>}]}

\* Three contracts that claim one thing or its opposite.
P(negative) == [key |-> "p", negative |-> negative, leaks |-> FALSE]
Leak(negative) == [key |-> "q", negative |-> negative, leaks |-> TRUE]
Claims == {<<>>, <<P(FALSE)>>, <<P(TRUE)>>, <<P(FALSE), P(TRUE)>>, <<P(TRUE), P(TRUE)>>}
Conditions ==
    {Doc([i \in 1..3 |-> [C(i) EXCEPT !.invariants = claimed[i]]]) : claimed \in [1..3 -> Claims]}
        \cup {Doc(<<[C(1) EXCEPT !.others = leaks, !.invariants = claims]>>) :
                leaks \in {<<Leak(FALSE)>>, <<Leak(TRUE)>>, <<Leak(FALSE), Leak(FALSE)>>},
                claims \in {<<>>, <<Leak(FALSE)>>, <<Leak(TRUE)>>}}

\* Gaps, holes, obligations, and the documents that are not valid.
Gaps ==
    {[Doc(<<[C(1) EXCEPT !.grounded = grounded]>>) EXCEPT !.holes = holes, !.obligations = obligations] :
        grounded \in BOOLEAN,
        holes \in {<<>>, <<Hole(<<"h", 1>>, <<"c", 1>>, "t")>>, <<Hole(<<"h", 1>>, <<"c", 1>>, "u")>>,
                   <<Hole(<<"h", 1>>, <<"c", 2>>, "t")>>},
        obligations \in {<<>>} \cup {<<Obligation(id, tests, sources)>> :
            id \in {<<"o", 1>>, <<"h", 1>>}, tests \in {{}, {"t1"}}, sources \in {{<<"s", 1>>}, {<<"s", 3>>}, {}}}}
        \cup {[Doc(<<C(1)>>) EXCEPT !.types = <<T, [T EXCEPT !.id = <<"t", 2>>]>>]}

\* Decisions do not depend on what a finding is of.
MCDecidable ==
    Gaps \cup Conditions \cup {d \in Orderings : Len(d.dependencies) = 2}

MCSubmitted == Orderings \cup Signatures \cup Conditions \cup Gaps
=============================================================================
