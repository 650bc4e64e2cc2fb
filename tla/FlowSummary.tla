----------------------------- MODULE FlowSummary -----------------------------
(***************************************************************************)
(* The summary of the information-flow graph (backends/petta.py,           *)
(* _compute_information_flow_summary): one walk that counts the edges that *)
(* close a cycle, one that counts the components, and, for a graph without *)
(* cycles, a pass in topological order for its depth.  Nodes are numbers,  *)
(* whose order is the order of their names.                                *)
(***************************************************************************)
EXTENDS Naturals, Sequences, FiniteSets
LOCAL INSTANCE SequencesExt
LOCAL INSTANCE FiniteSetsExt

CONSTANT Flows         \* the lists of edges a document may hold

VARIABLES
    flow,              \* the data-flow and temporal edges, as pairs of nodes
    phase,             \* the walk under way
    color,             \* white, gray on the stack, black when done
    stack,             \* nodes of the first walk and how many neighbours each has had
    cycles,            \* edges found that close a cycle
    components,        \* the components of the second walk
    inDegree, depth, queue,
    maxDepth

flowVars == <<flow, phase, color, stack, cycles, components, inDegree, depth, queue, maxDepth>>

-----------------------------------------------------------------------------

Ends(edges) == UNION {{e[1], e[2]} : e \in Range(edges)}
Nodes(f) == Ends(f.data) \cup Ends(f.temporal)
Sorted(S) == SetToSortSeq(S, <)

\* Neighbours are sets: edges that run in parallel count once, and temporal
\* edges not at all.
Successors(f, n) == {e[2] : e \in {e \in Range(f.data) : e[1] = n}}
Neighbours(f, n) == Successors(f, n) \cup {e[1] : e \in {e \in Range(f.data) : e[2] = n}}

\* Edges are counted one by one here.
EdgesInto(f, n) == Cardinality({i \in DOMAIN f.data : f.data[i][2] = n})
EdgesFrom(f, n) == Cardinality({i \in DOMAIN f.data : f.data[i][1] = n})

Sources(f) == {n \in Nodes(f) : EdgesInto(f, n) = 0}
Sinks(f) == {n \in Nodes(f) : EdgesFrom(f, n) = 0}
Bottlenecks(f) == {n \in Nodes(f) : EdgesInto(f, n) >= 3 /\ EdgesFrom(f, n) >= 3}

FlowInit ==
    /\ flow \in Flows
    /\ phase = "cycles"
    /\ color = [n \in Nodes(flow) |-> "white"]
    /\ stack = <<>>
    /\ cycles = 0
    /\ components = {}
    /\ inDegree = [n \in Nodes(flow) |-> EdgesInto(flow, n)]
    /\ depth = [n \in Nodes(flow) |-> 0]
    /\ queue = Sorted(Sources(flow))
    /\ maxDepth = 0

-----------------------------------------------------------------------------
(* Cycles: a walk in depth from every node still white. *)

White == {n \in Nodes(flow) : color[n] = "white"}

StartWalk ==
    /\ phase = "cycles" /\ stack = <<>> /\ White # {}
    /\ LET start == Min(White) IN
       /\ color' = [color EXCEPT ![start] = "gray"]
       /\ stack' = <<[node |-> start, seen |-> 0]>>
    /\ UNCHANGED <<flow, phase, cycles, components, inDegree, depth, queue, maxDepth>>

\* The next neighbour of the node on top, which is entered when white.
Advance(next) ==
    LET moved == [stack EXCEPT ![Len(stack)].seen = @ + 1] IN
    /\ cycles' = IF color[next] = "gray" THEN cycles + 1 ELSE cycles
    /\ color' = IF color[next] = "white" THEN [color EXCEPT ![next] = "gray"] ELSE color
    /\ stack' = IF color[next] = "white" THEN Append(moved, [node |-> next, seen |-> 0]) ELSE moved

Walk ==
    /\ phase = "cycles" /\ stack # <<>>
    /\ LET top == Last(stack)
           neighbours == Sorted(Successors(flow, top.node)) IN
       IF top.seen < Len(neighbours) THEN Advance(neighbours[top.seen + 1])
       ELSE /\ stack' = Front(stack)
            /\ color' = [color EXCEPT ![top.node] = "black"]
            /\ UNCHANGED cycles
    /\ UNCHANGED <<flow, phase, components, inDegree, depth, queue, maxDepth>>

EndWalks ==
    /\ phase = "cycles" /\ stack = <<>> /\ White = {}
    /\ phase' = "components"
    /\ UNCHANGED <<flow, color, stack, cycles, components, inDegree, depth, queue, maxDepth>>

-----------------------------------------------------------------------------
(* Components, one at a time, edges taken both ways. *)

Unvisited == Nodes(flow) \ UNION components

\* What is reached from a node in as many rounds as there are nodes.
Spread(n) ==
    FoldLeft(LAMBDA reached, round : reached \cup UNION {Neighbours(flow, m) : m \in reached},
             {n}, [i \in 1..Cardinality(Nodes(flow)) |-> i])

NextComponent ==
    /\ phase = "components"
    /\ IF Unvisited = {} THEN phase' = "depth" /\ UNCHANGED components
       ELSE components' = components \cup {Spread(Min(Unvisited)) \ UNION components} /\ UNCHANGED phase
    /\ UNCHANGED <<flow, color, stack, cycles, inDegree, depth, queue, maxDepth>>

-----------------------------------------------------------------------------
(* Depth: only without cycles, nodes taken when no edge into them is left. *)

\* Fault: a node keeps the first depth it got.
RelaxOnce(n, next) == IF depth[next] > 0 THEN depth[next] ELSE depth[n] + 1

\* The depth of a neighbour of the node taken.
Relax(n, next) == IF depth[next] >= depth[n] + 1 THEN depth[next] ELSE depth[n] + 1

TakeNode ==
    /\ phase = "depth" /\ cycles = 0 /\ queue # <<>>
    /\ LET n == Head(queue)
           next == Successors(flow, n) IN
       /\ depth' = [m \in Nodes(flow) |-> IF m \in next THEN Relax(n, m) ELSE depth[m]]
       /\ inDegree' = [m \in Nodes(flow) |-> IF m \in next THEN inDegree[m] - 1 ELSE inDegree[m]]
       /\ queue' = Tail(queue) \o Sorted({m \in next : inDegree'[m] = 0})
       /\ maxDepth' = Max({maxDepth} \cup {depth'[m] : m \in next})
    /\ UNCHANGED <<flow, phase, color, stack, cycles, components>>

Finish ==
    /\ phase = "depth" /\ (cycles > 0 \/ queue = <<>>)
    /\ phase' = "done"
    /\ UNCHANGED <<flow, color, stack, cycles, components, inDegree, depth, queue, maxDepth>>

Done == phase = "done" /\ UNCHANGED flowVars

FlowNext == StartWalk \/ Walk \/ EndWalks \/ NextComponent \/ TakeNode \/ Finish \/ Done

\* The function runs to its end.
FlowSpec == FlowInit /\ [][FlowNext]_flowVars /\ WF_flowVars(FlowNext)

\* What the summary says.
Summary ==
    [nodes |-> Cardinality(Nodes(flow)), edges |-> Len(flow.data), temporal |-> Len(flow.temporal),
     sources |-> Cardinality(Sources(flow)), sinks |-> Cardinality(Sinks(flow)),
     cycles |-> cycles, components |-> Cardinality(components), depth |-> maxDepth,
     bottlenecks |-> Cardinality(Bottlenecks(flow))]

-----------------------------------------------------------------------------
(* Properties. *)

\* Every part of an acyclic graph has a node none of the part leads to.
Acyclic(f) ==
    \A part \in SUBSET Nodes(f) \ {{}} : \E n \in part : part \cap Successors(f, n) = {}

\* The first walk finds a cycle exactly when there is one.
CyclesAreFound == Summary.cycles = 0 <=> Acyclic(flow)

\* The components are the smallest parts no edge leaves.
ComponentsPartition ==
    LET closed == {S \in SUBSET Nodes(flow) \ {{}} : \A n \in S : Neighbours(flow, n) \subseteq S} IN
    Summary.components = Cardinality({S \in closed : \A T \in closed : ~(T \subseteq S /\ T # S)})

\* A walk of k edges runs through the graph.
Path(f, k) ==
    \E p \in [1..(k + 1) -> Nodes(f)] : \A i \in 1..k : p[i + 1] \in Successors(f, p[i])

Parallel(f) == \E i, j \in DOMAIN f.data : i < j /\ f.data[i] = f.data[j]

\* The depth of an acyclic graph is the length of its longest path, "Max depth
\* (longest path in DAG if acyclic)"; two edges between the same nodes make it
\* smaller, never larger.
DepthIsLongestPath ==
    (Acyclic(flow) /\ Nodes(flow) # {}) =>
        /\ Path(flow, Summary.depth)
        /\ Parallel(flow) \/ ~Path(flow, Summary.depth + 1)

\* The three walks end, whatever the graph and however its nodes and edges are
\* ordered, and what is then reported is what the graph has.
SummaryIsReached ==
    <>(phase = "done" /\ CyclesAreFound /\ ComponentsPartition /\ DepthIsLongestPath)
=============================================================================
