--------------------------------- MODULE Wcc ---------------------------------
(***************************************************************************)
(* AlgoImpl::get_wcc_count (src/src/algo/algo_Implementation.cpp): one     *)
(* scan of the vertex table that activates vertices in the DSU, unites the *)
(* ends of their outgoing edges and keeps the number of components.  The   *)
(* names that every specification has begin with Wcc here, because         *)
(* Algorithms extends Traversal too.                                       *)
(***************************************************************************)
EXTENDS Dsu, FiniteSetsExt

CONSTANTS
    Graph,           \* the graphs that may be scanned, [label, edges]
    Params           \* the queries, [label_type_id_list, relation_label_type_id_list]

\* In a stored graph an edge is the record numbers of its start and its end and
\* the relation between.
StoredGraphs ==
    {g \in Graph : \A e \in g.edges : e = <<e[1], e[2], e[3]>> /\ {e[1], e[3]} \subseteq Vertex}

VARIABLES
    graph, params,
    parent,          \* the forest, as parent_ of the DSU
    components,
    unscanned,       \* the vertices the scan has still to come to
    u,               \* the vertex it is at
    todo,            \* the edges of u still to be looked at
    edge,            \* the edge whose ends are to be united
    stage               \* where get_wcc_count is

wccVars == <<graph, params, parent, components, unscanned, u, todo, edge, stage>>

-----------------------------------------------------------------------------
(* SortedFilter *)

\* A filter without keys admits everything.
contains(keys, x) == keys = {} \/ x \in keys

-----------------------------------------------------------------------------
(* get_wcc_count *)

WccInit ==
    /\ graph \in StoredGraphs
    /\ params \in Params
    /\ parent = [x \in Vertex |-> kInactive]
    /\ components = 0
    /\ unscanned = Vertex
    /\ u = 0 /\ todo = {} /\ edge = <<>>
    /\ stage = "scan"

\* The outgoing edges of x the reader returns.  One relation alone is left to
\* the reader to filter; the result is the same as without.
OutEdges(x) ==
    LET rels == params.relation_label_type_id_list
    IN  {e \in graph.edges : e[1] = x /\ (Cardinality(rels) = 1 => e[2] \in rels)}

Admitted(x) == contains(params.label_type_id_list, graph.label[x])

\* Mutant: the vertex is made a set of its own whatever it was before.
AddedAnew(x) ==
    /\ parent' = activate(parent, x)
    /\ components' = components + 1

\* A vertex met for the first time, by the scan or as an end of an edge.
Added(x) ==
    IF is_active(parent, x) THEN UNCHANGED <<parent, components>>
    ELSE /\ parent' = activate(parent, x)
         /\ components' = components + 1

SkipVertex ==
    /\ stage = "scan" /\ unscanned # {}
    /\ ~ Admitted(Min(unscanned))
    /\ unscanned' = unscanned \ {Min(unscanned)}
    /\ UNCHANGED <<graph, params, parent, components, u, todo, edge, stage>>

ScanVertex ==
    /\ stage = "scan" /\ unscanned # {}
    /\ Admitted(Min(unscanned))
    /\ u' = Min(unscanned)
    /\ unscanned' = unscanned \ {u'}
    /\ Added(u')
    /\ todo' = OutEdges(u')
    /\ stage' = "edges"
    /\ UNCHANGED <<graph, params, edge>>

\* Mutant: the label of the other end is not looked at.
AcceptedWithoutLabel(e) ==
    /\ contains(params.relation_label_type_id_list, e[2])
    /\ e[3] # u

\* Mutant: only the edges to vertices not scanned yet are united.
AcceptedForward(e) ==
    /\ contains(params.relation_label_type_id_list, e[2])
    /\ Admitted(e[3])
    /\ e[3] \in unscanned

\* The edges that connect: of an admitted relation, to an admitted vertex, and
\* not from u to u.
Accepted(e) ==
    /\ contains(params.relation_label_type_id_list, e[2])
    /\ Admitted(e[3])
    /\ e[3] # u

SkipEdge(e) ==
    /\ stage = "edges" /\ e \in todo
    /\ ~ Accepted(e)
    /\ todo' = todo \ {e}
    /\ UNCHANGED <<graph, params, parent, components, unscanned, u, edge, stage>>

TakeEdge(e) ==
    /\ stage = "edges" /\ e \in todo
    /\ Accepted(e)
    /\ Added(e[3])
    /\ edge' = e
    /\ todo' = todo \ {e}
    /\ stage' = "unite"
    /\ UNCHANGED <<graph, params, unscanned, u>>

\* unite: both finds compress, also when the two are in one set already.
Unite ==
    LET a == Compress(parent, u)
        b == Compress(a, edge[3])
        ra == FindRoot(b, u)
        rb == FindRoot(b, edge[3])
    IN  /\ stage = "unite"
        /\ IF ra = rb
           THEN parent' = b /\ UNCHANGED components
           ELSE parent' = Link(b, ra, rb) /\ components' = components - 1
        /\ edge' = <<>>
        /\ stage' = "edges"
        /\ UNCHANGED <<graph, params, unscanned, u, todo>>

EndVertex ==
    /\ stage = "edges" /\ todo = {}
    /\ stage' = "scan"
    /\ UNCHANGED <<graph, params, parent, components, unscanned, u, todo, edge>>

EndOfScan ==
    /\ stage = "scan" /\ unscanned = {}
    /\ stage' = "done"
    /\ UNCHANGED <<graph, params, parent, components, unscanned, u, todo, edge>>

WccDone == stage = "done" /\ UNCHANGED wccVars

WccNext ==
    \/ SkipVertex \/ ScanVertex
    \/ \E e \in todo : SkipEdge(e) \/ TakeEdge(e)
    \/ Unite \/ EndVertex \/ EndOfScan \/ WccDone

WccSpec == WccInit /\ [][WccNext]_wccVars

-----------------------------------------------------------------------------
(* Properties *)

Active == {x \in Vertex : is_active(parent, x)}
RootSet == {x \in Active : parent[x] < 0}
SetOf(r) == {x \in Active : FindRoot(parent, x) = r}

WccTypeOK ==
    /\ parent \in [Vertex -> {kInactive} \cup (- Cardinality(Vertex) .. -1) \cup Vertex]
    /\ components \in 0 .. Cardinality(Vertex)
    /\ unscanned \in SUBSET Vertex
    /\ u \in Vertex \cup {0}
    /\ todo \in SUBSET graph.edges
    /\ stage \in {"scan", "edges", "unite", "done"}
    /\ stage = "unite" => edge \in graph.edges

\* Each root holds the number of the vertices below it, in a number that is
\* never taken for the mark of an inactive vertex (lines 246-248).
RootsHoldSizes ==
    \A r \in RootSet : - parent[r] = Cardinality(SetOf(r))

\* Union by size and compression keep the trees low: one of height h has at
\* least 2^h vertices, which is what bounds the time of find.
TreesAreLow ==
    LET up[x \in Vertex] == IF parent[x] < 0 THEN 0 ELSE 1 + up[parent[x]]
    IN  \A x \in Active : 2 ^ up[x] <= Cardinality(SetOf(FindRoot(parent, x)))

\* The vertices that x is connected with, whichever way the edges point: no set
\* that every edge leaves alone or has both ends in has x and not them.
Component(x, nodes, edges) ==
    LET closed == {S \in SUBSET nodes : \A e \in edges : e[1] \in S <=> e[3] \in S}
    IN  {y \in nodes : \A S \in closed : x \in S => y \in S}

\* The edges of the induced subgraph of a query (the comment of get_wcc_count):
\* those of an admitted relation between vertices of admitted labels.
InducedNodes == {x \in Vertex : Admitted(x)}
InducedEdges ==
    {e \in graph.edges : /\ contains(params.relation_label_type_id_list, e[2])
                         /\ {e[1], e[3]} \subseteq InducedNodes}

\* Those of them that have been united.
United == {e \in InducedEdges : e[1] \notin unscanned /\ e \notin todo /\ e # edge}

\* At every moment of the scan, two vertices are in one set exactly when the
\* edges seen so far connect them.
SetsAreConnected ==
    \A x \in Active : SetOf(FindRoot(parent, x)) = Component(x, Active, United)

\* What is returned is the number of weakly connected components.
CountIsWcc ==
    stage = "done" =>
       components = Cardinality({Component(x, InducedNodes, InducedEdges) : x \in InducedNodes})

\* The forest implements a partition of the vertices met so far.
P == INSTANCE Partition WITH
    classes <- {SetOf(r) : r \in RootSet},
    count <- components
ImplementsPartition == P!Spec
=============================================================================
