---------------------------- MODULE MCAlgorithms ----------------------------
(***************************************************************************)
(* The graphs, queries, patterns and filters the algorithms are checked    *)
(* on.                                                                     *)
(***************************************************************************)
EXTENDS Algorithms

MCVertex == 1 .. 4

-----------------------------------------------------------------------------
(* Traversal: every set of the edges below over three of the vertices, and *)
(* two relations, one of which a query may name twice.                     *)

MCLabel == [v \in MCVertex |-> CASE v = 2 -> "b" [] v = 4 -> "c" [] OTHER -> "a"]
MCRelation == {1, 2}

\* A triangle, a parallel edge, an edge back and a loop.
MCEdge == {<<1, 1, 2>>, <<1, 2, 2>>, <<2, 1, 3>>, <<3, 1, 1>>, <<3, 2, 3>>, <<2, 2, 1>>}
MCEdgeSets == SUBSET MCEdge

MCQueries ==
    [algo : {"k_hop", "adj", "adj_distinct"},
     vertex_id_list : {<<1>>, <<2, 1, 2>>},
     k : {0, 1, 3},
     direction : {1, 2, 3},
     n_labels : {{}, {"a"}},
     r_labels : {<<>>, <<1>>, <<2, 1, 2>>}]
      \cup [algo : {"k_hop"}, vertex_id_list : {<<>>, <<3>>}, k : {2}, direction : {1, 4},
            n_labels : {{}}, r_labels : {<<>>}]
      \cup [algo : {"common"}, vertex_id_list : {<<1>>, <<3, 2>>, <<1, 1>>, <<2, 3, 1>>},
            k : {0}, direction : {0}, n_labels : {{}}, r_labels : {<<>>, <<1>>, <<2, 1, 2>>}]

-----------------------------------------------------------------------------
(* SubgraphMatching, on the same graphs.                                   *)

Nodes(a, b, c) == [x \in {"x", "y", "z"} |-> CASE x = "x" -> a [] x = "y" -> b [] OTHER -> c]
PatternEdge(s, t, rels, d) == [source |-> s, target |-> t, relations |-> rels, direction |-> d]

AnyLabel == {"a", "b"}

\* Paths, a triangle, a pair of opposite edges and no edges at all, with edges
\* written in either direction; and no variables.
MCPatterns ==
    [nodes : {Nodes(AnyLabel, AnyLabel, AnyLabel), Nodes({"a"}, AnyLabel, {"a"}),
              Nodes(AnyLabel, {"b"}, {"a"}), Nodes({}, AnyLabel, {"c"})},
     edges : {{},
              {PatternEdge("x", "y", {1}, OUTGOING), PatternEdge("y", "z", {1, 2}, OUTGOING)},
              {PatternEdge("x", "y", {1, 2}, INCOMING), PatternEdge("z", "y", {2}, OUTGOING)},
              {PatternEdge("x", "y", {1}, OUTGOING), PatternEdge("y", "z", {1}, OUTGOING),
               PatternEdge("x", "z", {1}, INCOMING)},
              {PatternEdge("z", "x", {1, 2}, OUTGOING), PatternEdge("z", "x", {2}, INCOMING)}}]
      \cup {[nodes |-> [x \in {} |-> {}], edges |-> {}]}

\* Patterns with an edge from a variable to itself, alone and beside another
\* edge; the graphs have a loop.
MCLoopPatterns ==
    {[nodes |-> [x \in {"x"} |-> AnyLabel], edges |-> {PatternEdge("x", "x", {1, 2}, OUTGOING)}],
     [nodes |-> [x \in {"x", "y"} |-> AnyLabel],
      edges |-> {PatternEdge("x", "y", {1}, OUTGOING), PatternEdge("y", "y", {2}, INCOMING)}]}

-----------------------------------------------------------------------------
(* Wcc: every set of the edges below over four vertices of two labels, and *)
(* every filter.                                                           *)

MCVertexLabel == [x \in MCVertex |-> IF x = 4 THEN "b" ELSE "a"]

\* Edges in both senses, parallel ones, a loop, and cycles of every length;
\* 4 and 3 reach back to vertices that were scanned before them.
MCArc ==
    {<<1, "r", 2>>, <<1, "s", 2>>, <<2, "r", 2>>, <<3, "r", 4>>, <<2, "s", 3>>,
     <<3, "s", 1>>, <<4, "r", 1>>, <<4, "s", 2>>, <<1, "r", 4>>, <<3, "r", 2>>}

MCGraph == [label : {MCVertexLabel}, edges : SUBSET MCArc]

MCParams ==
    [label_type_id_list : {{}, {"a"}, {"b"}},
     relation_label_type_id_list : {{}, {"r"}, {"r", "s"}}]
=============================================================================
