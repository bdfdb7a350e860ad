------------------------------ MODULE MCService ------------------------------
(***************************************************************************)
(* Small stores and a request of every kind for Service.                   *)
(***************************************************************************)
EXTENDS Service, TLC

Row(spk, slabel, relation, epk, elabel) ==
    [start_pk |-> spk, start_label_type |-> slabel, relation_type |-> relation,
     end_pk |-> epk, end_label_type |-> elabel]

\* The store of one file: an edge, one of another relation back, and a loop.
Vertex(label, pk) == [label_type_id |-> label, vertex_pk |-> pk]
Out(start, relation, end) == EdgeKey(start, "OUTGOING", relation, end)
Edges(keys, label) ==
    LET all == keys \cup {Mirror(key) : key \in keys}
    IN  [key \in all |-> label[key.end_vertex_id]]

Imported ==
    [label_type |-> <<"L", "M">>, relation_type |-> <<"R", "S">>,
     vertex |-> <<Vertex(1, "a"), Vertex(2, "b")>>,
     edge |-> Edges({Out(1, 1, 2), Out(2, 2, 1), Out(1, 1, 1)}, <<1, 2>>)]

\* After another import of the file: all names are there twice.
Reimported ==
    [Imported EXCEPT !.label_type = <<"L", "M", "M", "L">>,
                     !.relation_type = <<"R", "S", "S", "R">>]

\* A file whose second row names a key with another label: the vertex keeps
\* the first one, the edge carries its own.
TwoLabels ==
    [label_type |-> <<"L", "M">>, relation_type |-> <<"R", "S">>,
     vertex |-> <<Vertex(1, "a"), Vertex(2, "b")>>,
     edge |-> Edges({Out(1, 1, 2)}, <<1, 2>>) @@ Edges({Out(2, 2, 1)}, <<2, 1>>)]

MCDatabases == {EmptyStore, Imported, Reimported, TwoLabels}

Post(route, body) == [route |-> route, content |-> "json", valid |-> TRUE, body |-> body]

KHopBodies ==
    {[node_ids |-> <<"a", "b">>, k |-> 1, direction |-> 3, n_labels |-> <<"M">>],
     [node_ids |-> <<"a">>, k |-> 0, direction |-> 1],
     [node_ids |-> <<>>, k |-> 1, direction |-> 1, r_labels |-> <<"S", "R">>],
     [node_ids |-> <<"c">>, k |-> 1, direction |-> 1],
     [node_ids |-> <<"a">>, direction |-> 1]}
CommonBodies ==
    {[node_ids |-> <<"b", "a">>, r_labels |-> <<"S">>],
     [node_ids |-> <<>>, r_labels |-> <<"T">>, n_labels |-> <<"N">>]}
WccBodies == {[n_labels |-> <<"L">>], [r_labels |-> <<"R">>, n_labels |-> <<"N">>]}
MatchingBodies ==
    {[nodes |-> <<[var |-> "x", labels |-> <<"L">>], [var |-> "y", labels |-> <<>>],
                  [var |-> "x", labels |-> <<"M">>]>>,
      edges |-> <<[source |-> "x", target |-> "y", labels |-> <<"R">>, direction |-> "IN"]>>],
     [nodes |-> <<[var |-> "x", labels |-> <<"L">>]>>]}
AdjBodies ==
    {[node_ids |-> <<"a">>, k |-> 2, direction |-> 2, distinct |-> TRUE, r_labels |-> <<"R">>],
     [node_ids |-> <<"a">>, k |-> 1, direction |-> 4],
     [node_ids |-> <<"a">>, direction |-> 1]}
OneHopBodies ==
    {[start_vertex_pk |-> "a"],
     [start_vertex_pk |-> "a", direction |-> 0, relation |-> ""],
     [start_vertex_pk |-> "b", direction |-> 1, relation |-> "R"],
     [start_vertex_pk |-> "b", direction |-> 2, relation |-> "T"],
     [start_vertex_pk |-> "c"],
     [start_vertex_pk |-> "a", direction |-> 3],
     [direction |-> 1]}

MCRequests ==
    {[route |-> "ping"]}
    \cup {Post("k_hop", body) : body \in KHopBodies}
    \cup {Post("common", body) : body \in CommonBodies}
    \cup {Post("wcc", body) : body \in WccBodies}
    \cup {Post("matching", body) : body \in MatchingBodies}
    \cup {Post("adj", body) : body \in AdjBodies}
    \cup {Post("one_hop", body) : body \in OneHopBodies}
    \cup {[route |-> "k_hop", content |-> "text", valid |-> TRUE, body |-> <<>>],
          [route |-> "wcc", content |-> "json", valid |-> FALSE, body |-> <<>>]}

Symmetry == Permutations(Thread)
=============================================================================
