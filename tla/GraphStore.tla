----------------------------- MODULE GraphStore -----------------------------
(***************************************************************************)
(* The tables of the WiredTiger database and the elementary look-ups the   *)
(* writers and readers make in them (src/src/storage/).                    *)
(*                                                                         *)
(* The three record-number tables are partial functions from the record    *)
(* number, which serves as the id, to the row:                             *)
(*   label_type, relation_type   id |-> name                               *)
(*   vertex                      id |-> [label_type_id, vertex_pk]         *)
(* and the edge table is a partial function from the packed key to the     *)
(* label id of the edge's other end.                                       *)
(***************************************************************************)
EXTENDS Integers, FiniteSets
LOCAL INSTANCE FiniteSetsExt

EmptyTable == [k \in {} |-> k]
EmptyStore == [label_type |-> EmptyTable, relation_type |-> EmptyTable,
               vertex |-> EmptyTable, edge |-> EmptyTable]

\* WiredTigerEdgeStorageKey.
EdgeKey(start, direction, relation, end) ==
    [start_vertex_id |-> start, direction |-> direction,
     relation_type_id |-> relation, end_vertex_id |-> end]

\* A table or a cache with one entry put in, in the place of one it may have ...
WithEntry(table, k, entry) ==
    [x \in DOMAIN table \cup {k} |-> IF x = k THEN entry ELSE table[x]]

\* ... and one with many.
WithEntries(table, entries) ==
    [x \in DOMAIN table \cup DOMAIN entries |->
        IF x \in DOMAIN entries THEN entries[x] ELSE table[x]]

\* The record number of the last row of a table.
LastRecno(table) == IF DOMAIN table = {} THEN 0 ELSE Max(DOMAIN table)

\* The ids under which a name is stored in label_type or relation_type.
IdsOfName(table, name) == {id \in DOMAIN table : table[id] = name}

\* Mutant: the search positions on the last entry of the name.
LastIdOfName(table, name) == Max(IdsOfName(table, name))

\* A search of a name index positions on the smallest record number.
IdOfName(table, name) == Min(IdsOfName(table, name))

\* The ids under which a primary key is stored, whatever its label.
IdsOfPk(vertex, pk) == {id \in DOMAIN vertex : vertex[id].vertex_pk = pk}

\* get_vertex_ids: the vertices found, as a partial function of the keys asked.
VertexIds(vertex, pks) ==
    [pk \in {p \in pks : IdsOfPk(vertex, p) # {}} |-> Min(IdsOfPk(vertex, pk))]

-----------------------------------------------------------------------------
(* What a whole store means. *)

\* The edge that the other direction of an edge is stored under.
Mirror(key) ==
    EdgeKey(key.end_vertex_id,
            IF key.direction = "OUTGOING" THEN "INCOMING" ELSE "OUTGOING",
            key.relation_type_id, key.start_vertex_id)

\* Every id an edge or a vertex refers to is the id of a row.
ReferencesResolve(s) ==
    /\ \A id \in DOMAIN s.vertex : s.vertex[id].label_type_id \in DOMAIN s.label_type
    /\ \A key \in DOMAIN s.edge :
          /\ {key.start_vertex_id, key.end_vertex_id} \subseteq DOMAIN s.vertex
          /\ key.relation_type_id \in DOMAIN s.relation_type
          /\ s.edge[key] \in DOMAIN s.label_type

\* Both directions of every edge are stored, and nothing that is no edge.
BothDirections(s) == \A key \in DOMAIN s.edge : Mirror(key) \in DOMAIN s.edge
IsKey(key) ==
    /\ key.direction \in {"OUTGOING", "INCOMING"}
    /\ key = EdgeKey(key.start_vertex_id, key.direction, key.relation_type_id, key.end_vertex_id)
KeysOK(s) == (\A key \in DOMAIN s.edge : IsKey(key)) /\ BothDirections(s)

\* A primary key has one vertex.
OnePerPk(s) ==
    \A i, j \in DOMAIN s.vertex : s.vertex[i].vertex_pk = s.vertex[j].vertex_pk => i = j

\* Of the ids of a name the vertices and edges use the smallest.
IsFirst(table, id) == \A other \in IdsOfName(table, table[id]) : id <= other
IdsAreFirst(s) ==
    /\ \A id \in DOMAIN s.vertex : IsFirst(s.label_type, s.vertex[id].label_type_id)
    /\ \A key \in DOMAIN s.edge : /\ IsFirst(s.relation_type, key.relation_type_id)
                                  /\ IsFirst(s.label_type, s.edge[key])

\* A store that says what its file says: what the handlers take for granted of
\* the one they serve.
Servable(s) ==
    /\ DOMAIN s.label_type \subseteq Nat \ {0}
    /\ DOMAIN s.relation_type \subseteq Nat \ {0}
    /\ DOMAIN s.vertex \subseteq Nat \ {0}
    /\ ReferencesResolve(s) /\ KeysOK(s) /\ OnePerPk(s) /\ IdsAreFirst(s)

\* The input row an outgoing edge stands for.
RowOfEdge(s, key) ==
    [start_pk |-> s.vertex[key.start_vertex_id].vertex_pk,
     start_label_type |-> s.label_type[s.edge[Mirror(key)]],
     relation_type |-> s.relation_type[key.relation_type_id],
     end_pk |-> s.vertex[key.end_vertex_id].vertex_pk,
     end_label_type |-> s.label_type[s.edge[key]]]

\* The labelled graph a reader of the store sees, as rows of an input file.
GraphOf(s) ==
    {RowOfEdge(s, key) : key \in {k \in DOMAIN s.edge : k.direction = "OUTGOING"}}
=============================================================================
