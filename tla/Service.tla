------------------------------- MODULE Service -------------------------------
(***************************************************************************)
(* The process while it serves: the routes of src/src/main.cpp, the        *)
(* handlers of src/src/service/http/euleraph_http_handle.cpp, and the      *)
(* sessions of the readers they make.                                      *)
(*                                                                         *)
(* Each thread of the HTTP framework takes one request at a time.  A       *)
(* request is a record of its route and of what the handler looks at:      *)
(* whether the content type is JSON, whether the text parses, and the      *)
(* members of the body, which may be missing.  What the algorithms then    *)
(* count is the matter of Traversal, Wcc and SubgraphMatching; here a      *)
(* count is known by the parameters it is made with.                       *)
(***************************************************************************)
EXTENDS GraphStore, Sequences

CONSTANTS
    Thread,        \* threads of the HTTP framework (setThreadNum)
    SessionMax,    \* sessions the connection has left for serving
    Databases,     \* the stores that may be served
    Requests,      \* the requests that may come
    MaxRequests    \* bound: how many come

ASSUME ThreadAssumption == IsFiniteSet(Thread) /\ Thread # {}
ASSUME SessionAssumption == SessionMax \in Nat \ {0}
ASSUME RequestAssumption == MaxRequests \in Nat
\* What an import leaves whose look-ups and commits succeed (ServableTheorem of
\* ServerProofs).
ASSUME StoreAssumption == \A s \in Databases : Servable(s)
\* The arrays of a body are sequences, as JSON has them.
ASSUME ListAssumption ==
    \A r \in Requests : r.route # "ping" =>
       \A list \in {"node_ids", "nodes"} \cap DOMAIN r.body :
          LET array == r.body[list]
          IN  array \in Seq({array[i] : i \in DOMAIN array})
\* The one-hop handler takes it for granted that its body is JSON (line 38).
ASSUME OneHopAssumption ==
    \A r \in Requests : r.route = "one_hop" => r.content = "json" /\ r.valid

VARIABLES
    db,              \* the store, which nobody writes while it is served
    process,         \* "up", or "down" after an access through a bad pointer
    open_sessions,   \* how many sessions of the connection are in use
    arrived,         \* how many requests have come
    request,         \* of each thread: what it works on
    at,              \* of each thread: where it is in the handler
    reader,          \* of each thread: what session_ of the request's reader is
    algo_reader,     \* of each thread: whether the algorithm has a reader of its own
    params,          \* of each thread: what the request was translated to
    response,        \* of each thread: what was passed to callback
    abandoned        \* history: sessions whose ReaderWiredTiger is gone

vars == <<db, process, open_sessions, arrived, request, at, reader, algo_reader, params,
          response, abandoned>>

NoRequest == [route |-> "none"]
Rejected == [rejected |-> TRUE]
NoResponse == [status |-> 0]

Init ==
    /\ db \in Databases
    /\ process = "up" /\ open_sessions = 0 /\ arrived = 0 /\ abandoned = 0
    /\ request = [t \in Thread |-> NoRequest]
    /\ at = [t \in Thread |-> "idle"]
    /\ reader = [t \in Thread |-> "none"]
    /\ algo_reader = [t \in Thread |-> "none"]
    /\ params = [t \in Thread |-> Rejected]
    /\ response = [t \in Thread |-> NoResponse]

-----------------------------------------------------------------------------
(* The look-ups of both readers.  The name caches are those of one request, *)
(* during which no name changes.                                            *)

NotFound == 0
get_label_type_id(name) ==
    IF IdsOfName(db.label_type, name) = {} THEN NotFound ELSE IdOfName(db.label_type, name)
get_relation_type_id(name) ==
    IF IdsOfName(db.relation_type, name) = {} THEN NotFound ELSE IdOfName(db.relation_type, name)
get_label_type_by_id(id) == db.label_type[id]
get_relation_type_by_id(id) == db.relation_type[id]
get_vertex_by_pk(pk) ==
    IF IdsOfPk(db.vertex, pk) = {} THEN NotFound ELSE CHOOSE id \in IdsOfPk(db.vertex, pk) : TRUE
get_vertex_by_id(id) == db.vertex[id]

\* The keys with the prefix asked for, as EdgeScan shows; {} is any relation.
get_neighbors_by_start_vertex(start, direction, relations) ==
    {key \in DOMAIN db.edge : /\ key.start_vertex_id = start /\ key.direction = direction
                              /\ relations = {} \/ key.relation_type_id \in relations}

-----------------------------------------------------------------------------
(* From names to ids: one operator for each parse function.                 *)

\* A member that is missing; one of a wrong type is refused like it.
Has(body, members) == members \subseteq DOMAIN body
Member(body, list) == IF list \in DOMAIN body THEN body[list] ELSE <<>>

\* The look-ups of a list of names; all lists but the keys are optional.
LookUp(list, name) ==
    CASE list = "node_ids" -> get_vertex_by_pk(name)
      [] list = "n_labels" -> get_label_type_id(name)
      [] list = "r_labels" -> get_relation_type_id(name)
Ids(list, names) == [i \in DOMAIN names |-> LookUp(list, names[i])]
IdsIn(body, list) == Ids(list, Member(body, list))
AllFound(ids) == \A i \in DOMAIN ids : ids[i] # NotFound
NamesFound(body, lists) == \A list \in lists : AllFound(IdsIn(body, list))

parse_khop_query_params(body) ==
    IF Has(body, {"node_ids", "k", "direction"})
       /\ NamesFound(body, {"node_ids", "n_labels", "r_labels"})
    THEN [vertex_id_list |-> IdsIn(body, "node_ids"), k |-> body.k, direction |-> body.direction,
          n_labels |-> IdsIn(body, "n_labels"), r_labels |-> IdsIn(body, "r_labels")]
    ELSE Rejected

parse_common_neighbor_query_params(body) ==
    IF Has(body, {"node_ids"}) /\ NamesFound(body, {"node_ids", "r_labels"})
    THEN [vertex_id_list |-> IdsIn(body, "node_ids"), r_labels |-> IdsIn(body, "r_labels")]
    ELSE Rejected

parse_wcc_params(body) ==
    IF NamesFound(body, {"n_labels", "r_labels"})
    THEN [n_labels |-> IdsIn(body, "n_labels"), r_labels |-> IdsIn(body, "r_labels")]
    ELSE Rejected

get_direction(word) ==
    CASE word = "IN" -> "INCOMING" [] word = "OUT" -> "OUTGOING" [] OTHER -> "UNDIRECTED"

\* A variable that is listed twice has the labels of its last entry.
LastOf(nodes, var) ==
    CHOOSE i \in DOMAIN nodes : /\ nodes[i].var = var
                                /\ \A j \in DOMAIN nodes : nodes[j].var = var => j <= i

parse_subgraph_matching_params(body) ==
    IF /\ Has(body, {"nodes", "edges"})
       /\ \A i \in DOMAIN body.nodes : AllFound(Ids("n_labels", body.nodes[i].labels))
       /\ \A i \in DOMAIN body.edges : AllFound(Ids("r_labels", body.edges[i].labels))
    THEN [nodes_pattern_map |->
              [var \in {body.nodes[i].var : i \in DOMAIN body.nodes} |->
                  Ids("n_labels", body.nodes[LastOf(body.nodes, var)].labels)],
          edges_pattern_list |->
              [i \in DOMAIN body.edges |->
                  [source |-> body.edges[i].source, target |-> body.edges[i].target,
                   relations |-> Ids("r_labels", body.edges[i].labels),
                   direction |-> get_direction(body.edges[i].direction)]]]
    ELSE Rejected

\* The members have been read already, and are all there.
parse_adj_count_query_params(body) ==
    IF NamesFound(body, {"node_ids", "n_labels", "r_labels"})
    THEN [vertex_id_list |-> IdsIn(body, "node_ids"), k |-> body.k, direction |-> body.direction,
          n_labels |-> IdsIn(body, "n_labels"), r_labels |-> IdsIn(body, "r_labels"),
          distinct |-> "distinct" \in DOMAIN body /\ body.distinct]
    ELSE Rejected

-----------------------------------------------------------------------------
(* Routes and sessions. *)

\* The routes whose reader is a ReaderWiredTiger, and those that make a
\* OneTrxReaderWiredTiger.
ReaderRoutes == {"k_hop", "common"}
OneTrxRoutes == {"one_hop", "wcc", "matching", "adj"}

SessionLeft == open_sessions < SessionMax

\* A thread of the framework takes the next request and enters its lambda.
Arrive(t, r) ==
    /\ process = "up" /\ at[t] = "idle"
    /\ arrived < MaxRequests
    /\ arrived' = arrived + 1
    /\ request' = [request EXCEPT ![t] = r]
    /\ at' = [at EXCEPT ![t] = "route"]
    /\ UNCHANGED <<db, process, open_sessions, reader, algo_reader, params, response, abandoned>>

\* /ping makes no reader.
RoutePing(t) ==
    /\ process = "up" /\ at[t] = "route" /\ request[t].route = "ping"
    /\ at' = [at EXCEPT ![t] = "handle"]
    /\ UNCHANGED <<db, process, open_sessions, arrived, request, reader, algo_reader, params,
                   response, abandoned>>

MakeReader(t) ==
    /\ process = "up" /\ at[t] = "route"
    /\ request[t].route \in ReaderRoutes \cup OneTrxRoutes
    /\ SessionLeft
    /\ open_sessions' = open_sessions + 1
    /\ reader' = [reader EXCEPT ![t] = "open"]
    /\ at' = [at EXCEPT ![t] = "handle"]
    /\ UNCHANGED <<db, process, arrived, request, algo_reader, params, response, abandoned>>

\* The constructor of ReaderWiredTiger does not look at the code of
\* open_session, and session_ keeps what was in the memory.
MakeReaderFails(t) ==
    /\ process = "up" /\ at[t] = "route" /\ request[t].route \in ReaderRoutes
    /\ ~ SessionLeft
    /\ reader' = [reader EXCEPT ![t] = "garbage"]
    /\ at' = [at EXCEPT ![t] = "handle"]
    /\ UNCHANGED <<db, process, open_sessions, arrived, request, algo_reader, params, response,
                   abandoned>>

\* The k-hop and the adjacency count make a OneTrxReaderWiredTiger for
\* themselves, unless they have nothing to count.
OwnReader(t) ==
    /\ request[t].route \in {"k_hop", "adj"}
    /\ params[t].k > 0 /\ params[t].vertex_id_list # <<>> /\ params[t].direction \in 1 .. 3

\* The constructor of OneTrxReaderWiredTiger goes on with a null session_.
CrashInConstructor(t) ==
    /\ process = "up" /\ ~ SessionLeft
    /\ \/ at[t] = "route" /\ request[t].route \in OneTrxRoutes
       \/ at[t] = "algorithm" /\ OwnReader(t)
    /\ process' = "down"
    /\ UNCHANGED <<db, open_sessions, arrived, request, at, reader, algo_reader, params, response,
                   abandoned>>

-----------------------------------------------------------------------------
(* Handlers *)

Pong == [status |-> 200, body |-> "pong"]
BadRequest == [status |-> 400]
Code(c) == [status |-> 200, code |-> c]
Counted(p) == [status |-> 200, code |-> 0, counted |-> p]

\* A response is passed to callback while the reader still lives.
Respond(t, r) ==
    /\ response' = [response EXCEPT ![t] = r]
    /\ at' = [at EXCEPT ![t] = "responded"]

Ping(t) ==
    /\ process = "up" /\ at[t] = "handle" /\ request[t].route = "ping"
    /\ Respond(t, Pong)
    /\ UNCHANGED <<db, process, open_sessions, arrived, request, reader, algo_reader, params,
                   abandoned>>

\* The adjacency count reads its body into a struct, which must have these.
Readable(r) ==
    /\ r.content = "json" /\ r.valid
    /\ r.route = "adj" => Has(r.body, {"k", "direction", "node_ids"})

Refuse(t) ==
    /\ process = "up" /\ at[t] = "handle"
    /\ request[t].route \in (ReaderRoutes \cup OneTrxRoutes) \ {"one_hop"}
    /\ ~ Readable(request[t])
    /\ Respond(t, BadRequest)
    /\ UNCHANGED <<db, process, open_sessions, arrived, request, reader, algo_reader, params,
                   abandoned>>

Parsed(r) ==
    CASE r.route = "k_hop" -> parse_khop_query_params(r.body)
      [] r.route = "common" -> parse_common_neighbor_query_params(r.body)
      [] r.route = "wcc" -> parse_wcc_params(r.body)
      [] r.route = "matching" -> parse_subgraph_matching_params(r.body)
      [] r.route = "adj" -> parse_adj_count_query_params(r.body)

\* The look-ups that the two handlers with a ReaderWiredTiger come to.
LooksUp(r) ==
    /\ Readable(r) /\ Has(r.body, {"node_ids"})
    /\ \/ r.body.node_ids # <<>>
       \/ Member(r.body, "r_labels") # <<>> /\ (r.route = "k_hop" => Has(r.body, {"k"}))
       \/ Member(r.body, "n_labels") # <<>> /\ r.route = "k_hop" /\ Has(r.body, {"k"})

\* A look-up through a bad session_ may bring the process down, return an
\* error, or be answered by a session that an earlier reader has left open.
Translate(t) ==
    /\ process = "up" /\ at[t] = "handle"
    /\ request[t].route \in (ReaderRoutes \cup OneTrxRoutes) \ {"one_hop"}
    /\ Readable(request[t])
    /\ \/ params' = [params EXCEPT ![t] = Parsed(request[t])]
       \/ /\ reader[t] = "garbage" /\ LooksUp(request[t])
          /\ params' = [params EXCEPT ![t] = Rejected]
    /\ IF params'[t] = Rejected THEN Respond(t, Code(-1))
       ELSE at' = [at EXCEPT ![t] = "algorithm"] /\ UNCHANGED response
    /\ UNCHANGED <<db, process, open_sessions, arrived, request, reader, algo_reader, abandoned>>

CrashInLookUp(t) ==
    /\ process = "up" /\ reader[t] = "garbage"
    /\ \/ at[t] = "handle" /\ LooksUp(request[t])
       \/ at[t] = "algorithm" /\ request[t].route = "common" /\ Len(params[t].vertex_id_list) > 1
    /\ process' = "down"
    /\ UNCHANGED <<db, open_sessions, arrived, request, at, reader, algo_reader, params, response,
                   abandoned>>

StartAlgorithm(t) ==
    /\ process = "up" /\ at[t] = "algorithm" /\ OwnReader(t)
    /\ SessionLeft
    /\ open_sessions' = open_sessions + 1
    /\ algo_reader' = [algo_reader EXCEPT ![t] = "open"]
    /\ at' = [at EXCEPT ![t] = "counting"]
    /\ UNCHANGED <<db, process, arrived, request, reader, params, response, abandoned>>

\* Mutant: the algorithm does not release its reader.
FinishAlgorithmKeeps(t) ==
    /\ process = "up" /\ at[t] = "counting"
    /\ algo_reader' = [algo_reader EXCEPT ![t] = "none"]
    /\ Respond(t, Counted(params[t]))
    /\ UNCHANGED <<db, process, open_sessions, arrived, request, reader, params, abandoned>>

FinishAlgorithm(t) ==
    /\ process = "up" /\ at[t] = "counting"
    /\ open_sessions' = open_sessions - 1
    /\ algo_reader' = [algo_reader EXCEPT ![t] = "none"]
    /\ Respond(t, Counted(params[t]))
    /\ UNCHANGED <<db, process, arrived, request, reader, params, abandoned>>

\* The other algorithms read through the reader of the request.
RunAlgorithm(t) ==
    /\ process = "up" /\ at[t] = "algorithm" /\ ~ OwnReader(t)
    /\ Respond(t, Counted(params[t]))
    /\ UNCHANGED <<db, process, open_sessions, arrived, request, reader, algo_reader, params,
                   abandoned>>

-----------------------------------------------------------------------------
(* The one-hop handler reads the edges itself. *)

\* 0 is outgoing, 1 incoming, 2 both, and both unless said otherwise.
real_direction_array(body) ==
    LET asks(number) == Has(body, {"direction"}) /\ body.direction = number
    IN  IF asks(0) THEN <<"OUTGOING">>
        ELSE IF asks(1) THEN <<"INCOMING">>
        ELSE <<"OUTGOING", "INCOMING">>

\* Mutant: an incoming edge is written like an outgoing one.
LineUnturned(pk, start, key) ==
    [start_pk |-> pk,
     start_label_type |-> get_label_type_by_id(start.label_type_id),
     relation_type |-> get_relation_type_by_id(key.relation_type_id),
     end_pk |-> get_vertex_by_id(key.end_vertex_id).vertex_pk,
     end_label_type |-> get_label_type_by_id(db.edge[key])]

\* The line of an edge: an arrow from its start to its end.
Line(pk, start, key) ==
    LET own == get_label_type_by_id(start.label_type_id)
        other == get_label_type_by_id(db.edge[key])
        other_pk == get_vertex_by_id(key.end_vertex_id).vertex_pk
        out == key.direction = "OUTGOING"
    IN  [start_pk |-> IF out THEN pk ELSE other_pk,
         start_label_type |-> IF out THEN own ELSE other,
         relation_type |-> get_relation_type_by_id(key.relation_type_id),
         end_pk |-> IF out THEN other_pk ELSE pk,
         end_label_type |-> IF out THEN other ELSE own]

\* The lines of each direction in turn.
DataOf(body, relations) ==
    LET id == get_vertex_by_pk(body.start_vertex_pk)
        directions == real_direction_array(body)
    IN  [i \in DOMAIN directions |->
            {Line(body.start_vertex_pk, get_vertex_by_id(id), key) :
                key \in get_neighbors_by_start_vertex(id, directions[i], relations)}]

\* The relations asked for: one, or any.
RelationsOf(body) ==
    IF Has(body, {"relation"}) /\ body.relation # "" THEN {get_relation_type_id(body.relation)}
    ELSE {}

OneHopResponse(body) ==
    IF \/ ~ Has(body, {"start_vertex_pk"})
       \/ Has(body, {"direction"}) /\ body.direction \notin 0 .. 2
    THEN Code(400)
    ELSE IF \/ NotFound \in RelationsOf(body)
            \/ get_vertex_by_pk(body.start_vertex_pk) = NotFound
    THEN Code(500)
    ELSE [status |-> 200, data |-> DataOf(body, RelationsOf(body))]

OneHop(t) ==
    /\ process = "up" /\ at[t] = "handle" /\ request[t].route = "one_hop"
    /\ Respond(t, OneHopResponse(request[t].body))
    /\ UNCHANGED <<db, process, open_sessions, arrived, request, reader, algo_reader, params,
                   abandoned>>

-----------------------------------------------------------------------------
(* The handler returns: the reader goes with the last pointer to it. *)

\* Mutant: the destructor of OneTrxReaderWiredTiger is missing as well.
ReturnKeepsSession(t) ==
    /\ process = "up" /\ at[t] = "responded"
    /\ abandoned' = IF reader[t] = "open" /\ request[t].route \in ReaderRoutes
                    THEN abandoned + 1 ELSE abandoned
    /\ at' = [at EXCEPT ![t] = "idle"]
    /\ request' = [request EXCEPT ![t] = NoRequest]
    /\ reader' = [reader EXCEPT ![t] = "none"]
    /\ params' = [params EXCEPT ![t] = Rejected]
    /\ response' = [response EXCEPT ![t] = NoResponse]
    /\ UNCHANGED <<db, process, open_sessions, arrived, algo_reader>>

\* The destructor of OneTrxReaderWiredTiger closes its session;
\* ReaderWiredTiger has none, and its session stays open.
Return(t) ==
    /\ process = "up" /\ at[t] = "responded"
    /\ LET held == reader[t] = "open"
           kept == held /\ request[t].route \in ReaderRoutes
       IN  /\ abandoned' = IF kept THEN abandoned + 1 ELSE abandoned
           /\ open_sessions' = IF held /\ ~ kept THEN open_sessions - 1 ELSE open_sessions
    /\ at' = [at EXCEPT ![t] = "idle"]
    /\ request' = [request EXCEPT ![t] = NoRequest]
    /\ reader' = [reader EXCEPT ![t] = "none"]
    /\ params' = [params EXCEPT ![t] = Rejected]
    /\ response' = [response EXCEPT ![t] = NoResponse]
    /\ UNCHANGED <<db, process, arrived, algo_reader>>

-----------------------------------------------------------------------------
\* No request is left (the bound), or the process is gone.
Over ==
    /\ process = "down" \/ (arrived = MaxRequests /\ \A t \in Thread : at[t] = "idle")
    /\ UNCHANGED vars

Next ==
    \/ \E t \in Thread :
          \/ \E r \in Requests : Arrive(t, r)
          \/ RoutePing(t) \/ MakeReader(t) \/ MakeReaderFails(t) \/ CrashInConstructor(t)
          \/ Ping(t) \/ Refuse(t) \/ Translate(t) \/ CrashInLookUp(t) \/ OneHop(t)
          \/ StartAlgorithm(t) \/ FinishAlgorithm(t) \/ RunAlgorithm(t)
          \/ Return(t)
    \/ Over

Spec == Init /\ [][Next]_vars

-----------------------------------------------------------------------------
(* Properties *)

TypeOK ==
    /\ db \in Databases
    /\ process \in {"up", "down"}
    /\ open_sessions \in 0 .. SessionMax
    /\ arrived \in 0 .. MaxRequests
    /\ abandoned \in Nat
    /\ request \in [Thread -> Requests \cup {NoRequest}]
    /\ at \in [Thread -> {"idle", "route", "handle", "algorithm", "counting", "responded"}]
    /\ reader \in [Thread -> {"none", "open", "garbage"}]
    /\ algo_reader \in [Thread -> {"none", "open"}]

\* The readers that hold a session.
RequestSessions == {t \in Thread : reader[t] = "open"}
AlgorithmSessions == {t \in Thread : algo_reader[t] = "open"}

\* Every open session belongs to a request in progress, at most two to each,
\* or to a finished k-hop or common-neighbour request: no other route, and no
\* way out of a handler (refused, name not found, counted), leaves one behind.
SessionsAccounted ==
    open_sessions = abandoned + Cardinality(RequestSessions) + Cardinality(AlgorithmSessions)

\* How long the server stays up, whatever is asked and by how many threads at
\* once: only the sessions that ReaderWiredTiger leaves open can use up those
\* of the connection, so the process survives until they are at least
\* SessionMax - 2 * threads + 1.
SafeWithinBudget ==
    process = "down" => abandoned > SessionMax - 2 * Cardinality(Thread)

\* docs/test/01_test_checklist.md 76 asks that concurrent requests crash
\* nothing, and 01_design_lite.md 52 that the life of sessions be minded.
StaysUp == process = "up"

\* The labelled edges at a vertex, in the words of the file; for the vertex
\* itself the answer has the label of its row in the vertex table, which is
\* that of its first mention in the file, whatever this edge's row said.
LabelOf(pk) ==
    LET id == CHOOSE v \in DOMAIN db.vertex : db.vertex[v].vertex_pk = pk
    IN  db.label_type[db.vertex[id].label_type_id]
RowsAt(pk, direction, relation) ==
    LET asked == {row \in GraphOf(db) : relation = "" \/ row.relation_type = relation}
    IN  IF direction = "OUTGOING"
        THEN {[row EXCEPT !.start_label_type = LabelOf(pk)] :
                 row \in {x \in asked : x.start_pk = pk}}
        ELSE {[row EXCEPT !.end_label_type = LabelOf(pk)] :
                 row \in {x \in asked : x.end_pk = pk}}

\* A one-hop answer lists exactly the stored rows that leave the vertex, enter
\* it, or first one and then the other, with the relation asked for; it is an
\* error exactly if the direction, the relation or the vertex does not exist.
OneHopShowsRows ==
    \A t \in Thread :
       at[t] = "responded" /\ request[t].route = "one_hop" =>
          LET body == request[t].body
              relation == IF "relation" \in DOMAIN body THEN body.relation ELSE ""
              known == /\ {"start_vertex_pk"} \subseteq DOMAIN body
                       /\ "direction" \in DOMAIN body => body.direction \in 0 .. 2
                       /\ relation \in {""} \cup {db.relation_type[i] : i \in DOMAIN db.relation_type}
                       /\ body.start_vertex_pk \in {db.vertex[v].vertex_pk : v \in DOMAIN db.vertex}
              wanted == IF "direction" \in DOMAIN body /\ body.direction # 2
                        THEN <<<<"OUTGOING", "INCOMING">>[body.direction + 1]>>
                        ELSE <<"OUTGOING", "INCOMING">>
          IN  IF known
              THEN response[t].data = [i \in DOMAIN wanted |->
                       RowsAt(body.start_vertex_pk, wanted[i], relation)]
              ELSE response[t].code \in {400, 500}

\* What the ids of a filter select, and what its names say.
IdsSelectNames(labels, label_names, relations, relation_names) ==
    LET Rng(seq) == {seq[i] : i \in DOMAIN seq}
    IN  /\ \A v \in DOMAIN db.vertex :
              db.vertex[v].label_type_id \in Rng(labels)
                  <=> db.label_type[db.vertex[v].label_type_id] \in Rng(label_names)
        /\ \A key \in DOMAIN db.edge :
              /\ db.edge[key] \in Rng(labels)
                     <=> db.label_type[db.edge[key]] \in Rng(label_names)
              /\ key.relation_type_id \in Rng(relations)
                     <=> db.relation_type[key.relation_type_id] \in Rng(relation_names)

KeysTranslated(p, body) ==
    /\ Len(p.vertex_id_list) = Len(body.node_ids)
    /\ \A i \in DOMAIN body.node_ids :
          {v \in DOMAIN db.vertex : db.vertex[v].vertex_pk = body.node_ids[i]} = {p.vertex_id_list[i]}

PatternTranslated(p, body) ==
    /\ DOMAIN p.edges_pattern_list = DOMAIN body.edges
    /\ \A i \in DOMAIN body.edges :
          IdsSelectNames(<<>>, <<>>, p.edges_pattern_list[i].relations, body.edges[i].labels)
    /\ \A i \in DOMAIN body.nodes :
          LET later == {j \in DOMAIN body.nodes : j > i /\ body.nodes[j].var = body.nodes[i].var}
          IN  later = {} => IdsSelectNames(p.nodes_pattern_map[body.nodes[i].var],
                                           body.nodes[i].labels, <<>>, <<>>)

\* The query that is counted is the one that was asked, in a store in which an
\* earlier import has appended the same names again under other ids: the
\* vertices are those with the keys named, and the ids of a filter select
\* exactly the vertices and edges whose label or relation has a name listed.
TranslationIsExact ==
    \A t \in Thread :
       params[t] # Rejected =>
          LET p == params[t]
              body == request[t].body
          IN  IF request[t].route = "matching" THEN PatternTranslated(p, body)
              ELSE /\ request[t].route # "wcc" => KeysTranslated(p, body)
                   /\ IdsSelectNames(IF request[t].route = "common" THEN <<>> ELSE p.n_labels,
                                     IF request[t].route = "common" THEN <<>>
                                     ELSE Member(body, "n_labels"),
                                     p.r_labels, Member(body, "r_labels"))
=============================================================================
