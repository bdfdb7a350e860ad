------------------------------ MODULE Traversal ------------------------------
(***************************************************************************)
(* The queries that count vertices around a list of vertices, on top of    *)
(* EdgeScan: get_k_hop_neighbors_count (690-855) and get_adj_count         *)
(* (857-1008) of k_hop_neighbors_count.cpp, which go out level by level,   *)
(* and get_common_neighbor_count of algo_Implementation.cpp.               *)
(*                                                                         *)
(* The vectors of vertex ids are bags here, as their order decides nothing;*)
(* the list of relations is a sequence, as a request may repeat a name.    *)
(***************************************************************************)
EXTENDS EdgeScan, VertexIds

CONSTANTS
    Label,       \* the labels of the vertices, a function
    Relation,    \* the relation types
    EdgeSets,    \* the sets of edges <<start, relation, end>> that may be stored
    Queries      \* [algo, vertex_id_list, k, direction, n_labels, r_labels]

ASSUME RelationAssumption == IsFiniteSet(Relation) /\ Relation \subseteq Nat \ {0}
ASSUME EdgeAssumption == EdgeSets \subseteq SUBSET (Vertex \X Relation \X Vertex)

\* The handlers translate the names of a request to ids of the database.
ASSUME QueryAssumption ==
    \A q \in Queries :
       q.vertex_id_list \in Seq(Vertex) /\ q.r_labels \in Seq(Relation) /\ q.k \in Int

VARIABLES
    edges,       \* what is stored
    query,       \* the parameters
    keys,        \* the edge table as the cursor sees it
    vids,        \* the vertices of the level, with multiplicity
    next_vids,   \* those of the next level
    visited,     \* global_visited, or vid_hash of the level
    neighbor_sets, \* of the common-neighbour query, for the vertices so far
    scans,       \* the look-ups of the level still to be made
    hop,         \* how many levels are done
    count,       \* the answer
    at           \* where the query is

vars == <<edges, query, keys, vids, next_vids, visited, neighbor_sets, scans, hop, count, at>>

None == [v \in Vertex |-> 0]
Once(S) == [v \in Vertex |-> IF v \in S THEN 1 ELSE 0]
Members(bag) == {v \in Vertex : bag[v] > 0}
Size(bag) == MapThenSumSet(LAMBDA v : bag[v], Vertex)

Init ==
    /\ edges \in EdgeSets
    /\ query \in Queries
    /\ keys = EdgeTable(edges)
    /\ vids = None /\ next_vids = None
    /\ visited = {} /\ scans = <<>> /\ neighbor_sets = <<>>
    /\ hop = 0 /\ count = 0
    /\ at = "called"

-----------------------------------------------------------------------------
(* Parameters *)

KHop == query.algo = "k_hop"
Distinct == query.algo = "adj_distinct"
Common == query.algo = "common"
Adj == ~ KHop /\ ~ Common

\* 1 is outgoing, 2 incoming, 3 both, and the incoming edges come first; the
\* common-neighbour query has no parameter and takes both.
Directions ==
    IF Common THEN <<OUTGOING, INCOMING>>
    ELSE
    CASE query.direction = 1 -> <<OUTGOING>>
      [] query.direction = 2 -> <<INCOMING>>
      [] query.direction = 3 -> <<INCOMING, OUTGOING>>
      [] OTHER -> <<>>

Allowed(v) == query.n_labels = {} \/ Label[v] \in query.n_labels

\* The prefixes a vertex is looked up with: one per direction, or one per
\* direction and relation, which is made as often as the list names it.
LookUps(v) ==
    LET d == ToSet(Directions)
    IN  IF query.r_labels = <<>> THEN {<<v, x>> : x \in d}
        ELSE {<<v, x, r>> : x \in d, r \in ToSet(query.r_labels)}

\* The positions of the list that ask for a look-up: those that name its
\* relation, or the one position 0 of an empty list.
Named(prefix) ==
    IF query.r_labels = <<>> THEN {0}
    ELSE {i \in DOMAIN query.r_labels : query.r_labels[i] = prefix[3]}

\* What these look-ups find together: each key with each of the positions.
Each(found, prefix) == {Append(key, i) : key \in found, i \in Named(prefix)}

\* The look-ups of a level.
ScansOf(level) == InOrder(UNION {LookUps(v) : v \in Members(level)})

\* Mutant: a vertex of the list is a start whatever its label.
StartsUnchecked ==
    IF KHop \/ Distinct
    THEN Once(ToSet(query.vertex_id_list))
    ELSE [v \in Vertex |-> Cardinality({i \in DOMAIN query.vertex_id_list :
                                          query.vertex_id_list[i] = v})]

\* k-hop starts from the admitted vertices of the list, each once; the
\* adjacency count from all of them, each once if it is to be distinct.
Starts ==
    CASE KHop -> Once({v \in ToSet(query.vertex_id_list) : Allowed(v)})
      [] Distinct -> Once(ToSet(query.vertex_id_list))
      [] OTHER -> [v \in Vertex |-> Cardinality({i \in DOMAIN query.vertex_id_list :
                                                   query.vertex_id_list[i] = v})]

-----------------------------------------------------------------------------
(* Steps *)

Refuse ==
    /\ at = "called"
    /\ IF Common THEN Len(query.vertex_id_list) <= 1
       ELSE query.k <= 0 \/ query.vertex_id_list = <<>> \/ Directions = <<>>
    /\ at' = "done"
    /\ UNCHANGED <<edges, query, keys, vids, next_vids, visited, neighbor_sets, scans, hop, count>>

Begin ==
    /\ at = "called" /\ ~ Common
    /\ query.k > 0 /\ query.vertex_id_list # <<>> /\ Directions # <<>>
    /\ vids' = Starts
    /\ visited' = IF KHop THEN Members(Starts) ELSE {}
    /\ scans' = ScansOf(vids')
    /\ at' = "level"
    /\ UNCHANGED <<edges, query, keys, next_vids, neighbor_sets, hop, count>>

\* Mutant: visited is not looked at.
KHopScanRevisits ==
    /\ at = "level" /\ scans # <<>> /\ KHop
    /\ \E found \in Neighbors(keys, Head(scans)) :
          LET new == {key[4] : key \in {k \in found : Allowed(k[4])}}
          IN  /\ visited' = visited \cup new
              /\ next_vids' = Once(Members(next_vids) \cup new)
    /\ scans' = Tail(scans)
    /\ UNCHANGED <<edges, query, keys, vids, neighbor_sets, hop, count, at>>

\* One look-up of the k-hop query: what has not been visited goes on, and so a
\* look-up that is repeated finds nothing new.
KHopScan ==
    /\ at = "level" /\ scans # <<>> /\ KHop
    /\ \E found \in Neighbors(keys, Head(scans)) :
          LET new == {key[4] : key \in {k \in found : Allowed(k[4])}} \ visited
          IN  /\ visited' = visited \cup new
              /\ next_vids' = Once(Members(next_vids) \cup new)
    /\ scans' = Tail(scans)
    /\ UNCHANGED <<edges, query, keys, vids, neighbor_sets, hop, count, at>>

\* Mutant: a vertex that occurs several times in a level is looked up once.
AdjScanOnce ==
    /\ at = "level" /\ scans # <<>> /\ Adj
    /\ \E found \in Neighbors(keys, Head(scans)) :
          LET ends(v) == {key \in Each(found, Head(scans)) : key[4] = v /\ Allowed(v)}
              more == [v \in Vertex |-> Cardinality(ends(v))]
          IN  /\ visited' = visited \cup Members(more)
              /\ next_vids' = IF Distinct THEN Once(visited')
                              ELSE [v \in Vertex |-> next_vids[v] + more[v]]
    /\ scans' = Tail(scans)
    /\ UNCHANGED <<edges, query, keys, vids, neighbor_sets, hop, count, at>>

\* One look-up of the adjacency count, made for each occurrence of the vertex
\* in the level and each position of the relation in the list: every edge leads
\* on every time, or every new end of the level.
AdjScan ==
    /\ at = "level" /\ scans # <<>> /\ Adj
    /\ \E found \in Neighbors(keys, Head(scans)) :
          LET times == vids[Head(scans)[1]]
              ends(v) == {key \in Each(found, Head(scans)) : key[4] = v /\ Allowed(v)}
              more == [v \in Vertex |-> times * Cardinality(ends(v))]
          IN  /\ visited' = visited \cup Members(more)
              /\ next_vids' = IF Distinct THEN Once(visited')
                              ELSE [v \in Vertex |-> next_vids[v] + more[v]]
    /\ scans' = Tail(scans)
    /\ UNCHANGED <<edges, query, keys, vids, neighbor_sets, hop, count, at>>

LastLevel == hop + 1 = query.k

\* k-hop also ends on an empty level; the adjacency count then goes on and
\* finds nothing.
NextLevel ==
    /\ at = "level" /\ scans = <<>> /\ ~ Common
    /\ vids' = next_vids
    /\ next_vids' = None
    /\ visited' = IF KHop THEN visited ELSE {}
    /\ hop' = hop + 1
    /\ IF LastLevel \/ (KHop /\ Members(next_vids) = {})
       THEN scans' = <<>> /\ at' = "answer"
       ELSE scans' = ScansOf(next_vids) /\ UNCHANGED at
    /\ UNCHANGED <<edges, query, keys, neighbor_sets, count>>

Answer ==
    /\ at = "answer" /\ ~ Common
    /\ count' = IF KHop THEN Cardinality(visited) ELSE Size(vids)
    /\ at' = "done"
    /\ UNCHANGED <<edges, query, keys, vids, next_vids, visited, neighbor_sets, scans, hop>>

-----------------------------------------------------------------------------
(* Common neighbours: the list is gone through vertex by vertex. *)

BeginCommon ==
    /\ at = "called" /\ Common /\ Len(query.vertex_id_list) > 1
    /\ scans' = ScansOf(Once({Head(query.vertex_id_list)}))
    /\ neighbor_sets' = <<{}>>
    /\ at' = "level"
    /\ UNCHANGED <<edges, query, keys, vids, next_vids, visited, hop, count>>

CommonScan ==
    /\ at = "level" /\ scans # <<>> /\ Common
    /\ \E found \in Neighbors(keys, Head(scans)) :
          neighbor_sets' = [neighbor_sets EXCEPT ![Len(neighbor_sets)] =
                                @ \cup {key[4] : key \in found}]
    /\ scans' = Tail(scans)
    /\ UNCHANGED <<edges, query, keys, vids, next_vids, visited, hop, count, at>>

NextVertex ==
    /\ at = "level" /\ scans = <<>> /\ Common
    /\ IF Len(neighbor_sets) < Len(query.vertex_id_list)
       THEN /\ scans' = ScansOf(Once({query.vertex_id_list[Len(neighbor_sets) + 1]}))
            /\ neighbor_sets' = Append(neighbor_sets, {})
            /\ UNCHANGED at
       ELSE at' = "answer" /\ UNCHANGED <<scans, neighbor_sets>>
    /\ UNCHANGED <<edges, query, keys, vids, next_vids, visited, hop, count>>

\* The first of the smallest sets.
MinIdx ==
    CHOOSE i \in DOMAIN neighbor_sets : \A j \in DOMAIN neighbor_sets :
       \/ Cardinality(neighbor_sets[i]) < Cardinality(neighbor_sets[j])
       \/ Cardinality(neighbor_sets[i]) = Cardinality(neighbor_sets[j]) /\ i <= j

\* Mutant: the sets before the smallest one are not searched.
CommonAnswerSkips ==
    /\ at = "answer" /\ Common
    /\ count' = Cardinality({v \in neighbor_sets[MinIdx] :
                    \A i \in DOMAIN neighbor_sets : i > MinIdx => v \in neighbor_sets[i]})
    /\ at' = "done"
    /\ UNCHANGED <<edges, query, keys, vids, next_vids, visited, neighbor_sets, scans, hop>>

\* The smallest set is searched for in all others.
CommonAnswer ==
    /\ at = "answer" /\ Common
    /\ count' = Cardinality({v \in neighbor_sets[MinIdx] :
                    \A i \in DOMAIN neighbor_sets \ {MinIdx} : v \in neighbor_sets[i]})
    /\ at' = "done"
    /\ UNCHANGED <<edges, query, keys, vids, next_vids, visited, neighbor_sets, scans, hop>>

Done == at = "done" /\ UNCHANGED vars

Next ==
    \/ Refuse \/ Begin \/ KHopScan \/ AdjScan \/ NextLevel \/ Answer
    \/ BeginCommon \/ CommonScan \/ NextVertex \/ CommonAnswer
    \/ Done

Spec == Init /\ [][Next]_vars

-----------------------------------------------------------------------------
(* Properties *)

TypeOK ==
    /\ vids \in [Vertex -> Nat]
    /\ next_vids \in [Vertex -> Nat]
    /\ visited \in SUBSET Vertex
    /\ neighbor_sets \in Seq(SUBSET Vertex)
    /\ Len(neighbor_sets) <= Len(query.vertex_id_list)
    /\ hop \in Nat /\ (hop > 0 => hop <= query.k)
    /\ count \in Nat
    /\ at \in {"called", "level", "answer", "done"}

\* Wherever search_near leaves the cursor, a look-up returns exactly the keys
\* with its prefix.
ScanIsExact ==
    scans # <<>> =>
       Neighbors(keys, Head(scans))
         = {{key \in ToSet(keys) : SubSeq(key, 1, Len(Head(scans))) = Head(scans)}}

\* The edges a query may follow, each once for every position of the list that
\* asks for it, and its walks of n edges: sequences in which each edge begins
\* where the one before it ends.
Followed ==
    UNION {Each({key}, key) :
             key \in {k \in ToSet(keys) : k[2] \in ToSet(Directions) /\ Allowed(k[4])}}
End(v, w) == IF w = <<>> THEN v ELSE Last(w)[4]
Walks(follow, v, n) ==
    LET walks[i \in Nat] ==
            IF i = 0 THEN {<<>>}
            ELSE UNION {{Append(w, key) : key \in {k \in follow : k[1] = End(v, w)}} :
                           w \in walks[i - 1]}
    IN  walks[n]
WalksFrom(v, n) == Walks(Followed, v, n)

\* The vertices that n edges lead to from a start, and those within n edges.
Reached(n) == UNION {{End(v, w) : w \in WalksFrom(v, n)} : v \in Members(Starts)}
Ball(n) == UNION {Reached(i) : i \in 0 .. n}

\* While k-hop goes through a level, the level is the vertices at that distance
\* from the starts, and what was visited lies between two balls.
FrontierIsDistance ==
    KHop /\ at \in {"level", "answer"} =>
       /\ Ball(hop) \subseteq visited
       /\ visited \subseteq Ball(hop + 1)
       /\ vids = Once(Ball(hop) \ (IF hop = 0 THEN {} ELSE Ball(hop - 1)))

\* The admitted starts of a query, by the words of the API.
Asked(v) == v \in ToSet(query.vertex_id_list) /\ Allowed(v)

\* The vertices within k admitted edges of an admitted start.
Within ==
    {x \in Vertex : \E v \in {s \in Vertex : Asked(s)}, n \in 0 .. query.k :
                       \E w \in WalksFrom(v, n) : End(v, w) = x}

\* The k-hop query misses no neighbour and counts none twice: its answer less the
\* number of the admitted starts is the number of the other vertices within k
\* admitted edges of them.  The comment on 853 says that the starts are subtracted;
\* the code leaves them in, so the property speaks of the neighbours only.
KHopCountsNeighbors ==
    KHop /\ at = "done" /\ hop > 0 =>
       LET starts == {v \in Vertex : Asked(v)}
       IN  count - Cardinality(starts) = Cardinality(Within \ starts)

\* The adjacency count is the number of walks of k edges, or of their ends.  An
\* edge of a relation that the list names twice counts as two.
AdjCountsWalks ==
    Adj /\ at = "done" /\ hop > 0 =>
       LET starts == query.vertex_id_list
           walks == UNION {{<<i, w>> : w \in WalksFrom(starts[i], query.k)} : i \in DOMAIN starts}
       IN  count = IF Distinct THEN Cardinality({Last(w[2])[4] : w \in walks})
                   ELSE Cardinality(walks)

\* The common-neighbour count is the number of vertices joined to every vertex
\* of the list by an edge of an admitted relation in either direction, however
\* often the list names a vertex; a list of one vertex has none.
CommonIsIntersection ==
    Common /\ at = "done" =>
       LET asked == ToSet(query.vertex_id_list)
           joined(v, x) == \E e \in edges :
                              /\ {e[1], e[3]} = {v, x}
                              /\ query.r_labels = <<>> \/ e[2] \in ToSet(query.r_labels)
       IN  count = IF Len(query.vertex_id_list) <= 1 THEN 0
                   ELSE Cardinality({x \in Vertex : \A v \in asked : joined(v, x)})
=============================================================================
