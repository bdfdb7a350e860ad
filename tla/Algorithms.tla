------------------------------ MODULE Algorithms ------------------------------
(***************************************************************************)
(* One call of an algorithm of AlgoImpl (src/src/interface/algo/algo.hpp)  *)
(* over one state of the database: a query of Traversal, get_wcc_count of  *)
(* Wcc or get_subgraph_matching_count of SubgraphMatching.  The variables  *)
(* of the algorithms that are not called keep the values they have here.   *)
(***************************************************************************)
EXTENDS Traversal, Wcc

CONSTANT Patterns    \* of get_subgraph_matching_count

VARIABLES
    call,                                                    \* the algorithm called
    pattern, var_names, depth, next, current_mapping, total  \* of SubgraphMatching, ...

traversalVars == <<edges, query, vids, next_vids, visited, neighbor_sets, scans, hop, count>>
matchingVars == <<pattern, var_names, depth, next, current_mapping, total>>
callVars == <<call, keys, at, traversalVars, matchingVars, wccVars>>

\* ... which shares keys and at with Traversal.
Matching == INSTANCE SubgraphMatching

ASSUME PatternAssumption == \A p \in Patterns : Matching!WellFormed(p)

NoQuery == [algo |-> "none", vertex_id_list |-> <<>>, k |-> 0, direction |-> 0,
            n_labels |-> {}, r_labels |-> <<>>]
NoTraversal ==
    /\ edges = {} /\ query = NoQuery
    /\ vids = None /\ next_vids = None /\ visited = {} /\ neighbor_sets = <<>>
    /\ scans = <<>> /\ hop = 0 /\ count = 0

NoMatching ==
    /\ pattern = [nodes |-> [x \in {} |-> {}], edges |-> {}]
    /\ var_names = <<>> /\ depth = 0 /\ next = <<>> /\ current_mapping = <<>> /\ total = 0

NoWcc ==
    /\ graph = [label |-> <<>>, edges |-> {}]
    /\ params = [label_type_id_list |-> {}, relation_label_type_id_list |-> {}]
    /\ parent = [x \in Vertex |-> kInactive] /\ components = 0
    /\ unscanned = {} /\ u = 0 /\ todo = {} /\ edge = <<>> /\ stage = "idle"

CallInit ==
    \/ call = "traversal" /\ Init /\ NoMatching /\ NoWcc
    \/ call = "matching" /\ Matching!Init /\ NoTraversal /\ NoWcc
    \/ call = "wcc" /\ WccInit /\ NoTraversal /\ NoMatching /\ keys = <<>> /\ at = "done"

Traverse ==
    call = "traversal" /\ Next /\ UNCHANGED <<call, matchingVars, wccVars>>
Match ==
    call = "matching" /\ Matching!Next /\ UNCHANGED <<call, traversalVars, wccVars>>
CountComponents ==
    call = "wcc" /\ WccNext /\ UNCHANGED <<call, keys, at, traversalVars, matchingVars>>

CallNext == Traverse \/ Match \/ CountComponents

CallSpec == CallInit /\ [][CallNext]_callVars

-----------------------------------------------------------------------------
(* Properties: those of Traversal and of Wcc, which hold of the other calls *)
(* as well since their variables are left alone, and of SubgraphMatching.  *)

\* get_subgraph_matching_count: see SubgraphMatching.
MatchesCounted == call = "matching" => Matching!MatchesCounted

\* What algo.hpp:79 promises of its return value: see SubgraphMatching.
AllMatchesCounted == call = "matching" => Matching!AllMatchesCounted
=============================================================================
