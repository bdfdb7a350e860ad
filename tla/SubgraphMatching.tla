-------------------------- MODULE SubgraphMatching --------------------------
(***************************************************************************)
(* AlgoImpl::get_subgraph_matching_count (src/src/algo/algo_Implementation.*)
(* cpp): backtracking over the variables of a pattern.  Two variables may  *)
(* stand for one vertex (homomorphisms are counted).  A vertex has one      *)
(* label.                                                                  *)
(***************************************************************************)
EXTENDS EdgeScan, VertexIds

CONSTANTS
    Label,       \* the labels of the vertices, a function
    EdgeSets,    \* the sets of edges <<start, relation, end>> that may be stored
    Patterns     \* [nodes : function from variables to sets of labels,
                 \*  edges : set of [source, target, relations, direction]]

\* The edges of a pattern are between its variables.
WellFormed(p) ==
    /\ IsFiniteSet(DOMAIN p.nodes)
    /\ \A e \in p.edges :
          /\ e.source \in DOMAIN p.nodes /\ e.target \in DOMAIN p.nodes
          /\ e.relations \subseteq Nat /\ e.direction \in {OUTGOING, INCOMING}

VARIABLES
    keys,              \* the edge table
    pattern,
    var_names,         \* the variables in the order they are matched in
    depth,             \* how many variables are matched
    next,              \* per variable, its next candidate
    current_mapping,   \* per variable, the vertex last assigned, at first 0
    total,
    at                 \* "search" or "done"

vars == <<keys, pattern, var_names, depth, next, current_mapping, total, at>>

Var == DOMAIN pattern.nodes

\* The vertices a variable may stand for, in the order of the scan.
CandidateSet(nodes, x) == {v \in Vertex : Label[v] \in nodes[x]}
candidates(x) == InOrder({<<v>> : v \in CandidateSet(pattern.nodes, x)})

\* The variables by the number of their candidates; those with equally many
\* come as the hash map and the sort happen to leave them.
Orders(nodes) ==
    {o \in [1 .. Cardinality(DOMAIN nodes) -> DOMAIN nodes] :
        /\ \A i, j \in DOMAIN o : o[i] = o[j] => i = j
        /\ \A i, j \in DOMAIN o : i < j =>
              Cardinality(CandidateSet(nodes, o[i])) <= Cardinality(CandidateSet(nodes, o[j]))}

Init ==
    /\ \E edges \in EdgeSets : keys = EdgeTable(edges)
    /\ pattern \in Patterns
    /\ var_names \in Orders(pattern.nodes)
    /\ depth = 0
    /\ next = [x \in Var |-> 1]
    /\ current_mapping = [x \in Var |-> 0]
    /\ total = 0
    /\ at = "search"

-----------------------------------------------------------------------------

IndexOf(x) == CHOOSE i \in DOMAIN var_names : var_names[i] = x

\* The edges whose second end is matched at this depth.
EdgesAtDepth ==
    {e \in pattern.edges : Max({IndexOf(e.source), IndexOf(e.target)}) = depth + 1}

\* Mutant: the pattern edge is looked up from its later variable.
FoundFromLater(e, vid) ==
    LET other == IF IndexOf(e.source) = depth + 1 THEN e.target ELSE e.source
    IN  \E r \in e.relations, found \in Neighbors(keys, <<vid, e.direction>>) :
           \E key \in found : key[3] = r /\ key[4] = current_mapping[other]

\* Is the pattern edge in the graph when the variable of this depth is vid?
\* If both ends are this variable, vid is the source, and the target is what
\* current_mapping holds for it before vid is assigned, which is 0.
Found(e, vid) ==
    LET is_src == IndexOf(e.source) = depth + 1
        u == IF is_src THEN vid ELSE current_mapping[e.source]
        v == IF is_src THEN current_mapping[e.target] ELSE vid
    IN  \E r \in e.relations : \E found \in Neighbors(keys, <<u, e.direction, r>>) :
           \E key \in found : key[4] = v

Variable == var_names[depth + 1]
Candidate == candidates(Variable)[next[Variable]][1]
HasCandidate == next[Variable] <= Len(candidates(Variable))

\* A consistent candidate is assigned, and the next variable begins anew.
Assign ==
    /\ at = "search" /\ depth < Len(var_names) /\ HasCandidate
    /\ \A e \in EdgesAtDepth : Found(e, Candidate)
    /\ current_mapping' = [current_mapping EXCEPT ![Variable] = Candidate]
    /\ next' = [x \in Var |->
                   IF x = Variable THEN next[x] + 1
                   ELSE IF IndexOf(x) = depth + 2 THEN 1 ELSE next[x]]
    /\ depth' = depth + 1
    /\ UNCHANGED <<keys, pattern, var_names, total, at>>

Reject ==
    /\ at = "search" /\ depth < Len(var_names) /\ HasCandidate
    /\ \E e \in EdgesAtDepth : ~ Found(e, Candidate)
    /\ next' = [next EXCEPT ![Variable] = @ + 1]
    /\ UNCHANGED <<keys, pattern, var_names, depth, current_mapping, total, at>>

\* backtrack returns; the first call returns to the caller.
Return == IF depth = 0 THEN at' = "done" /\ UNCHANGED depth
          ELSE depth' = depth - 1 /\ UNCHANGED at

Match ==
    /\ at = "search" /\ depth = Len(var_names)
    /\ total' = total + 1
    /\ Return
    /\ UNCHANGED <<keys, pattern, var_names, next, current_mapping>>

\* The mapping keeps the last candidate of the variable that is left.
Exhausted ==
    /\ at = "search" /\ depth < Len(var_names) /\ ~ HasCandidate
    /\ Return
    /\ UNCHANGED <<keys, pattern, var_names, next, current_mapping, total>>

Done == at = "done" /\ UNCHANGED vars

Next == Assign \/ Reject \/ Match \/ Exhausted \/ Done

Spec == Init /\ [][Next]_vars

-----------------------------------------------------------------------------
(* Properties *)

Assigned == {var_names[i] : i \in 1 .. depth}

TypeOK ==
    /\ depth \in 0 .. Len(var_names)
    /\ next \in [Var -> 1 .. Cardinality(Vertex) + 1]
    /\ total \in Nat
    /\ at \in {"search", "done"}
    /\ \A x \in Assigned :
          /\ current_mapping[x] \in CandidateSet(pattern.nodes, x)
          /\ candidates(x)[next[x] - 1][1] = current_mapping[x]

\* The homomorphisms of the pattern: every variable has an admitted label and
\* every pattern edge an edge of one of its relations.
Homomorphisms ==
    {h \in [Var -> Vertex] :
        /\ \A x \in Var : Label[h[x]] \in pattern.nodes[x]
        /\ \A e \in pattern.edges : \E r \in e.relations :
              <<h[e.source], e.direction, r, h[e.target]>> \in ToSet(keys)}

\* The search has gone past h: the first variable in which h differs from the
\* current assignment has a smaller candidate there, or all of its are tried.
Passed(h) ==
    \/ at = "done"
    \/ \E i \in 1 .. depth :
          /\ \A j \in 1 .. i - 1 : h[var_names[j]] = current_mapping[var_names[j]]
          /\ h[var_names[i]] < current_mapping[var_names[i]]
    \/ /\ depth < Len(var_names)
       /\ \A x \in Assigned : h[x] = current_mapping[x]
       /\ HasCandidate => h[Variable] < Candidate

\* At every moment the total is the number of homomorphisms the search has gone
\* past, so in the end that of all: none is counted twice, and none is missed
\* behind a variable that was left and matched anew.
MatchesCounted == total = Cardinality({h \in Homomorphisms : Passed(h)})

\* The return value by algo.hpp:79 ("返回匹配的子图实例总数"): the search ends with
\* the number of all homomorphisms of the pattern.
AllMatchesCounted == at = "done" => total = Cardinality(Homomorphisms)

\* No pattern edge goes from a variable to itself.  Such an edge is never found
\* (see Found), and its pattern counts nothing, loops in the graph or not.
Findable == \A e \in pattern.edges : e.source # e.target
=============================================================================
