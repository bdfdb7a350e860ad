--------------------------------- MODULE Dsu ---------------------------------
(***************************************************************************)
(* The union-find of src/src/algo/algo_Implementation.cpp (class DSU) as   *)
(* operators on its array parent_: a vertex that is not active, the root   *)
(* of a set with its size, or a vertex below another.                      *)
(***************************************************************************)
EXTENDS VertexIds

CONSTANT INT32_MAX       \* bound of the parent pointers

\* What the comment on the DSU asks of the ids.
ASSUME LimitAssumption == INT32_MAX \in Nat /\ \A x \in Vertex : x < INT32_MAX

kInactive == - INT32_MAX - 1

is_active(par, x) == x < INT32_MAX /\ par[x] # kInactive

activate(par, x) == [par EXCEPT ![x] = -1]

\* The root of x's set.
FindRoot(par, x) ==
    LET up[y \in Vertex] == IF par[y] < 0 THEN y ELSE up[par[y]] IN up[x]

\* find: every vertex on the way is hung on the root.
Compress(par, x) ==
    LET way[y \in Vertex] == IF par[y] < 0 THEN {} ELSE {y} \cup way[par[y]]
    IN  [y \in Vertex |-> IF y \in way[x] THEN FindRoot(par, x) ELSE par[y]]

\* Mutant: the larger set is hung on the smaller.
LinkBySizeReversed(par, ra, rb) ==
    LET big == IF par[ra] > par[rb] THEN ra ELSE rb
        small == IF big = ra THEN rb ELSE ra
    IN  [par EXCEPT ![big] = par[ra] + par[rb], ![small] = big]

\* Mutant: the root keeps its old size.
LinkKeepsSize(par, ra, rb) ==
    IF par[ra] > par[rb] THEN [par EXCEPT ![ra] = rb] ELSE [par EXCEPT ![rb] = ra]

\* Roots hold their sizes as negative numbers; the smaller set is hung on the
\* larger, b's on a's if they are equal.
Link(par, ra, rb) ==
    LET big == IF par[ra] > par[rb] THEN rb ELSE ra
        small == IF big = ra THEN rb ELSE ra
    IN  [par EXCEPT ![big] = par[ra] + par[rb], ![small] = big]
=============================================================================
