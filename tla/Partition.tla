------------------------------ MODULE Partition ------------------------------
(***************************************************************************)
(* What counting the components of a graph promises: vertices are added as *)
(* classes of their own, classes are joined, and the count is kept right.  *)
(* There is no scan, no forest and no compression here.                    *)
(***************************************************************************)
EXTENDS Integers

CONSTANT Vertex

VARIABLES
    classes,     \* the disjoint sets of vertices seen so far
    count        \* what is reported

vars == <<classes, count>>

Init == classes = {} /\ count = 0

Add(v) ==
    /\ v \notin UNION classes
    /\ classes' = classes \cup {{v}}
    /\ count' = count + 1

Join(P, Q) ==
    /\ P # Q
    /\ classes' = (classes \ {P, Q}) \cup {P \cup Q}
    /\ count' = count - 1

Next ==
    \/ \E v \in Vertex : Add(v)
    \/ \E P, Q \in classes : Join(P, Q)

Spec == Init /\ [][Next]_vars
=============================================================================
