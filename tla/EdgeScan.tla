------------------------------ MODULE EdgeScan ------------------------------
(***************************************************************************)
(* get_neighbors_by_start_vertex of both readers: a prefix of the packed   *)
(* key is searched in the edge table, and the cursor reads on from there   *)
(* as long as the prefix matches.                                          *)
(*                                                                         *)
(* A key is <<start_vertex_id, direction, relation_type_id, end_vertex_id>>*)
(* and a prefix its first two or three fields; the table is the sorted     *)
(* sequence of its keys.  WiredTiger compares the bytes of the keys, so    *)
(* numbers of several bytes do not sort by value; all that is used of the  *)
(* order is that keys with a common prefix are neighbours.                 *)
(***************************************************************************)
EXTENDS Integers, SequencesExt

\* EdgeDirection as it is stored.
OUTGOING == 0
INCOMING == 1

\* The order of two keys, or of a key and a prefix; a prefix comes first.
Before(a, b) ==
    \/ IsStrictPrefix(a, b)
    \/ \E i \in 1 .. Len(a) :
          /\ i <= Len(b) /\ a[i] < b[i]
          /\ \A j \in 1 .. i - 1 : a[j] = b[j]

\* A set of keys or prefixes in their order.
InOrder(S) ==
    LET sort[T \in SUBSET S] ==
            IF T = {} THEN <<>>
            ELSE LET first == CHOOSE x \in T : \A y \in T \ {x} : Before(x, y)
                 IN  <<first>> \o sort[T \ {first}]
    IN  sort[S]

\* The table of a graph: every edge is stored in both directions.
EdgeTable(edges) ==
    InOrder(UNION {{<<e[1], OUTGOING, e[2], e[3]>>, <<e[3], INCOMING, e[2], e[1]>>} :
                      e \in edges})

\* Where search_near may leave the cursor: on the last smaller key or on the
\* first larger one, as WiredTiger likes; nowhere if the table is empty.  A
\* prefix is shorter than every key, so it is never found exactly.
SearchNear(keys, prefix) ==
    LET smaller == {i \in DOMAIN keys : Before(keys[i], prefix)}
        larger == DOMAIN keys \ smaller
    IN  {[pos |-> Max(s), exact |-> -1] : s \in {smaller} \ {{}}}
          \cup {[pos |-> Min(s), exact |-> 1] : s \in {larger} \ {{}}}

\* The keys from position i on, up to the first that does not match.
ReadFrom(keys, i, prefix) ==
    LET read[j \in 1 .. Len(keys) + 1] ==
            IF j > Len(keys) THEN {}
            ELSE IF IsPrefix(prefix, keys[j]) THEN {keys[j]} \cup read[j + 1] ELSE {}
    IN  read[i]

\* Mutant: the cursor is read where search_near has left it.
NeighborsFromHere(keys, prefix) ==
    IF keys = <<>> THEN {{}}
    ELSE {ReadFrom(keys, near.pos, prefix) : near \in SearchNear(keys, prefix)}

\* The possible results; a smaller key is stepped over before reading.
Neighbors(keys, prefix) ==
    IF keys = <<>> THEN {{}}
    ELSE {ReadFrom(keys, IF near.exact < 0 THEN near.pos + 1 ELSE near.pos, prefix) :
             near \in SearchNear(keys, prefix)}
=============================================================================
